----------------------- MODULE AuthorizationProjection ----------------------
(***************************************************************************)
(* The project-wide authorization projection of Data Access v2             *)
(* (data-access-authorization-projection.service.ts): preview, apply and   *)
(* recover of a batch that puts a projection constraint on the             *)
(* authenticated select of several tables with one replace_metadata, the   *)
(* operation rows (data-access-projection-operation.repository.ts,         *)
(* migration 027) and the project runtime context that an                  *)
(* environment-scoped contract needs (project-runtime-context.service.ts). *)
(*                                                                         *)
(* replace_metadata overwrites the metadata of the whole deployment, other *)
(* projects' included.  A handler does its SQL over the session that holds *)
(* the project lock; when that session dies so does every later statement, *)
(* while a metadata request it sent may still arrive.                      *)
(***************************************************************************)
EXTENDS Naturals, Sequences

CONSTANTS
  Workers,      \* request handlers that can run at the same time
  NoWorker,     \* "nobody"
  Tables,       \* tables of the project, each with a managed owner baseline
  Contracts,    \* contracts that clients ask for: [tables, sel]
  EnvSels,      \* the constraints of environment-scoped contracts (version 2)
  MaxReopened,  \* bound on recoveries of completed batches
  MaxOps,       \* bound on operation rows
  MaxFaults,    \* bound on crashes, lost sessions, timeouts and refusals
  MaxOutside    \* bound on changes made beside projection operations

Constraints == {c.sel : c \in Contracts}

ASSUME ProjectionAssumption ==
  /\ NoWorker \notin Workers
  /\ Contracts # {}
  /\ \A c \in Contracts : c.tables \subseteq Tables /\ c.tables # {}
  /\ EnvSels \subseteq Constraints
  /\ {"owner", "closed"} \cap Constraints = {}
  /\ {MaxReopened, MaxOps, MaxFaults, MaxOutside} \subseteq Nat

VARIABLES
  ops,      \* druvia_data_access_projection_operations, oldest first
  base,     \* druvia_data_access_managed_policies, one row for each table
  meta,     \* Hasura: permissions of the tables, and all that is foreign
  version,  \* Hasura: resource_version of the metadata
  view,     \* PostgreSQL: the projection view and its dependency closure
  caps,     \* PostgreSQL: tables whose columns are those of the baseline
  context,  \* the project has a runtime context
  lock,     \* who holds the project's advisory lock
  h,        \* the handler each worker runs
  conn,     \* the database session of the handler is alive
  wire,     \* metadata requests that have not reached Hasura
  resp,     \* the answer on its way back to a worker
  astray,   \* history: tables changed behind the records, in the console or by a
            \* batch misjudged as failed, and not recovered since
  misjudged,  \* history: tables that enforce a batch misjudged as failed
  reopened, faults, outside   \* bounded counters

hasura == <<meta, version>>
database == <<view, caps, context>>
bounds == <<reopened, faults, outside>>
vars == <<ops, base, meta, version, view, caps, context, lock, h, conn, wire,
          resp, astray, misjudged, reopened, faults, outside>>

-----------------------------------------------------------------------------
(* Metadata, baselines, rows and handlers.                                 *)

\* The authenticated select of a table, and its other scoped permissions.
Sels == {"owner", "closed"} \cup Constraints
Permission == [sel: Sels, grants: 0..MaxOutside]
Metadata == [perms: [Tables -> Permission], foreign: Nat]

NoDigest == <<>>
Digests == {NoDigest} \cup {<<c, v>> : c \in Contracts, v \in {1, 2}}
Baseline == [rev: Nat, perms: Permission, dep: Digests]
IsV2(t) == base[t].dep # NoDigest

Statuses == {"preview_ready", "applying", "recovering", "completed", "failed",
             "recovery_required", "superseded"}
InFlight == {"applying", "recovering", "recovery_required"}
Active == InFlight \cup {"preview_ready"}
Leases == {"none", "live", "expired", "drained"}
Errors == {"none", "rejected", "recovery_required", "not_applied",
           "failed_closed"}

OpRow == [status: Statuses, con: Contracts, revs: [Tables -> Nat],
          src: Metadata, dep: Digests, ver: Nat, wrote: BOOLEAN,
          epoch: Nat, lease: Leases, error: Errors]
Ids == DOMAIN ops

Pcs == {"idle", "insert", "check", "send", "await", "verify", "persist",
        "inspect", "decide", "closed", "toFailed", "toRecovery"}
Modes == {"none", "preview", "apply", "recover"}
NoMetadata == [perms |-> [t \in Tables |-> [sel |-> "closed", grants |-> 0]],
               foreign |-> 0]
NoRevs == [t \in Tables |-> 0]
AnyContract == CHOOSE c \in Contracts : TRUE
Idle == [pc |-> "idle", mode |-> "none", op |-> 0, con |-> AnyContract,
         meta |-> NoMetadata, ver |-> 0, revs |-> NoRevs, epoch |-> 0]

Handler == [pc: Pcs, mode: Modes, op: Nat, con: Contracts, meta: Metadata,
            ver: Nat, revs: [Tables -> Nat], epoch: Nat]
Request == [w: Workers \cup {NoWorker}, op: Nat, ver: Nat, meta: Metadata]
Answers == {"none", "ok", "rejected"}

TypeOK ==
  /\ ops \in Seq(OpRow)
  /\ base \in [Tables -> Baseline]
  /\ meta \in Metadata
  /\ version \in Nat
  /\ view \in {1, 2}
  /\ caps \subseteq Tables
  /\ context \in BOOLEAN
  /\ lock \in Workers \cup {NoWorker}
  /\ h \in [Workers -> Handler]
  /\ conn \in [Workers -> BOOLEAN]
  /\ wire \subseteq Request
  /\ resp \in [Workers -> Answers]
  /\ astray \subseteq Tables
  /\ misjudged \subseteq Tables
  /\ reopened \in 0..MaxReopened
  /\ faults \in 0..MaxFaults
  /\ outside \in 0..MaxOutside

\* Managed owner baselines everywhere, as a projection requires them.
Init ==
  /\ ops = <<>>
  /\ base = [t \in Tables |-> [rev |-> 1, dep |-> NoDigest,
                               perms |-> [sel |-> "owner", grants |-> 0]]]
  /\ meta = [perms |-> [t \in Tables |-> base[t].perms], foreign |-> 0]
  /\ version = 1
  /\ view = 1
  /\ caps = Tables
  /\ context \in BOOLEAN
  /\ lock = NoWorker
  /\ h = [w \in Workers |-> Idle]
  /\ conn = [w \in Workers |-> TRUE]
  /\ wire = {}
  /\ resp = [w \in Workers |-> "none"]
  /\ astray = {}
  /\ misjudged = {}
  /\ reopened = 0 /\ faults = 0 /\ outside = 0

Op(w) == ops[h[w].op]
At(w, pc) == h[w].pc = pc
Goto(w, pc) == h' = [h EXCEPT ![w].pc = pc]

Exit(w) ==
  /\ h' = [h EXCEPT ![w] = Idle]
  /\ lock' = IF lock = w THEN NoWorker ELSE lock
  /\ conn' = [conn EXCEPT ![w] = TRUE]

\* authorizationProjectionMetadataDigest: the tables of the contract, nothing
\* else.  The view and the relationships change with the select constraint.
MetadataDigest(m, c) == [t \in c.tables |-> m.perms[t]]

\* loadAuthorizationProjectionDependencies and its snapshot.  A view that
\* violates the contract is one whose digest is not the recorded one.
DependencyDigest(c) == <<c, view>>
DependencyIs(d) == d[2] = view

supersedeProjectionPreviews(except) ==
  [o \in Ids |-> IF ops[o].status = "preview_ready" /\ o # except
                 THEN [ops[o] EXCEPT !.status = "superseded"] ELSE ops[o]]

\* Mutant: an operation blocks its own recovery.
Blocked_OwnRow(o) == \E p \in Ids : ops[p].status \in InFlight

\* hasPersistedDataAccessBlock for purpose projection_operation.
Blocked(o) == \E p \in Ids \ {o} : ops[p].status \in InFlight

\* Idle workers are interchangeable: the call goes to one of them.
Free(w) == w = CHOOSE v \in Workers : At(v, "idle")

withProjectDataAccessMutationLock(w, o) ==
  /\ At(w, "idle") /\ Free(w)
  /\ lock = NoWorker
  /\ ~Blocked(o)
  /\ lock' = w

-----------------------------------------------------------------------------
(* previewAuthorizationProjection                                          *)

\* assertEnvironmentRuntimeContext
EnvironmentReady(c) == c.sel \in EnvSels => context

\* Mutant: a contract may leave out tables that already have a projection.
CoversExistingBaselines_Unchecked(c) == TRUE

\* assertContractCoversExistingProjectionBaselines
CoversExistingBaselines(c) == \A t \in Tables : IsV2(t) => t \in c.tables

\* A call that got the lock, and what exportVersionedMetadata gave it.
Exported(w, call) ==
  h' = [h EXCEPT ![w] = [call EXCEPT !.meta = meta, !.ver = version]]

PreviewBegin(w, c) ==
  /\ Len(ops) < MaxOps
  /\ EnvironmentReady(c)
  /\ CoversExistingBaselines(c)
  /\ withProjectDataAccessMutationLock(w, 0)
  /\ Exported(w, [Idle EXCEPT !.pc = "insert", !.mode = "preview", !.con = c])
  /\ UNCHANGED <<ops, base, hasura, database, conn, wire, resp, astray,
                 misjudged, bounds>>

\* loadBaselines, buildTargetPolicies: an owner select, and a legacy contract
\* never over an environment-scoped baseline.
BaselinesFit(c) ==
  \A t \in c.tables :
    /\ base[t].perms.sel \in {"owner"} \cup Constraints
    /\ c.sel \notin EnvSels => base[t].perms.sel \notin EnvSels

\* assertProjectionBaselineCapabilitiesCurrent
CapabilitiesCurrent(c) == c.tables \subseteq caps

\* getEffectiveFailClosedProjectionOperationWithClient: the newest batch that
\* failed closed, while no newer one completed.
EffectiveFailClosed ==
  {o \in Ids : /\ ops[o].error = "failed_closed" /\ ops[o].status = "failed"
               /\ \A p \in Ids : p > o =>
                    /\ ops[p].status # "completed"
                    /\ ~(ops[p].error = "failed_closed" /\ ops[p].status = "failed")}

\* isRecordedFailClosedSource
RecordedFailClosed(m, t, c) ==
  /\ \E o \in EffectiveFailClosed : ops[o].con.tables = c.tables
  /\ m.perms[t] = [base[t].perms EXCEPT !.sel = "closed"]

\* assertManagedSources
ManagedSources(m, c) ==
  \A t \in c.tables :
    m.perms[t] = base[t].perms \/ RecordedFailClosed(m, t, c)

\* buildAuthorizationProjectionMetadata: the exported metadata with the
\* authenticated select of every table of the contract replaced.
TargetPermission(t, c) == [base[t].perms EXCEPT !.sel = c.sel]
TargetMetadata(m, c) ==
  [m EXCEPT !.perms = [t \in Tables |-> IF t \in c.tables
                                        THEN [m.perms[t] EXCEPT !.sel = c.sel]
                                        ELSE m.perms[t]]]

\* target_metadata of the row, computed once by the preview.
Target(w) == TargetMetadata(Op(w).src, h[w].con)

PreviewAdmits(m, c) ==
  /\ BaselinesFit(c)
  /\ CapabilitiesCurrent(c)
  /\ ManagedSources(m, c)

NewRow(w) ==
  [status |-> "preview_ready", con |-> h[w].con,
   revs |-> [t \in Tables |-> IF t \in h[w].con.tables THEN base[t].rev ELSE 0],
   src |-> h[w].meta,
   dep |-> DependencyDigest(h[w].con), ver |-> h[w].ver, wrote |-> FALSE,
   epoch |-> 0, lease |-> "none", error |-> "none"]

Local == <<base, hasura, database, wire, resp, astray, misjudged, bounds>>
Refuse(w) == Exit(w) /\ UNCHANGED <<ops, Local>>
Proceed(w, pc) == Goto(w, pc) /\ UNCHANGED <<ops, lock, conn, Local>>

\* The older previews are superseded, then createProjectionOperation.
PreviewInsert(w) ==
  /\ At(w, "insert") /\ conn[w]
  /\ IF PreviewAdmits(h[w].meta, h[w].con)
     THEN /\ ops' = Append(supersedeProjectionPreviews(0), NewRow(w))
          /\ Exit(w)
          /\ UNCHANGED Local
     ELSE Refuse(w)

-----------------------------------------------------------------------------
(* applyAuthorizationProjection                                            *)

\* A completed row is answered from the record; any other is refused.
ApplyBegin(w, o) ==
  /\ o \in Ids /\ ops[o].status = "preview_ready"
  /\ EnvironmentReady(ops[o].con)
  /\ withProjectDataAccessMutationLock(w, o)
  /\ Exported(w, [Idle EXCEPT !.pc = "check", !.mode = "apply", !.op = o,
                              !.con = ops[o].con])
  /\ UNCHANGED <<ops, base, hasura, database, conn, wire, resp, astray,
                 misjudged, bounds>>

\* Mutant: only the digest of the contract's tables is compared.
SourceUnchanged_DigestOnly(w) ==
  MetadataDigest(h[w].meta, h[w].con) = MetadataDigest(Op(w).src, h[w].con)

\* The whole metadata is at the previewed version.
SourceUnchanged(w) ==
  /\ h[w].ver = Op(w).ver
  /\ MetadataDigest(h[w].meta, h[w].con) = MetadataDigest(Op(w).src, h[w].con)

ApplyAdmits(w) ==
  /\ SourceUnchanged(w)
  /\ \A t \in h[w].con.tables : base[t].rev = Op(w).revs[t]
  /\ CapabilitiesCurrent(h[w].con)
  /\ DependencyIs(Op(w).dep)

\* A fresh writer epoch and a deadline.
Claimed(o, status) ==
  [ops[o] EXCEPT !.status = status, !.epoch = @ + 1, !.lease = "live"]

ApplyCheck(w) ==
  /\ At(w, "check") /\ conn[w]
  /\ IF ApplyAdmits(w)
     THEN /\ ops' = [ops EXCEPT ![h[w].op] = Claimed(h[w].op, "applying")]
          /\ h' = [h EXCEPT ![w].pc = "send", ![w].epoch = Op(w).epoch + 1,
                            ![w].revs = Op(w).revs]
          /\ UNCHANGED <<lock, conn, Local>>
     ELSE Refuse(w)

\* renewProjectionOperationWriterLease, right before each metadata request.
HoldsLease(w) ==
  /\ Op(w).status = IF h[w].mode = "apply" THEN "applying" ELSE "recovering"
  /\ Op(w).epoch = h[w].epoch
  /\ Op(w).lease = "live"

\* buildFailClosedMetadata
FailClosed(m, c) ==
  [m EXCEPT !.perms = [t \in Tables |-> IF t \in c.tables
                                        THEN [m.perms[t] EXCEPT !.sel = "closed"]
                                        ELSE m.perms[t]]]

\* The lease is renewed, then replace_metadata is sent, conditional on the
\* exported version.
Send(w) ==
  /\ At(w, "send") /\ conn[w]
  /\ IF HoldsLease(w)
     THEN /\ wire' = wire \cup {[w |-> w, op |-> h[w].op, ver |-> h[w].ver,
                        meta |-> IF h[w].mode = "apply" THEN Target(w)
                                 ELSE FailClosed(h[w].meta, h[w].con)]}
          /\ Goto(w, "await")
          /\ UNCHANGED <<ops, base, hasura, database, lock, conn, resp, astray,
                         misjudged, bounds>>
     ELSE Proceed(w, "toRecovery")

\* Mutant: every error of the request is recorded as a plain failure.
AfterError_AlwaysFailed(w, a) ==
  IF h[w].mode = "apply" THEN "toFailed" ELSE "toRecovery"

\* markApplyFailure: only a definitive rejection of an apply is a failure.
AfterError(w, a) ==
  IF h[w].mode = "apply" /\ a = "rejected" THEN "toFailed" ELSE "toRecovery"

Receive(w) ==
  /\ At(w, "await") /\ resp[w] # "none"
  /\ Goto(w, IF resp[w] = "ok" THEN "verify" ELSE AfterError(w, resp[w]))
  /\ resp' = [resp EXCEPT ![w] = "none"]
  /\ UNCHANGED <<ops, base, hasura, database, lock, conn, wire, astray,
                 misjudged, bounds>>

\* What was exported is the target, and what it rests on did not move.
VerifyTarget(w) ==
  /\ At(w, "verify") /\ h[w].mode = "apply" /\ conn[w]
  /\ IF /\ MetadataDigest(meta, h[w].con) = MetadataDigest(Target(w), h[w].con)
        /\ DependencyIs(Op(w).dep)
        /\ CapabilitiesCurrent(h[w].con)
     THEN Proceed(w, "persist") ELSE Proceed(w, "toRecovery")

\* persistTargetBaselines: a row that is the target already is not saved again.
Persisted(w, t) ==
  base[t].dep = Op(w).dep /\ base[t].perms = TargetPermission(t, h[w].con)

PersistedRows(w) ==
  /\ base' = [t \in Tables |->
                IF t \in h[w].con.tables /\ ~Persisted(w, t)
                THEN [rev |-> base[t].rev + 1, dep |-> Op(w).dep,
                      perms |-> TargetPermission(t, h[w].con)]
                ELSE base[t]]
  /\ ops' = [ops EXCEPT ![h[w].op] = [@ EXCEPT !.status = "completed",
                                               !.lease = "none", !.wrote = TRUE]]

\* saveManagedPolicy expects the loaded revision; the row its status.
MayPersist(w) ==
  /\ \A t \in h[w].con.tables : base[t].rev = h[w].revs[t]
  /\ Op(w).status = IF h[w].mode = "apply" THEN "applying" ELSE "recovering"

Persist(w) ==
  /\ At(w, "persist") /\ conn[w]
  /\ IF MayPersist(w)
     THEN /\ PersistedRows(w)
          /\ Exit(w)
          /\ UNCHANGED <<hasura, database, wire, resp, astray, misjudged,
                         bounds>>
     ELSE Proceed(w, "toRecovery")

-----------------------------------------------------------------------------
(* recoverAuthorizationProjection                                          *)

\* Mutant: any completed batch can be recovered.
LatestCompleted_Any(o) == TRUE

\* claimLatestCompletedProjectionRecovery: no newer batch ever wrote.
LatestCompleted(o) == \A p \in Ids : p > o => ~ops[p].wrote

RecoverBegin(w, o) ==
  /\ o \in Ids
  /\ \/ /\ ops[o].status \in InFlight
        /\ ops[o].lease = "drained"
        /\ ops' = [ops EXCEPT ![o] = Claimed(o, "recovering")]
        /\ UNCHANGED reopened
     \/ /\ ops[o].status = "completed"
        /\ LatestCompleted(o)
        /\ reopened < MaxReopened /\ reopened' = reopened + 1
        /\ ops' = [supersedeProjectionPreviews(o) EXCEPT ![o] = Claimed(o, "recovering")]
  /\ withProjectDataAccessMutationLock(w, o)
  /\ h' = [h EXCEPT ![w] = [Idle EXCEPT !.pc = "inspect", !.mode = "recover", !.op = o,
                                        !.con = ops[o].con,
                                        !.epoch = ops[o].epoch + 1]]
  /\ astray' = astray \ ops[o].con.tables
  /\ UNCHANGED <<base, hasura, database, conn, wire, resp, misjudged, faults,
                 outside>>

RecoverInspect(w) ==
  /\ At(w, "inspect") /\ conn[w]
  /\ IF HoldsLease(w)
     THEN /\ Exported(w, [h[w] EXCEPT !.pc = "decide"])
          /\ UNCHANGED <<ops, lock, conn, Local>>
     ELSE Proceed(w, "toRecovery")

\* loadBaselinesForRecovery
RecoverableBaseline(w, t) ==
  base[t].rev = Op(w).revs[t] \/ base[t].dep = Op(w).dep

\* targetPermissionsMatchCurrentBaselines
MatchesBaselines(m, c) == \A t \in c.tables : m.perms[t] = TargetPermission(t, c)

TargetActive(w) ==
  /\ MetadataDigest(h[w].meta, h[w].con) = MetadataDigest(Target(w), h[w].con)
  /\ EnvironmentReady(h[w].con)
  /\ DependencyIs(Op(w).dep)

TargetAcceptable(w) ==
  /\ CapabilitiesCurrent(h[w].con)
  /\ MatchesBaselines(h[w].meta, h[w].con)

\* Only a batch that never wrote, at the version it started from.
SourceActive(w) == ~Op(w).wrote /\ SourceUnchanged(w)

Closing(w, status, error) ==
  /\ ops' = [ops EXCEPT ![h[w].op] = [Op(w) EXCEPT !.status = status, !.error = error,
               !.lease = IF status = "failed" THEN "none" ELSE Op(w).lease]]
  /\ Exit(w)
  /\ UNCHANGED Local

RecoverDecide(w) ==
  /\ At(w, "decide") /\ conn[w]
  /\ IF TargetActive(w) /\ \E t \in h[w].con.tables : ~RecoverableBaseline(w, t)
     THEN Proceed(w, "toRecovery")
     ELSE IF TargetActive(w) /\ TargetAcceptable(w)
     THEN /\ h' = [h EXCEPT ![w].pc = "persist",
                            ![w].revs = [t \in Tables |-> base[t].rev]]
          /\ UNCHANGED <<ops, lock, conn, Local>>
     ELSE IF SourceActive(w)
     THEN Closing(w, "failed", "not_applied")
     ELSE Proceed(w, "send")

VerifyClosed(w) ==
  /\ At(w, "verify") /\ h[w].mode = "recover"
  /\ Proceed(w, IF MetadataDigest(meta, h[w].con)
                   = MetadataDigest(FailClosed(h[w].meta, h[w].con), h[w].con)
                THEN "closed" ELSE "toRecovery")

-----------------------------------------------------------------------------
(* The last UPDATE of a handler.                                           *)

MarkClosed(w) ==
  At(w, "closed") /\ conn[w] /\ Closing(w, "failed", "failed_closed")

MarkFailed(w) ==
  At(w, "toFailed") /\ conn[w] /\ Closing(w, "failed", "rejected")

MarkRecoveryRequired(w) ==
  At(w, "toRecovery") /\ conn[w]
  /\ Closing(w, "recovery_required", "recovery_required")

\* A statement on a dead session throws; the mark that follows is swallowed.
DeadSession(w) ==
  /\ ~conn[w]
  /\ h[w].pc \in {"insert", "check", "send", "persist", "inspect", "decide",
                   "closed", "toFailed", "toRecovery"}
       \cup (IF h[w].mode = "apply" THEN {"verify"} ELSE {})
  /\ Refuse(w)

-----------------------------------------------------------------------------
(* Hasura (external): a request whose resource_version is current replaces *)
(* the whole metadata; any other is rejected.                              *)

Answer(r, a) ==
  /\ wire' = wire \ {r}
  /\ resp' = IF r.w = NoWorker THEN resp ELSE [resp EXCEPT ![r.w] = a]
  /\ UNCHANGED <<ops, base, database, lock, h, conn, astray, reopened, outside>>

HasuraApplies(r) ==
  /\ r.ver = version
  /\ meta' = r.meta
  /\ version' = version + 1
  /\ misjudged' = {t \in misjudged : r.meta.perms[t].sel = meta.perms[t].sel}
  /\ Answer(r, "ok")
  /\ UNCHANGED faults

HasuraRejects(r) ==
  /\ r.ver # version
  /\ Answer(r, "rejected")
  /\ UNCHANGED <<hasura, misjudged, faults>>

Fault == faults < MaxFaults /\ faults' = faults + 1

\* Inconsistent metadata is refused (allow_inconsistent_metadata: false).
HasuraRefuses(r) ==
  /\ r.ver = version
  /\ Fault
  /\ Answer(r, "rejected")
  /\ UNCHANGED <<hasura, misjudged>>

-----------------------------------------------------------------------------
(* Faults and time.                                                        *)

Orphaned(w) ==
  {[r EXCEPT !.w = IF r.w = w THEN NoWorker ELSE r.w] : r \in wire}

\* AbortSignal.timeout or a transport error; the request may arrive or not.
Timeout(w) ==
  /\ At(w, "await")
  /\ Fault
  /\ Goto(w, AfterError(w, "unknown"))
  /\ wire' \in {Orphaned(w), {r \in wire : r.w # w}}
  /\ resp' = [resp EXCEPT ![w] = "none"]
  /\ UNCHANGED <<ops, base, hasura, database, lock, conn, astray, misjudged,
                 reopened, outside>>

Crash(w) ==
  /\ ~At(w, "idle")
  /\ Fault
  /\ Exit(w)
  /\ wire' = Orphaned(w)
  /\ resp' = [resp EXCEPT ![w] = "none"]
  /\ ops' \in IF At(w, "insert") /\ conn[w] /\ PreviewAdmits(h[w].meta, h[w].con)
              THEN {ops, supersedeProjectionPreviews(0)} ELSE {ops}
  /\ UNCHANGED <<base, hasura, database, astray, misjudged, reopened, outside>>

DropSession(w) ==
  /\ ~At(w, "idle") /\ conn[w]
  /\ Fault
  /\ conn' = [conn EXCEPT ![w] = FALSE]
  /\ lock' = IF lock = w THEN NoWorker ELSE lock
  /\ UNCHANGED <<ops, base, hasura, database, h, wire, resp, astray, misjudged,
                 reopened, outside>>

\* The session dies under COMMIT: the transaction took effect or it did not.
CommitLost(w) ==
  /\ At(w, "persist") /\ conn[w] /\ MayPersist(w)
  /\ Fault
  /\ PersistedRows(w) \/ UNCHANGED <<ops, base>>
  /\ Exit(w)
  /\ UNCHANGED <<hasura, database, wire, resp, astray, misjudged, reopened,
                 outside>>

\* export_metadata fails after a claim; before one the call changes nothing.
ExportFails(w) ==
  /\ Fault
  /\ At(w, "inspect") \/ At(w, "verify")
  /\ Goto(w, "toRecovery")
  /\ UNCHANGED <<ops, base, hasura, database, lock, conn, wire, resp, astray,
                 misjudged, reopened, outside>>

\* The export that verifies an apply gets a definitive 4xx.  markApplyFailure
\* looks at the error alone, not at the replacement that Hasura carried out;
\* without a session the mark is lost (DeadSession).
ExportRejected(w) ==
  /\ Fault
  /\ At(w, "verify") /\ h[w].mode = "apply" /\ conn[w]
  /\ Goto(w, AfterError(w, "rejected"))
  /\ astray' = astray \cup h[w].con.tables
  /\ misjudged' = misjudged \cup h[w].con.tables
  /\ UNCHANGED <<ops, base, hasura, database, lock, conn, wire, resp, reopened,
                 outside>>

\* policyOperationRecoverySafeAt: 30 s for the request, 5 s to drain.  The
\* window is over only when no request of the row is under way: a request is
\* sent right after its lease was renewed and aborted after 30 s.
Writing(o) ==
  \/ \E r \in wire : r.op = o
  \/ \E w \in Workers : h[w].op = o /\ h[w].pc = "await"

\* A lease that runs out under a handler that can still use it is a stall.
LeaseAges(o) ==
  /\ ops[o].status \in InFlight
  /\ \/ /\ ops[o].lease = "live"
        /\ ops' = [ops EXCEPT ![o].lease = "expired"]
        /\ IF \E w \in Workers : h[w].op = o /\ conn[w]
           THEN Fault ELSE UNCHANGED faults
     \/ /\ ops[o].lease = "expired" /\ ~Writing(o)
        /\ ops' = [ops EXCEPT ![o].lease = "drained"]
        /\ UNCHANGED faults
  /\ UNCHANGED <<base, hasura, database, lock, h, conn, wire, resp, astray,
                 misjudged, reopened, outside>>

-----------------------------------------------------------------------------
(* What happens beside projection operations.                              *)

Outside == outside < MaxOutside /\ outside' = outside + 1

\* Another project, or another part of the platform, changes metadata.
OtherMetadataChange ==
  /\ Outside
  /\ meta' = [meta EXCEPT !.foreign = @ + 1]
  /\ version' = version + 1
  /\ UNCHANGED <<ops, base, database, lock, h, conn, wire, resp, astray,
                 misjudged, reopened, faults>>

\* The Hasura console puts a plain owner select back.
ConsoleEdit(t) ==
  /\ Outside
  /\ meta.perms[t].sel # "owner"
  /\ meta' = [meta EXCEPT !.perms[t].sel = "owner"]
  /\ version' = version + 1
  /\ astray' = astray \cup {t}
  /\ misjudged' = misjudged \ {t}
  /\ UNCHANGED <<ops, base, database, lock, h, conn, wire, resp, reopened, faults>>

\* DDL through PostgreSQL, which moves no resource_version.
DirectDdl(t) ==
  /\ Outside
  /\ \/ caps' = caps \ {t} /\ caps' # caps /\ UNCHANGED view
     \/ view' = 3 - view /\ UNCHANGED caps
  /\ UNCHANGED <<ops, base, hasura, context, lock, h, conn, wire, resp, astray,
                 misjudged, reopened, faults>>

\* A reconcile or grant extension of one table (PolicyOperation), which runs
\* under the same lock and is refused while a projection is in flight.
PolicyChange(t) ==
  /\ Outside
  /\ lock = NoWorker /\ ~Blocked(0)
  /\ meta.perms[t] = base[t].perms
  /\ IsV2(t) => DependencyIs(base[t].dep)
  /\ base' = [base EXCEPT ![t].rev = @ + 1, ![t].perms.grants = @ + 1]
  /\ meta' = [meta EXCEPT !.perms[t].grants = base[t].perms.grants + 1]
  /\ version' = version + 1
  /\ caps' = caps \cup {t}
  /\ ops' = supersedeProjectionPreviews(0)
  /\ UNCHANGED <<view, context, lock, h, conn, wire, resp, astray, misjudged,
                 reopened, faults>>

\* Every other data or schema call of the platform.
OrdinaryMutation ==
  /\ Outside
  /\ lock = NoWorker /\ ~Blocked(0)
  /\ ops' = supersedeProjectionPreviews(0)
  /\ UNCHANGED <<base, hasura, database, lock, h, conn, wire, resp, astray,
                 misjudged, reopened, faults>>

setProjectRuntimeContext ==
  /\ Outside
  /\ ~context
  /\ context' = TRUE
  /\ UNCHANGED <<ops, base, hasura, view, caps, lock, h, conn, wire, resp,
                 astray, misjudged, reopened, faults>>

\* An environment-scoped baseline, or such an operation in flight.
ContextRequired ==
  \/ \E t \in Tables : base[t].perms.sel \in EnvSels
  \/ \E o \in Ids : ops[o].con.sel \in EnvSels /\ ops[o].status \in InFlight

disableProjectRuntimeContext ==
  /\ Outside
  /\ lock = NoWorker
  /\ context
  /\ ~ContextRequired
  /\ context' = FALSE
  /\ UNCHANGED <<ops, base, hasura, view, caps, lock, h, conn, wire, resp,
                 astray, misjudged, reopened, faults>>

-----------------------------------------------------------------------------
HandlerStep(w) ==
  \/ PreviewInsert(w) \/ ApplyCheck(w) \/ Send(w) \/ Receive(w)
  \/ VerifyTarget(w) \/ Persist(w)
  \/ RecoverInspect(w) \/ RecoverDecide(w) \/ VerifyClosed(w)
  \/ MarkClosed(w) \/ MarkFailed(w) \/ MarkRecoveryRequired(w)
  \/ DeadSession(w)

HasuraStep ==
  \E r \in wire : HasuraApplies(r) \/ HasuraRejects(r) \/ HasuraRefuses(r)

FaultStep(w) ==
  Timeout(w) \/ Crash(w) \/ DropSession(w) \/ CommitLost(w) \/ ExportFails(w)
  \/ ExportRejected(w)

Environment ==
  \/ OtherMetadataChange \/ OrdinaryMutation
  \/ \E t \in Tables : ConsoleEdit(t) \/ DirectDdl(t) \/ PolicyChange(t)
  \/ setProjectRuntimeContext \/ disableProjectRuntimeContext

Time == \E o \in Ids : LeaseAges(o)

Recover == \E w \in Workers, o \in Ids : RecoverBegin(w, o)

Next ==
  \/ \E w \in Workers :
       \/ \E c \in Contracts : PreviewBegin(w, c)
       \/ \E o \in Ids : ApplyBegin(w, o)
       \/ HandlerStep(w) \/ FaultStep(w)
  \/ Recover \/ HasuraStep \/ Time \/ Environment

Spec == Init /\ [][Next]_vars

\* Handlers run on, requests are answered, leases run out, and the operator
\* asks again for the recovery the console offers.
FairSpec ==
  /\ Spec
  /\ \A w \in Workers : WF_vars(HandlerStep(w))
  /\ WF_vars(HasuraStep)
  /\ WF_vars(Time)
  /\ \A w \in Workers :
       WF_vars(\E o \in Ids : ops[o].status \in InFlight /\ RecoverBegin(w, o))

-----------------------------------------------------------------------------
(* Properties.                                                             *)

Settled == \A o \in Ids : ops[o].status \notin InFlight

\* Whenever no batch is in flight, each table enforces what its baseline
\* records, or its authenticated select is closed by a batch that says so:
\* also after lost sessions, unknown outcomes, and a recovery of a completed
\* batch whose metadata was edited back to the owner-only source.  Excepted are
\* the tables a batch left behind that was misjudged as failed
\* (RejectedNotEnforced), until a recovery takes them up.
SettledAgrees ==
  Settled => \A t \in Tables \ astray :
    \/ meta.perms[t] = base[t].perms
    \/ /\ meta.perms[t] = [base[t].perms EXCEPT !.sel = "closed"]
       /\ \E o \in Ids : ops[o].error = "failed_closed" /\ t \in ops[o].con.tables

\* The tables under a projection always share one contract and one dependency
\* snapshot: a batch is recorded for all its tables or for none of them.
OneProjection ==
  \A t, u \in Tables : IsV2(t) /\ IsV2(u) => base[t].dep = base[u].dep

\* An environment-scoped select is enforced only while the project has the
\* runtime context its rows are compared with, unless it is what a batch left
\* behind that was misjudged as failed.
EnforcedHasContext ==
  (\E t \in Tables \ misjudged : meta.perms[t].sel \in EnvSels) => context

\* At most one operation of the project is open, and one in flight has a lease.
OneActive ==
  \A o, p \in Ids : ops[o].status \in Active /\ ops[p].status \in Active => o = p
Leased == \A o \in Ids : ops[o].status \in InFlight => ops[o].lease # "none"

\* What is recorded and enforced is sound: well typed, one open operation, one
\* projection for all tables under one, and a context wherever one is needed.
ProjectionsSound ==
  TypeOK /\ OneActive /\ Leased /\ OneProjection /\ EnforcedHasContext

\* replace_metadata never undoes what another project changed meanwhile.
ForeignMetadataKept == [][meta'.foreign >= meta.foreign]_vars

\* Whatever interrupted it, a batch in flight is settled in the end.
RecoveryEnds == ~Settled ~> Settled

\* A preview of some contract over the table is admitted; what the contract says
\* and whether the columns are still those of the baseline is up to the client.
CanReopen(t) ==
  \E c \in [tables: SUBSET Tables, sel: Constraints] :
    /\ t \in c.tables
    /\ CoversExistingBaselines(c)
    /\ BaselinesFit(c)
    /\ ManagedSources(meta, c)

\* A newer batch that leaves the table out completed or failed closed.
Overtaken(t) ==
  \E o, p \in Ids :
    /\ p > o
    /\ ops[o].error = "failed_closed" /\ t \in ops[o].con.tables
    /\ ops[p].status = "completed" \/ ops[p].error = "failed_closed"
    /\ t \notin ops[p].con.tables

\* A table that a batch failed closed is not stranded: when everything is settled
\* and no table is astray, a preview that covers it is admitted again.  The
\* provenance of the closing survives later previews, recoveries and batches,
\* but not a newer batch that leaves the table out.
ClosedCanReopen ==
  Settled /\ astray = {} =>
    \A t \in Tables : meta.perms[t].sel = "closed" /\ ~Overtaken(t) => CanReopen(t)

\* docs/plans/2026-09-15-data-access-v2-authorization-projection.md:210: a batch
\* is failed when Hasura rejected it and the metadata did not change.  So what
\* the newest batch was to put in place is not enforced when it is on record as
\* rejected, unless it was in place before.
RejectedNotEnforced ==
  \A o \in Ids :
    o = Len(ops) /\ ops[o].error = "rejected" =>
      \A t \in ops[o].con.tables :
        meta.perms[t].sel = ops[o].con.sel => ops[o].src.perms[t].sel = ops[o].con.sel

\* docs/plans/2026-09-15-data-access-v2-authorization-projection.md:216: a new
\* preview and apply open a closed table again, whatever happened in between.
ClosedAlwaysReopens ==
  Settled /\ astray = {} =>
    \A t \in Tables : meta.perms[t].sel = "closed" => CanReopen(t)
=============================================================================
