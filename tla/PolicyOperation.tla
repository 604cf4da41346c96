--------------------------- MODULE PolicyOperation --------------------------
(***************************************************************************)
(* Durable policy operations on one table of one project                   *)
(* (data-access-policy-operation.service.ts): update, adoption, reconcile, *)
(* grant extension and recovery, the project mutation lock they run under  *)
(* (data-access-mutation-lock.ts), the operation and baseline rows         *)
(* (data-access-managed-policy.repository.ts, migration 023) and the       *)
(* metadata requests they send to Hasura (hasura-metadata-bulk.ts).        *)
(*                                                                         *)
(* A worker is one request handler of an API instance.  It holds the       *)
(* project lock through a database session; when the session dies the lock *)
(* and every later statement of the handler are gone, while the handler    *)
(* may still talk to Hasura, and a request it sent may arrive at any later *)
(* time.  Time is not measured: a writer lease runs out, and its drain     *)
(* window ends, at any moment, so no property below rests on timing.       *)
(***************************************************************************)
EXTENDS ManagedPolicy, FiniteSets

CONSTANTS
  Workers,         \* request handlers that can run at the same time
  Ops,             \* operation ids
  Policies,        \* the permission snapshots clients ask for
  Calls,           \* the API calls clients make
  NoWorker,        \* "nobody"
  NonAtomic,       \* Hasura may answer bulk_atomic with "does not support"
  ReplayReconcile, \* clients also apply reconcile previews that are not ready
  MaxRequests,     \* bound on API calls
  MaxFaults,       \* bound on crashes, lost sessions and timeouts
  MaxOutside       \* bound on changes made outside policy operations

AllCalls == {"update", "previewAdoption", "applyAdoption", "previewReconcile",
             "applyReconcile", "previewExtension", "applyExtension", "recover"}
Previews == {"previewAdoption", "previewReconcile", "previewExtension"}

ASSUME PolicyOperationAssumption ==
  /\ Policies \subseteq Snapshots
  /\ Calls \subseteq AllCalls
  /\ NoWorker \notin Workers /\ "none" \notin Ops
  /\ NonAtomic \in BOOLEAN
  /\ ReplayReconcile \in BOOLEAN
  /\ MaxRequests \in Nat
  /\ MaxFaults \in Nat
  /\ MaxOutside \in Nat

VARIABLES
  ops,      \* druvia_data_access_policy_operations
  base,     \* the baseline row of the table; rev = 0: no row
  perms,    \* Hasura: scoped permissions of the table
  version,  \* Hasura: resource_version of the metadata
  caps,     \* PostgreSQL: column capabilities of the table
  depOk,    \* the projection dependencies still have their recorded digest
  lock,     \* who holds the project's advisory lock
  h,        \* the handler each worker runs
  conn,     \* the database session of the handler is alive
  wire,     \* metadata requests that have not reached Hasura
  resp,     \* the answer on its way back to a worker
  acked,    \* operations whose client was told they completed
  edited,   \* history: scoped permissions were changed outside the platform
  requests, faults, outside   \* bounded counters

hasura == <<perms, version>>
rows == <<ops, base>>
bounds == <<requests, faults, outside>>
vars == <<ops, base, perms, version, caps, depOk, lock, h, conn, wire, resp,
          acked, edited, requests, faults, outside>>

-----------------------------------------------------------------------------
(* Rows and handlers.                                                      *)

Statuses == {"absent", "preview_ready", "applying", "recovering", "completed",
             "failed", "recovery_required", "superseded"}
Kinds == {"none", "update", "adoption", "reconcile", "extension"}
InFlight == {"applying", "recovering", "recovery_required"}
Active == InFlight \cup {"preview_ready"}
Leases == {"none", "live", "expired", "drained"}

OpRow == [kind: Kinds, status: Statuses, baseRev: Nat, caps: Caps,
          src: Snapshots, tgt: Snapshots, ver: Nat, epoch: Nat,
          lease: Leases, wrote: BOOLEAN]
NoOp == [kind |-> "none", status |-> "absent", baseRev |-> 0, caps |-> "full",
         src |-> NoPermissions, tgt |-> NoPermissions, ver |-> 0,
         epoch |-> 0, lease |-> "none", wrote |-> FALSE]

Baseline == [rev: Nat, perms: Snapshots, caps: Caps, pv: {1, 2}]

Pcs == {"idle", "load", "decide", "noop", "load2", "begin", "renew", "send",
        "await", "renewFallback", "sendFallback", "verify", "commit",
        "confirm", "restoreLoad", "restoreBegin", "toFailed", "toRecovery",
        "settle"}
Modes == {"none", "apply", "restore", "recover"}
Context == [perms: Snapshots, caps: Caps, ver: Nat]
NoContext == [perms |-> NoPermissions, caps |-> "full", ver |-> 0]
Handler == [pc: Pcs, call: AllCalls \cup {"none"}, op: Ops \cup {"none"},
            ctx: Context, epoch: Nat, mode: Modes]
Idle == [pc |-> "idle", call |-> "none", op |-> "none", ctx |-> NoContext,
         epoch |-> 0, mode |-> "none"]

RequestKinds == {"atomic", "bulk", "replace", "touch"}
Request == [w: Workers \cup {NoWorker}, op: Ops, kind: RequestKinds, ver: Nat,
            from: Snapshots, to: Snapshots]
Answers == {"none", "ok", "rejected", "unsupported", "uncertain"}

TypeOK ==
  /\ ops \in [Ops -> OpRow]
  /\ \A o \in Ops : ops[o].status \in InFlight
       => ops[o].epoch # 0 /\ ops[o].lease # "none"
  /\ base \in Baseline
  /\ perms \in Snapshots
  /\ version \in Nat
  /\ caps \in Caps
  /\ depOk \in BOOLEAN
  /\ lock \in Workers \cup {NoWorker}
  /\ h \in [Workers -> Handler]
  /\ \A w \in Workers : h[w].pc # "idle" => h[w].op \in Ops
  /\ conn \in [Workers -> BOOLEAN]
  /\ wire \subseteq Request
  /\ resp \in [Workers -> Answers]
  /\ acked \subseteq Ops
  /\ edited \in BOOLEAN
  /\ requests \in 0..MaxRequests
  /\ faults \in 0..MaxFaults
  /\ outside \in 0..MaxOutside

\* A table nobody manages yet, one with a v1 baseline, or one with the v2
\* baseline of an authorization projection.
Init ==
  /\ ops = [o \in Ops |-> NoOp]
  /\ caps = "full"
  /\ perms \in Policies
  /\ base \in [rev: {0, 1}, perms: {perms}, caps: {"full"}, pv: {1, 2}]
  /\ base.rev = 0 => base.pv = 1
  /\ version = 1
  /\ depOk = TRUE
  /\ lock = NoWorker
  /\ h = [w \in Workers |-> Idle]
  /\ conn = [w \in Workers |-> TRUE]
  /\ wire = {}
  /\ resp = [w \in Workers |-> "none"]
  /\ acked = {}
  /\ edited = FALSE
  /\ requests = 0 /\ faults = 0 /\ outside = 0

Op(w) == ops[h[w].op]
At(w, pc) == h[w].pc = pc
Goto(w, pc) == h' = [h EXCEPT ![w].pc = pc]

\* The handler returns or throws: withProjectDataAccessMutationLock's finally.
Exit(w) ==
  /\ h' = [h EXCEPT ![w] = Idle]
  /\ lock' = IF lock = w THEN NoWorker ELSE lock
  /\ conn' = [conn EXCEPT ![w] = TRUE]

\* export_metadata and the columns of the table.
loadOperationContext(w, pc) ==
  h' = [h EXCEPT ![w].pc = pc,
                 ![w].ctx = [perms |-> perms, caps |-> caps, ver |-> version]]

\* An UPDATE of the operation row guarded by the expected status.
transitionPolicyOperation(o, expected, patch) ==
  /\ ops[o].status \in expected
  /\ ops' = [ops EXCEPT ![o] = patch]

supersedePolicyPreviews ==
  [o \in Ops |-> IF ops[o].status = "preview_ready"
                 THEN [ops[o] EXCEPT !.status = "superseded"] ELSE ops[o]]

\* The other gates this query reads (a file rollback, a migration, a projection
\* operation, a table deletion) only refuse more calls; they are left out.
hasPersistedDataAccessBlock(o) ==
  \E p \in Ops \ {o} : ops[p].status \in InFlight

\* idx_data_access_policy_operations_active_project
OneActive(o) == \A p \in Ops \ {o} : ops[p].status \notin Active

-----------------------------------------------------------------------------
(* Admission: the lock, the persisted gates, the row the call names.       *)

\* requireOperation and resolveExistingPolicyUpdate: what each call accepts.
Names(call, o) ==
  CASE call \in Previews -> ops[o].status = "absent"
    [] call = "update" -> ops[o].kind \in {"none", "update"}
    [] call = "applyAdoption" -> ops[o].kind = "adoption"
    [] call = "applyReconcile" ->
         /\ ops[o].kind = "reconcile"
         /\ ReplayReconcile \/ ops[o].status \in {"preview_ready", "completed"}
    [] call = "applyExtension" -> ops[o].kind = "extension"
    [] call = "recover" -> ops[o].status \in InFlight

withProjectDataAccessMutationLock(w, call, o) ==
  /\ At(w, "idle")
  /\ lock = NoWorker
  /\ requests < MaxRequests
  /\ Names(call, o)
  /\ ~hasPersistedDataAccessBlock(o)
  /\ lock' = w
  /\ h' = [h EXCEPT ![w] = [Idle EXCEPT !.pc = "load", !.call = call, !.op = o]]
  /\ ops' = IF ops[o].status = "absent" THEN supersedePolicyPreviews ELSE ops
  /\ requests' = requests + 1
  /\ UNCHANGED <<base, hasura, caps, depOk, conn, wire, resp, acked, edited,
                 faults, outside>>

LoadContext(w) ==
  /\ At(w, "load")
  /\ loadOperationContext(w, "decide")
  /\ UNCHANGED <<rows, hasura, caps, depOk, lock, conn, wire, resp, acked,
                 edited, bounds>>

-----------------------------------------------------------------------------
(* The body of each call, from the loaded context.                         *)

State(w) == classifyManagedPolicyState(h[w].ctx.perms, h[w].ctx.caps, base)

\* assertProjectionDependencyCurrent
DependencyCurrent == base.pv = 2 => depOk

\* createSourceDigest over the context equals the one the row recorded.
SourceUnchanged(w) ==
  /\ h[w].ctx.caps = Op(w).caps
  /\ h[w].ctx.perms = Op(w).src
  /\ base.rev = Op(w).baseRev

createPolicyOperation(w, kind, tgt) ==
  OneActive(h[w].op) /\ ops' = [ops EXCEPT ![h[w].op] =
            [NoOp EXCEPT !.kind = kind, !.status = "preview_ready",
                         !.baseRev = base.rev, !.caps = h[w].ctx.caps,
                         !.src = h[w].ctx.perms, !.tgt = tgt,
                         !.ver = h[w].ctx.ver]]

Local == <<base, hasura, caps, depOk, wire, resp, edited, bounds>>

Refuse(w) == Exit(w) /\ UNCHANGED <<ops, acked, Local>>
Proceed(w, pc) == Goto(w, pc) /\ UNCHANGED <<ops, lock, conn, acked, Local>>

\* assertCompletedOperationCurrent
CompletedOperationCurrent(o) ==
  /\ base.rev = IF ~ops[o].wrote /\ ops[o].baseRev # 0
                THEN ops[o].baseRev ELSE ops[o].baseRev + 1
  /\ base.perms = ops[o].tgt
  /\ base.caps = ops[o].caps

ReplayCompleted(w) ==
  /\ Op(w).status = "completed"
  /\ Exit(w)
  /\ acked' = IF CompletedOperationCurrent(h[w].op)
              THEN acked \cup {h[w].op} ELSE acked
  /\ UNCHANGED <<ops, Local>>

Deciding(w, call) == At(w, "decide") /\ conn[w] /\ h[w].call = call

\* updateManagedTablePolicy for an operation id that is new; an invalid input,
\* a stale expected revision or a table in another state is refused.
UpdateNew(w) ==
  /\ Deciding(w, "update")
  /\ Op(w).status = "absent"
  /\ \/ /\ base.pv = 1
        /\ State(w) = "managed"
        /\ \E t \in Policies :
             /\ inspectedManaged(t, h[w].ctx.caps)
             /\ createPolicyOperation(w, "update", t)
             /\ Goto(w, IF base.rev # 0 /\ t = base.perms THEN "noop" ELSE "load2")
        /\ UNCHANGED <<lock, conn, acked, Local>>
     \/ Refuse(w)

\* Mutant: a completed update is applied again when it is replayed.
UpdateExisting_Reapply(w) ==
  /\ Deciding(w, "update")
  /\ Op(w).status \in {"completed", "preview_ready"}
  /\ Proceed(w, "load2")

\* resolveExistingPolicyUpdate
UpdateExisting(w) ==
  /\ Deciding(w, "update")
  /\ \/ ReplayCompleted(w)
     \/ Op(w).status = "preview_ready" /\ Proceed(w, "load2")
     \/ Op(w).status \notin {"absent", "completed", "preview_ready"} /\ Refuse(w)

\* isVerifiedNoop: the target is the baseline already.
CompleteNoop(w) ==
  /\ At(w, "noop") /\ conn[w]
  /\ transitionPolicyOperation(h[w].op, {"preview_ready"},
                               [Op(w) EXCEPT !.status = "completed"])
  /\ acked' = acked \cup {h[w].op}
  /\ Exit(w)
  /\ UNCHANGED Local

Preview(w, kind, tgt) ==
  /\ createPolicyOperation(w, kind, tgt)
  /\ Exit(w)
  /\ UNCHANGED <<acked, Local>>

PreviewAdoption(w) ==
  /\ Deciding(w, "previewAdoption")
  /\ IF base.pv = 1 /\ State(w) = "adoption_required"
     THEN Preview(w, "adoption", h[w].ctx.perms)
     ELSE Refuse(w)

PreviewReconcile(w) ==
  /\ Deciding(w, "previewReconcile")
  /\ IF base.rev # 0 /\ State(w) = "refresh_required" /\ DependencyCurrent
     THEN \E t \in Snapshots :
            /\ IF base.pv = 2
               THEN t = materializeReconcileGrants(base.perms, h[w].ctx.caps)
               ELSE t \in Policies
            /\ reconcileAdmits(base.perms, t)
            /\ inspectedManaged(t, h[w].ctx.caps)
            /\ Preview(w, "reconcile", t)
     ELSE Refuse(w)

PreviewExtension(w) ==
  /\ Deciding(w, "previewExtension")
  /\ \/ /\ base.rev # 0 /\ base.pv = 2 /\ State(w) = "managed" /\ DependencyCurrent
        /\ \E t \in Snapshots :
             /\ extensionAdmits(base.perms, t)
             /\ inspectedManaged(t, h[w].ctx.caps)
             /\ Preview(w, "extension", t)
     \/ Refuse(w)

\* Adoption writes no metadata: the baseline and the row in one transaction.
AdoptionReady(w) ==
  /\ Op(w).status = "preview_ready"
  /\ SourceUnchanged(w)

AdoptedRows(w) ==
  /\ base' = [rev |-> 1, perms |-> h[w].ctx.perms, caps |-> h[w].ctx.caps, pv |-> 1]
  /\ ops' = [ops EXCEPT ![h[w].op].status = "completed"]

ApplyAdoption(w) ==
  /\ Deciding(w, "applyAdoption")
  /\ \/ ReplayCompleted(w)
     \/ /\ AdoptionReady(w)
        /\ AdoptedRows(w)
        /\ acked' = acked \cup {h[w].op}
        /\ Exit(w)
        /\ UNCHANGED <<hasura, caps, depOk, wire, resp, edited, bounds>>
     \/ Op(w).status # "completed" /\ ~AdoptionReady(w) /\ Refuse(w)

\* applyPolicyReconcile compares revision and source; it does not ask whether
\* the row is still a preview.
ApplyReconcile(w) ==
  /\ Deciding(w, "applyReconcile")
  /\ \/ ReplayCompleted(w)
     \/ /\ Op(w).status # "completed"
        /\ IF SourceUnchanged(w) /\ DependencyCurrent
           THEN Proceed(w, "load2") ELSE Refuse(w)

ApplyExtension(w) ==
  /\ Deciding(w, "applyExtension")
  /\ \/ ReplayCompleted(w)
     \/ /\ Op(w).status # "completed"
        /\ IF /\ Op(w).status = "preview_ready"
              /\ base.pv = 2 /\ State(w) = "managed"
              /\ SourceUnchanged(w) /\ DependencyCurrent
           THEN Proceed(w, "load2") ELSE Refuse(w)

-----------------------------------------------------------------------------
(* applyPolicyOperation and recoverPolicyOperation: claim, write, verify,  *)
(* commit.                                                                 *)

LoadSecond(w) ==
  /\ At(w, "load2")
  /\ loadOperationContext(w, "begin")
  /\ UNCHANGED <<rows, hasura, caps, depOk, lock, conn, wire, resp, acked,
                 edited, bounds>>

\* The row gets a fresh writer epoch and a deadline in one UPDATE.
Claim(w, status, mode) ==
  /\ ops' = [ops EXCEPT ![h[w].op] =
               [Op(w) EXCEPT !.status = status, !.epoch = Op(w).epoch + 1,
                             !.lease = "live"]]
  /\ h' = [h EXCEPT ![w].pc = "renew", ![w].mode = mode,
                    ![w].epoch = Op(w).epoch + 1]
  /\ UNCHANGED <<lock, conn, acked, Local>>

Unmoved(w) == h[w].ctx.ver = Op(w).ver /\ SourceUnchanged(w)

BeginApply(w) ==
  /\ At(w, "begin") /\ conn[w]
  /\ \/ /\ ~Unmoved(w)
        /\ transitionPolicyOperation(h[w].op, {Op(w).status},
                                     [Op(w) EXCEPT !.status = "failed"])
        /\ Exit(w)
        /\ UNCHANGED <<acked, Local>>
     \/ /\ Unmoved(w)
        /\ IF DependencyCurrent /\ OneActive(h[w].op)
           THEN Claim(w, "applying", "apply") ELSE Refuse(w)

\* policyOperationRecoverySafeAt: deadline and drain window are over.
RecoverySafe(w) == Op(w).lease = "drained"

BeginRecover(w) ==
  /\ Deciding(w, "recover")
  /\ IF /\ RecoverySafe(w)
        /\ isRecoverablePermissionSnapshot(h[w].ctx.perms, Op(w).src, Op(w).tgt)
     THEN Claim(w, "recovering", "recover") ELSE Refuse(w)

\* Mutant: a handler whose lease is gone waits for it.
Renew_WaitsForLease(w) ==
  /\ \/ At(w, "renew") \/ At(w, "renewFallback")
  /\ conn[w] /\ Op(w).lease = "live"
  /\ Proceed(w, IF At(w, "renew") THEN "send" ELSE "sendFallback")

\* renewPolicyOperationWriterLease; a lost lease ends the handler.
Renew(w) ==
  /\ \/ At(w, "renew") \/ At(w, "renewFallback")
  /\ conn[w]
  /\ IF /\ Op(w).status = IF h[w].mode = "apply" THEN "applying" ELSE "recovering"
        /\ Op(w).epoch = h[w].epoch
        /\ Op(w).lease = "live"
     THEN Proceed(w, IF At(w, "renew") THEN "send" ELSE "sendFallback")
     ELSE Refuse(w)

\* What the mutation drops and what it creates.
From(w) == IF h[w].mode = "apply" THEN Op(w).src ELSE h[w].ctx.perms
To(w) == IF h[w].mode = "apply" THEN Op(w).tgt ELSE Op(w).src

NoCommands(w) == From(w) = NoPermissions /\ To(w) = NoPermissions

\* applyPermissionMutation, and the fence of a recovery without commands.
KindOf(w) ==
  IF NoCommands(w) THEN "touch"
  ELSE IF \/ hasUnavailablePermissionColumns(From(w), h[w].ctx.caps)
          \/ hasUnavailablePermissionColumns(To(w), h[w].ctx.caps)
  THEN "replace" ELSE "atomic"

\* Mutant: the request carries no resource_version, which 0 stands for.
RequestVersion_Unfenced(w) == 0

\* Every mutation is conditional on the version its context was read at.
RequestVersion(w) == h[w].ctx.ver

SendRequest(w, kind) ==
  /\ wire' = wire \cup {[w |-> w, op |-> h[w].op, kind |-> kind,
                         ver |-> RequestVersion(w), from |-> From(w), to |-> To(w)]}
  /\ resp' = [resp EXCEPT ![w] = "none"]
  /\ Goto(w, "await")
  /\ UNCHANGED <<rows, hasura, caps, depOk, lock, conn, acked, edited, bounds>>

Send(w) ==
  /\ At(w, "send")
  /\ IF NoCommands(w) /\ h[w].mode # "recover"
     THEN Proceed(w, "verify")
     ELSE SendRequest(w, KindOf(w))

SendFallback(w) ==
  /\ At(w, "sendFallback")
  /\ SendRequest(w, "bulk")

-----------------------------------------------------------------------------
(* Hasura (external): it applies a request whose resource_version is the   *)
(* current one, or that has none, and advances the version.  bulk_atomic   *)
(* may not be supported; bulk may stop after any prefix of its commands.   *)

Answer(r, a) ==
  /\ wire' = wire \ {r}
  /\ resp' = IF r.w = NoWorker THEN resp ELSE [resp EXCEPT ![r.w] = a]
  /\ UNCHANGED <<rows, caps, depOk, lock, h, conn, acked, edited, bounds>>

\* A 4xx with an error code: a stale version or a failed validation.  The
\* caller of a bulk fallback takes every error for an unknown outcome.
HasuraRejects(r) ==
  /\ Answer(r, IF r.kind = "bulk" THEN "uncertain" ELSE "rejected")
  /\ UNCHANGED hasura

HasuraUnsupported(r) ==
  /\ r.kind = "atomic" /\ NonAtomic
  /\ Answer(r, "unsupported")
  /\ UNCHANGED hasura

HasuraApplies(r) ==
  /\ r.ver \in {0, version}
  /\ version' = version + 1
  /\ perms' = IF r.kind = "touch" THEN perms ELSE r.to
  /\ Answer(r, "ok")

HasuraStopsMidway(r) ==
  /\ r.kind = "bulk"
  /\ r.ver \in {0, version}
  /\ version' = version + 1
  /\ perms' \in CommandPrefixes(r.from, r.to) \ {r.to}
  /\ Answer(r, "uncertain")

-----------------------------------------------------------------------------
(* Back in the handler.                                                    *)

\* Mutant: an unknown outcome is recorded as a failure.
AfterError_UnknownFails(w, a) ==
  IF h[w].mode = "apply" THEN "toFailed" ELSE "toRecovery"

\* isDefinitiveHasuraRejection decides what an apply records.
AfterError(w, a) ==
  IF h[w].mode = "apply" /\ a = "rejected" THEN "toFailed" ELSE "toRecovery"

Receive(w) ==
  /\ At(w, "await")
  /\ resp[w] # "none"
  /\ h' = [h EXCEPT ![w].pc =
             CASE resp[w] = "ok" -> "verify"
               [] resp[w] = "unsupported" -> "renewFallback"
               [] OTHER -> AfterError(w, resp[w])]
  /\ resp' = [resp EXCEPT ![w] = "none"]
  /\ UNCHANGED <<rows, hasura, caps, depOk, lock, conn, wire, acked, edited,
                 bounds>>

\* The requests of a worker that stopped waiting are nobody's, not undone.
Orphaned(w) ==
  {[r EXCEPT !.w = IF r.w = w THEN NoWorker ELSE r.w] : r \in wire}

\* AbortSignal.timeout, or a transport error: the outcome is unknown.
Timeout(w) ==
  /\ At(w, "await")
  /\ faults < MaxFaults
  /\ faults' = faults + 1
  /\ Goto(w, AfterError(w, "uncertain"))
  /\ wire' = Orphaned(w)
  /\ resp' = [resp EXCEPT ![w] = "none"]
  /\ UNCHANGED <<rows, hasura, caps, depOk, lock, conn, acked, edited,
                 requests, outside>>

\* The exported permissions are the target, the dependencies still hold, and
\* the row still belongs to this writer.
TargetVerified(w) ==
  /\ perms = Op(w).tgt
  /\ inspectedManaged(perms, caps)
  /\ DependencyCurrent
  /\ Op(w).status = "applying"
  /\ Op(w).epoch = h[w].epoch

\* Mutant: a target that cannot be verified is a plain failure.
VerifyTarget_NoRestore(w) ==
  /\ At(w, "verify") /\ conn[w]
  /\ h[w].mode = "apply"
  /\ Proceed(w, IF TargetVerified(w) THEN "commit" ELSE "toFailed")

VerifyTarget(w) ==
  /\ At(w, "verify") /\ conn[w]
  /\ h[w].mode = "apply"
  /\ Proceed(w, IF TargetVerified(w) THEN "commit" ELSE "restoreLoad")

\* The columns the source permissions are read back with.
SourceCaps(o) ==
  IF base.rev # 0 /\ base.rev = ops[o].baseRev THEN base.caps ELSE ops[o].caps

SourceVerified(w) ==
  /\ perms = Op(w).src
  /\ inspectedManaged(perms, SourceCaps(h[w].op))
  /\ h[w].mode = "recover" => version > h[w].ctx.ver

VerifySource(w) ==
  /\ At(w, "verify") /\ conn[w]
  /\ h[w].mode \in {"restore", "recover"}
  /\ Proceed(w, IF SourceVerified(w) THEN "settle" ELSE "toRecovery")

\* saveManagedPolicy with the expected revision, and the row, in one
\* transaction; a conflict rolls both back.
CommittedRows(w) ==
  /\ base' = [rev |-> base.rev + 1, perms |-> Op(w).tgt, caps |-> Op(w).caps,
              pv |-> base.pv]
  /\ ops' = [ops EXCEPT ![h[w].op] = [Op(w) EXCEPT !.status = "completed",
                                                    !.wrote = TRUE]]

MayCommit(w) == base.rev = Op(w).baseRev /\ Op(w).status = "applying"

Commit(w) ==
  /\ At(w, "commit") /\ conn[w]
  /\ \/ /\ MayCommit(w)
        /\ CommittedRows(w)
        /\ acked' = acked \cup {h[w].op}
        /\ Exit(w)
        /\ UNCHANGED <<hasura, caps, depOk, wire, resp, edited, bounds>>
     \/ ~MayCommit(w) /\ Proceed(w, "restoreLoad")

\* The session dies under a COMMIT: it took effect or it did not.
CommitLost(w) ==
  /\ conn[w]
  /\ faults < MaxFaults
  /\ faults' = faults + 1
  /\ \/ /\ At(w, "commit") /\ MayCommit(w)
        /\ CommittedRows(w) \/ UNCHANGED rows
        /\ Goto(w, "confirm")
     \/ /\ Deciding(w, "applyAdoption") /\ AdoptionReady(w)
        /\ AdoptedRows(w) \/ UNCHANGED rows
        /\ h' = [h EXCEPT ![w] = Idle]
  /\ lock' = NoWorker
  /\ conn' = [conn EXCEPT ![w] = h'[w] = Idle]
  /\ UNCHANGED <<hasura, caps, depOk, wire, resp, acked, edited, requests, outside>>

\* Mutant: a commit whose answer is lost is taken for done unless the row failed.
CommitConfirmed_Unfailed(o) == ops[o].status # "failed"

\* confirmUnknownPolicyCommit, through another session.  Without proof the
\* handler ends: restoreSource cannot claim the row over a dead session.
CommitConfirmed(o) ==
  /\ ops[o].status = "completed"
  /\ base.rev = ops[o].baseRev + 1
  /\ base.perms = ops[o].tgt

ConfirmCommit(w) ==
  /\ At(w, "confirm")
  /\ acked' = IF CommitConfirmed(h[w].op) THEN acked \cup {h[w].op} ELSE acked
  /\ Exit(w)
  /\ UNCHANGED <<ops, Local>>

\* restoreSource: put the recorded source back after a write that is known.
RestoreLoad(w) ==
  /\ At(w, "restoreLoad")
  /\ h' = [h EXCEPT ![w].pc = "restoreBegin", ![w].mode = "restore",
                    ![w].ctx = [perms |-> perms, caps |-> caps, ver |-> version]]
  /\ UNCHANGED <<rows, hasura, caps, depOk, lock, conn, wire, resp, acked,
                 edited, bounds>>

RestoreBegin(w) ==
  /\ At(w, "restoreBegin") /\ conn[w]
  /\ IF /\ isRecoverablePermissionSnapshot(h[w].ctx.perms, Op(w).src, Op(w).tgt)
        /\ Op(w).status = "applying"
     THEN Claim(w, "recovering", "restore") ELSE Proceed(w, "toRecovery")

\* The handler's last UPDATE; it throws if the status is not the expected one.
Close(w, expected, status) ==
  /\ ops' = IF Op(w).status \in expected
            THEN [ops EXCEPT ![h[w].op].status = status] ELSE ops
  /\ Exit(w)
  /\ UNCHANGED <<acked, Local>>

MarkFailed(w) ==
  At(w, "toFailed") /\ conn[w] /\ Close(w, {"applying"}, "failed")

MarkRecoveryRequired(w) ==
  /\ At(w, "toRecovery") /\ conn[w]
  /\ Close(w, CASE h[w].mode = "recover" -> {"recovering"}
                 [] h[w].mode = "restore" -> {"applying", "recovering"}
                 [] OTHER -> {"applying"}, "recovery_required")

MarkRestored(w) ==
  At(w, "settle") /\ conn[w] /\ Close(w, {"recovering"}, "failed")

\* A statement on a dead session throws, and so does every later one.
DeadSession(w) ==
  /\ ~conn[w]
  /\ h[w].pc \in Pcs \ {"idle", "load", "load2", "send", "sendFallback",
                         "await", "restoreLoad", "confirm"}
  /\ Refuse(w)

-----------------------------------------------------------------------------
(* Faults, time, and what happens beside policy operations.                *)

Fault == faults < MaxFaults /\ faults' = faults + 1

DropSession(w) ==
  /\ ~At(w, "idle") /\ conn[w]
  /\ Fault
  /\ conn' = [conn EXCEPT ![w] = FALSE]
  /\ lock' = IF lock = w THEN NoWorker ELSE lock
  /\ UNCHANGED <<rows, hasura, caps, depOk, h, wire, resp, acked, edited,
                 requests, outside>>

Crash(w) ==
  /\ ~At(w, "idle")
  /\ Fault
  /\ Exit(w)
  /\ wire' = Orphaned(w)
  /\ resp' = [resp EXCEPT ![w] = "none"]
  /\ UNCHANGED <<rows, hasura, caps, depOk, acked, edited, requests, outside>>

\* export_metadata fails: before the claim the call is refused, after a write
\* the handler goes on to restore or to ask for recovery.
ExportFails(w) ==
  /\ Fault
  /\ \/ /\ At(w, "load") \/ At(w, "load2")
        /\ Exit(w)
     \/ /\ At(w, "verify") \/ At(w, "restoreLoad")
        /\ h' = [h EXCEPT ![w].pc = IF h[w].mode = "apply" /\ At(w, "verify")
                                   THEN "restoreLoad" ELSE "toRecovery",
                          ![w].mode = IF At(w, "restoreLoad") THEN "restore"
                                     ELSE h[w].mode]
        /\ UNCHANGED <<lock, conn>>
  /\ UNCHANGED <<rows, hasura, caps, depOk, wire, resp, acked, edited,
                 requests, outside>>

LeaseAges(o) ==
  /\ ops[o].status \in InFlight
  /\ ops[o].lease \in {"live", "expired"}
  /\ ops' = [ops EXCEPT ![o].lease =
                            IF ops[o].lease = "live" THEN "expired" ELSE "drained"]
  /\ UNCHANGED <<base, hasura, caps, depOk, lock, h, conn, wire, resp, acked,
                 edited, bounds>>

Outside == outside < MaxOutside /\ outside' = outside + 1

\* Any other metadata change of the deployment, another project's included.
OtherMetadataChange ==
  /\ Outside
  /\ version' = version + 1
  /\ UNCHANGED <<rows, perms, caps, depOk, lock, h, conn, wire, resp, acked,
                 edited, requests, faults>>

\* The permissions of this table are edited in the Hasura console.
ConsoleEdit ==
  /\ Outside
  /\ version' = version + 1
  /\ perms' = [perms EXCEPT ![1] = "custom"]
  /\ edited' = TRUE
  /\ UNCHANGED <<rows, caps, depOk, lock, h, conn, wire, resp, acked,
                 requests, faults>>

\* Any other schema or data call of the platform: it runs under the project
\* lock with purpose `ordinary`, supersedes previews, and may alter columns.
OrdinaryMutation ==
  /\ Outside
  /\ lock = NoWorker
  /\ ~hasPersistedDataAccessBlock("none")
  /\ ops' = supersedePolicyPreviews
  /\ caps' \in Caps
  /\ UNCHANGED <<base, hasura, depOk, lock, h, conn, wire, resp, acked, edited,
                 requests, faults>>

DependencyChange ==
  /\ Outside
  /\ depOk' = ~depOk
  /\ UNCHANGED <<rows, hasura, caps, lock, h, conn, wire, resp, acked, edited,
                 requests, faults>>

-----------------------------------------------------------------------------
Body(w) ==
  \/ UpdateNew(w) \/ UpdateExisting(w) \/ CompleteNoop(w)
  \/ PreviewAdoption(w) \/ PreviewReconcile(w) \/ PreviewExtension(w)
  \/ ApplyAdoption(w) \/ ApplyReconcile(w) \/ ApplyExtension(w)
  \/ BeginRecover(w) \/ BeginApply(w)

Write(w) ==
  \/ Renew(w) \/ Send(w) \/ SendFallback(w) \/ Receive(w)
  \/ VerifyTarget(w) \/ VerifySource(w) \/ Commit(w) \/ ConfirmCommit(w)
  \/ RestoreLoad(w) \/ RestoreBegin(w)
  \/ MarkFailed(w) \/ MarkRecoveryRequired(w) \/ MarkRestored(w)

HandlerStep(w) ==
  LoadContext(w) \/ LoadSecond(w) \/ Body(w) \/ Write(w) \/ DeadSession(w)

HasuraStep ==
  \E r \in wire : \/ HasuraRejects(r) \/ HasuraUnsupported(r)
                 \/ HasuraApplies(r) \/ HasuraStopsMidway(r)

FaultStep(w) ==
  Timeout(w) \/ CommitLost(w) \/ DropSession(w) \/ Crash(w) \/ ExportFails(w)

Environment ==
  \/ \E o \in Ops : LeaseAges(o)
  \/ OtherMetadataChange \/ ConsoleEdit \/ OrdinaryMutation \/ DependencyChange

Next ==
  \/ \E w \in Workers :
       \/ \E call \in Calls, o \in Ops :
            withProjectDataAccessMutationLock(w, call, o)
       \/ HandlerStep(w)
       \/ FaultStep(w)
  \/ HasuraStep
  \/ Environment

Spec == Init /\ [][Next]_vars

\* A handler runs on, and Hasura answers or the request's 30 s are over.
FairSpec ==
  /\ Spec
  /\ \A w \in Workers : WF_vars(HandlerStep(w))
  /\ WF_vars(HasuraStep)

-----------------------------------------------------------------------------
(* Properties.                                                             *)

Settled == \A o \in Ops : ops[o].status \notin InFlight

\* Whenever no operation is in flight, the permissions Hasura enforces are the
\* ones the baseline row records, whatever crashed, timed out or arrived late
\* (applyPolicyOperation, restoreSource, recoverPolicyOperation).
SettledAgrees ==
  (Settled /\ ~edited /\ base.rev # 0) => perms = base.perms

\* A request an operation sent and did not wait for can no longer change
\* anything once the operation has settled: recovery moved the version on.
LateWriteHarmless ==
  \A r \in wire : ops[r.op].status \notin InFlight => r.ver \notin {0, version}

\* A metadata write of an operation replaces only permissions that the same
\* operation's commands can have produced; a foreign rule is never lost.
ForeignRulesKept ==
  [][perms' # perms /\ "custom" \in {perms[k] : k \in Keys}
       => \E k \in Keys : perms'[k] = "custom"]_vars

\* The operations that wrote the baseline row.
Tracked == {o \in Ops : /\ ops[o].status = "completed"
                        /\ ops[o].wrote \/ ops[o].kind = "adoption"}

\* The baseline advances by exactly one revision for every operation that
\* completed with a write, through retries and unknown commits.
OneRevisionPerOperation == Cardinality(Tracked) \in {base.rev, base.rev - 1}

\* A client is told that an operation completed only if it did.
AckedIsCompleted == \A o \in acked : ops[o].status = "completed"

\* The columns of the table stay what they were when the operation was planned
\* for as long as it is in flight, also when its handler and its lock are gone.
ColumnsFrozenInFlight ==
  \A o \in Ops : ops[o].status \in InFlight => caps = ops[o].caps

\* The records of operations are sound: well typed, one revision for each write,
\* no completion acknowledged that was not recorded, no columns moved under a plan.
OperationsSound ==
  TypeOK /\ OneRevisionPerOperation /\ AckedIsCompleted /\ ColumnsFrozenInFlight

\* Recovery accepts whatever an interrupted operation left behind.
RecoveryAdmits ==
  \A o \in Ops : ops[o].status \in InFlight /\ ~edited
    => isRecoverablePermissionSnapshot(perms, ops[o].src, ops[o].tgt)

\* The baseline row as a register, with the plans its operations have recorded.
Plans ==
  {[op |-> o, revision |-> ops[o].baseRev, value |-> ops[o].tgt] :
     o \in {p \in Ops : ops[p].status # "absent"}}
Register == INSTANCE PolicyRegister
  WITH Operations <- Ops, Values <- Snapshots,
       revision <- base.rev, value <- base.perms,
       plans <- Plans, moved <- Tracked, acknowledged <- acked

\* Managed policies implement the register: an operation writes the baseline
\* once, over the revision it was planned for, or never, and what a client is
\* told of is what the baseline holds and that operation has written, through
\* replays, commits whose answer is lost, dead sessions and recoveries.
ImplementsRegister == Register!RegisterSpec

\* The project lock is always given back: no path of a handler keeps it.
LockReleased == \A w \in Workers : lock = w ~> lock # w
=============================================================================
