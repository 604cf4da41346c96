------------------------ MODULE PolicyOperationProofs -----------------------
(***************************************************************************)
(* What holds of the records of policy operations for every number of      *)
(* workers, operations, calls, crashes, lost sessions, late requests and   *)
(* outside changes: they are sound (OperationsSound), no write of the      *)
(* platform replaces a foreign rule (ForeignRulesKept), the baseline is a  *)
(* register that every operation moves once, from the revision it was      *)
(* planned for, or never (ImplementsRegister), and, as long as clients do  *)
(* not apply reconcile previews that are none any more, the metadata agree *)
(* with the baseline (SettledAgrees) and no late request can change that   *)
(* (LateWriteHarmless).                                                    *)
(*                                                                         *)
(* Three layers: what a record, a handler or a request becomes, field by   *)
(* field; what each action does (the lemmas named ...Effect), with the     *)
(* types; and what each keeps of the inductive invariants RecordsInv (the  *)
(* lemmas named ...Keeps), WriteInv (those named ...Writes) and            *)
(* RegisterInv, with the step of the register it is (...Register).         *)
(***************************************************************************)
EXTENDS PolicyOperation, TLAPS, FiniteSetTheorems

-----------------------------------------------------------------------------
(* Rows and handlers, one field at a time.                                 *)

RowTyped(row) ==
  /\ row.kind \in Kinds /\ row.status \in Statuses /\ row.baseRev \in Nat
  /\ row.caps \in Caps /\ row.src \in Snapshots /\ row.tgt \in Snapshots
  /\ row.ver \in Nat /\ row.epoch \in Nat /\ row.lease \in Leases
  /\ row.wrote \in BOOLEAN

\* What an operation was planned as: these columns of its row are written once.
SamePlan(new, row) ==
  /\ new.kind = row.kind /\ new.baseRev = row.baseRev /\ new.caps = row.caps
  /\ new.src = row.src /\ new.tgt = row.tgt /\ new.ver = row.ver

\* The columns of a row, each with its type.
LEMMA RowFields == ASSUME NEW row \in OpRow PROVE RowTyped(row)
BY DEF OpRow, RowTyped

\* A row whose status alone is set.
LEMMA StatusUpdate ==
  ASSUME NEW row \in OpRow, NEW s \in Statuses
  PROVE  LET new == [row EXCEPT !.status = s] IN
         /\ new \in OpRow /\ SamePlan(new, row) /\ new.status = s
         /\ new.wrote = row.wrote /\ new.epoch = row.epoch /\ new.lease = row.lease
BY DEF OpRow, SamePlan

\* A row a writer claims: a status, the next epoch, a live lease.
LEMMA ClaimUpdate ==
  ASSUME NEW row \in OpRow, NEW s \in Statuses
  PROVE  LET new == [row EXCEPT !.status = s, !.epoch = row.epoch + 1, !.lease = "live"] IN
         /\ new \in OpRow /\ SamePlan(new, row) /\ new.status = s
         /\ new.wrote = row.wrote /\ new.epoch = row.epoch + 1 /\ new.lease = "live"
<1>1. row.epoch + 1 \in Nat /\ "live" \in Leases
  BY DEF OpRow, Leases
<1> QED BY <1>1 DEF OpRow, SamePlan

\* A row that commits: completed, and written.
LEMMA CommitUpdate ==
  ASSUME NEW row \in OpRow
  PROVE  LET new == [row EXCEPT !.status = "completed", !.wrote = TRUE] IN
         /\ new \in OpRow /\ SamePlan(new, row) /\ new.status = "completed"
         /\ new.wrote = TRUE /\ new.epoch = row.epoch /\ new.lease = row.lease
BY DEF OpRow, SamePlan, Statuses

\* A row whose lease alone is set.
LEMMA LeaseUpdate ==
  ASSUME NEW row \in OpRow, NEW l \in Leases
  PROVE  LET new == [row EXCEPT !.lease = l] IN
         /\ new \in OpRow /\ SamePlan(new, row) /\ new.status = row.status
         /\ new.wrote = row.wrote /\ new.epoch = row.epoch /\ new.lease = l
BY DEF OpRow, SamePlan

\* The row nobody has created yet is well typed.
LEMMA NoOpTyped == NoOp \in OpRow
BY DEF NoOp, OpRow, Kinds, Statuses, Caps, Leases, Snapshots, NoPermissions, Rules

HandlerTyped(x) ==
  /\ x.pc \in Pcs /\ x.mode \in Modes /\ x.ctx \in Context /\ x.epoch \in Nat
  /\ x.ctx.perms \in Snapshots /\ x.ctx.caps \in Caps /\ x.ctx.ver \in Nat
  /\ x.call \in AllCalls \cup {"none"} /\ x.op \in Ops \cup {"none"}

\* The fields of a handler, each with its type.
LEMMA HandlerFields == ASSUME NEW x \in Handler PROVE HandlerTyped(x)
BY DEF Handler, HandlerTyped, Context

\* A worker without a call.
LEMMA IdleTyped ==
  /\ Idle \in Handler /\ Idle.pc = "idle" /\ Idle.mode = "none" /\ Idle.ctx.ver = 0
BY DEF Idle, Handler, Pcs, Modes, Context, NoContext, Snapshots, NoPermissions, Rules, Caps

\* A context just read.
LEMMA NewContext ==
  ASSUME NEW p \in Snapshots, NEW c \in Caps, NEW v \in Nat
  PROVE  LET x == [perms |-> p, caps |-> c, ver |-> v] IN
         x \in Context /\ x.perms = p /\ x.caps = c /\ x.ver = v
BY DEF Context

\* The handlers of the others are as they were.
Others(w) == \A v \in Workers \ {w} : h'[v] = h[v]

\* The handler of w is now at p, with mode m, context c and epoch e.
Now(w, p, m, c, e) ==
  /\ h' \in [Workers -> Handler]
  /\ Others(w)
  /\ h'[w].pc = p /\ h'[w].mode = m /\ h'[w].ctx = c /\ h'[w].epoch = e
  /\ h'[w].op = h[w].op /\ h'[w].call = h[w].call

\* The handler moves on with what it has.
LEMMA GotoNow ==
  ASSUME h \in [Workers -> Handler], NEW w \in Workers, NEW p \in Pcs, Goto(w, p)
  PROVE  Now(w, p, h[w].mode, h[w].ctx, h[w].epoch)
BY DEF Goto, Now, Others, Handler

\* The handler moves on with a context it has just read.
LEMMA LoadNow ==
  ASSUME h \in [Workers -> Handler], NEW w \in Workers, NEW p \in Pcs, NEW c \in Context,
         h' = [h EXCEPT ![w].pc = p, ![w].ctx = c]
  PROVE  Now(w, p, h[w].mode, c, h[w].epoch)
BY DEF Now, Others, Handler

\* The same, and it turns to restoring the source.
LEMMA RestoreLoadNow ==
  ASSUME h \in [Workers -> Handler], NEW w \in Workers, NEW p \in Pcs, NEW m \in Modes,
         NEW c \in Context, h' = [h EXCEPT ![w].pc = p, ![w].mode = m, ![w].ctx = c]
  PROVE  Now(w, p, m, c, h[w].epoch)
BY DEF Now, Others, Handler

\* The handler moves on as the writer of an epoch.
LEMMA ClaimNow ==
  ASSUME h \in [Workers -> Handler], NEW w \in Workers, NEW p \in Pcs, NEW m \in Modes,
         NEW e \in Nat, h' = [h EXCEPT ![w].pc = p, ![w].mode = m, ![w].epoch = e]
  PROVE  Now(w, p, m, h[w].ctx, e)
BY DEF Now, Others, Handler

\* The handler moves on in another mode.
LEMMA ExportNow ==
  ASSUME h \in [Workers -> Handler], NEW w \in Workers, NEW p \in Pcs, NEW m \in Modes,
         h' = [h EXCEPT ![w].pc = p, ![w].mode = m]
  PROVE  Now(w, p, m, h[w].ctx, h[w].epoch)
BY DEF Now, Others, Handler

\* The handler of w begins the call for o.
Begins(w, call, o) ==
  /\ h' \in [Workers -> Handler]
  /\ Others(w)
  /\ h'[w].pc = "load" /\ h'[w].mode = "none" /\ h'[w].ctx.ver = 0
  /\ h'[w].call = call /\ h'[w].op = o

\* Admission replaces an idle handler by one about to read.
LEMMA AdmitNow ==
  ASSUME h \in [Workers -> Handler], NEW w \in Workers, NEW call \in AllCalls, NEW o \in Ops,
         h' = [h EXCEPT ![w] = [Idle EXCEPT !.pc = "load", !.call = call, !.op = o]]
  PROVE  Begins(w, call, o)
<1> DEFINE x == [Idle EXCEPT !.pc = "load", !.call = call, !.op = o]
<1>1. /\ x \in Handler /\ x.pc = "load" /\ x.mode = "none" /\ x.ctx.ver = 0
      /\ x.call = call /\ x.op = o
  BY DEF Idle, Handler, Pcs, Modes, Context, NoContext, Snapshots, NoPermissions, Rules, Caps
<1> HIDE DEF x
<1>2. h' = [h EXCEPT ![w] = x]
  BY DEF x
<1> QED BY <1>1, <1>2 DEF Begins, Others

\* The handler of w is gone, and the lock with it.
Leaves(w) ==
  /\ h' \in [Workers -> Handler] /\ h'[w] = Idle /\ Others(w)
  /\ lock' = IF lock = w THEN NoWorker ELSE lock
  /\ conn' \in [Workers -> BOOLEAN] /\ conn'[w] = TRUE
  /\ \A v \in Workers \ {w} : conn'[v] = conn[v]

\* Exit drops the handler, and the lock if it holds it.
LEMMA ExitLeaves ==
  ASSUME h \in [Workers -> Handler], conn \in [Workers -> BOOLEAN], NEW w \in Workers, Exit(w)
  PROVE  Leaves(w)
BY IdleTyped DEF Exit, Leaves, Others

\* One row of the table has changed: its plan has not.
Changes(o, s) ==
  /\ ops' \in [Ops -> OpRow]
  /\ \A p \in Ops \ {o} : ops'[p] = ops[p]
  /\ SamePlan(ops'[o], ops[o]) /\ ops'[o].status = s

\* Setting one row to another with the same plan.
LEMMA RowSet ==
  ASSUME ops \in [Ops -> OpRow], NEW o \in Ops, NEW new \in OpRow, ops' = [ops EXCEPT ![o] = new]
  PROVE  /\ ops' \in [Ops -> OpRow] /\ ops'[o] = new
         /\ \A p \in Ops \ {o} : ops'[p] = ops[p]
OBVIOUS

\* supersedePolicyPreviews changes the status of previews alone.
Superseded ==
  /\ ops' \in [Ops -> OpRow]
  /\ \A p \in Ops : /\ ops[p].status # "preview_ready" => ops'[p] = ops[p]
                    /\ ops[p].status = "preview_ready" =>
                         /\ ops'[p].status = "superseded" /\ SamePlan(ops'[p], ops[p])
                         /\ ops'[p].wrote = ops[p].wrote

\* Superseding touches previews, and their status only.
LEMMA SupersedeEffect ==
  ASSUME ops \in [Ops -> OpRow], ops' = supersedePolicyPreviews
  PROVE  Superseded
<1>1. ASSUME NEW p \in Ops
      PROVE  /\ [ops[p] EXCEPT !.status = "superseded"] \in OpRow
             /\ SamePlan([ops[p] EXCEPT !.status = "superseded"], ops[p])
             /\ [ops[p] EXCEPT !.status = "superseded"].status = "superseded"
             /\ [ops[p] EXCEPT !.status = "superseded"].wrote = ops[p].wrote
  BY StatusUpdate, "superseded" \in Statuses DEF Statuses
<1> QED BY <1>1 DEF Superseded, supersedePolicyPreviews

\* What the commands of a change can leave is a snapshot, and none that was not
\* there: a source and a target without a foreign rule leave none.
Clean(p) == \A k \in Keys : p[k] # "custom"

\* What the commands of an operation leave when they stop midway mixes its source and its
\* target.
LEMMA PrefixClean ==
  ASSUME NEW s \in Snapshots, NEW t \in Snapshots, NEW p \in CommandPrefixes(s, t)
  PROVE  p \in Snapshots /\ (Clean(s) /\ Clean(t) => Clean(p))
BY NKeysAssumption DEF CommandPrefixes, AfterDrops, AfterCreates, Snapshots, Rules, Clean, Keys

\* A snapshot the inspection accepts has no foreign rule.
LEMMA InspectedClean ==
  ASSUME NEW p \in Snapshots, NEW c, inspectedManaged(p, c) PROVE Clean(p)
BY DEF inspectedManaged, hasUnavailablePermissionColumns, Clean

\* A table that is not classified "custom" has no foreign rule.
LEMMA ClassifiedClean ==
  ASSUME NEW p \in Snapshots, NEW c, NEW b, classifyManagedPolicyState(p, c, b) # "custom"
  PROVE  Clean(p)
BY InspectedClean DEF classifyManagedPolicyState

-----------------------------------------------------------------------------
(* Types, a part of the state at a time.                                   *)

RowsTyped ==
  /\ ops \in [Ops -> OpRow]
  /\ \A o \in Ops : ops[o].status \in InFlight => ops[o].epoch # 0 /\ ops[o].lease # "none"
HandlersTyped ==
  /\ h \in [Workers -> Handler]
  /\ \A w \in Workers : h[w].pc # "idle" => h[w].op \in Ops
SessionsTyped == lock \in Workers \cup {NoWorker} /\ conn \in [Workers -> BOOLEAN]
WorldTyped ==
  /\ base \in Baseline /\ perms \in Snapshots /\ version \in Nat
  /\ caps \in Caps /\ depOk \in BOOLEAN /\ edited \in BOOLEAN
WiresTyped == wire \subseteq Request /\ resp \in [Workers -> Answers]
BoundsTyped ==
  requests \in 0..MaxRequests /\ faults \in 0..MaxFaults /\ outside \in 0..MaxOutside

\* TypeOK is the conjunction of its parts.
LEMMA TypeParts ==
  TypeOK <=> /\ RowsTyped /\ HandlersTyped /\ SessionsTyped /\ WorldTyped
             /\ WiresTyped /\ acked \subseteq Ops /\ BoundsTyped
BY DEF TypeOK, RowsTyped, HandlersTyped, SessionsTyped, WorldTyped, WiresTyped, BoundsTyped

\* The parts, in the next state, give TypeOK.
LEMMA TypePartsNext ==
  ASSUME RowsTyped', HandlersTyped', SessionsTyped', WorldTyped', WiresTyped', acked' \subseteq Ops,
         BoundsTyped'
  PROVE  TypeOK'
BY DEF TypeOK, RowsTyped, HandlersTyped, SessionsTyped, WorldTyped, WiresTyped, BoundsTyped

\* A handler at work has an operation, whose row and context are typed.
LEMMA Worker ==
  ASSUME TypeOK, NEW w \in Workers, h[w].pc # "idle"
  PROVE  /\ h[w].op \in Ops /\ Op(w) \in OpRow /\ RowTyped(Op(w)) /\ HandlerTyped(h[w])
         /\ h \in [Workers -> Handler] /\ conn \in [Workers -> BOOLEAN]
         /\ ops \in [Ops -> OpRow]
BY RowFields, HandlerFields DEF TypeOK, Op

\* A handler that leaves keeps the types of handlers and sessions.
LEMMA LeavesTyped ==
  ASSUME TypeOK, NEW w \in Workers, Leaves(w) PROVE HandlersTyped' /\ SessionsTyped'
BY IdleTyped DEF TypeOK, Leaves, Others, HandlersTyped, SessionsTyped

\* A handler that moves keeps the types of handlers.
LEMMA NowTyped ==
  ASSUME TypeOK, NEW w \in Workers, h[w].pc # "idle", NEW p, NEW m, NEW c, NEW e,
         Now(w, p, m, c, e)
  PROVE  HandlersTyped'
BY DEF TypeOK, Now, Others, HandlersTyped

\* A part whose variables do not change keeps its types.
LEMMA SameTyped ==
  ASSUME TypeOK
  PROVE  /\ UNCHANGED ops => RowsTyped'
         /\ UNCHANGED h => HandlersTyped'
         /\ UNCHANGED <<lock, conn>> => SessionsTyped'
         /\ UNCHANGED <<base, perms, version, caps, depOk, edited>> => WorldTyped'
         /\ UNCHANGED <<wire, resp>> => WiresTyped'
         /\ UNCHANGED acked => acked' \subseteq Ops
         /\ UNCHANGED <<requests, faults, outside>> => BoundsTyped'
BY DEF TypeOK, RowsTyped, HandlersTyped, SessionsTyped, WorldTyped, WiresTyped, BoundsTyped

\* A changed row keeps the types of rows, if it has a writer when it is in flight.
LEMMA ChangesTyped ==
  ASSUME TypeOK, NEW o \in Ops, NEW s, Changes(o, s),
         s \in InFlight => ops'[o].epoch # 0 /\ ops'[o].lease # "none"
  PROVE  RowsTyped'
BY DEF TypeOK, Changes, RowsTyped

\* Superseding keeps the types of rows.
LEMMA SupersededTyped == ASSUME TypeOK, Superseded PROVE RowsTyped'
BY DEF TypeOK, Superseded, RowsTyped, InFlight

\* Refuse: nothing changes but the handler and its session.
LEMMA RefuseEffect ==
  ASSUME TypeOK, NEW w \in Workers, Refuse(w)
  PROVE  Leaves(w) /\ UNCHANGED <<ops, acked, Local>> /\ TypeOK'
<1>1. Leaves(w) /\ UNCHANGED <<ops, acked, Local>>
  BY ExitLeaves DEF Refuse, TypeOK
<1>2. HandlersTyped' /\ SessionsTyped'
  BY <1>1, LeavesTyped
<1> QED BY <1>1, <1>2, SameTyped, TypePartsNext DEF Local, hasura, bounds

\* Proceed: nothing changes but the place of the handler.
LEMMA ProceedEffect ==
  ASSUME TypeOK, NEW w \in Workers, h[w].pc # "idle", NEW p \in Pcs, Proceed(w, p)
  PROVE  /\ Now(w, p, h[w].mode, h[w].ctx, h[w].epoch)
         /\ UNCHANGED <<ops, lock, conn, acked, Local>> /\ TypeOK'
<1>1. /\ Now(w, p, h[w].mode, h[w].ctx, h[w].epoch)
      /\ UNCHANGED <<ops, lock, conn, acked, Local>>
  BY GotoNow DEF Proceed, TypeOK
<1>2. HandlersTyped'
  BY <1>1, NowTyped
<1> QED BY <1>1, <1>2, SameTyped, TypePartsNext DEF Local, hasura, bounds

Replays(w) ==
  /\ Leaves(w) /\ UNCHANGED <<ops, Local>> /\ acked' \subseteq acked \cup {h[w].op}

\* A completed operation is acknowledged, or a lost commit found again.
LEMMA ReplayEffect ==
  ASSUME TypeOK, NEW w \in Workers, h[w].pc # "idle", ReplayCompleted(w) \/ ConfirmCommit(w)
  PROVE  /\ Replays(w) /\ TypeOK'
         /\ acked' # acked => Op(w).status = "completed"
<1>1. Replays(w)
  BY ExitLeaves DEF ReplayCompleted, ConfirmCommit, TypeOK, Replays
<1>2. HandlersTyped' /\ SessionsTyped'
  BY <1>1, LeavesTyped DEF Replays
<1>3. acked' \subseteq Ops
  BY <1>1, Worker DEF Replays, TypeOK
<1>4. TypeOK'
  BY <1>1, <1>2, <1>3, SameTyped, TypePartsNext DEF Replays, Local, hasura, bounds
<1>5. acked' # acked => Op(w).status = "completed"
  BY DEF ReplayCompleted, ConfirmCommit, CommitConfirmed, Op
<1> QED BY <1>1, <1>4, <1>5

\* Claim: the row is in flight, with a writer, and the handler is about to write.
LEMMA ClaimEffect ==
  ASSUME TypeOK, NEW w \in Workers, h[w].pc # "idle", NEW s \in Statuses, NEW m \in Modes,
         Claim(w, s, m)
  PROVE  /\ Now(w, "renew", m, h[w].ctx, Op(w).epoch + 1)
         /\ Changes(h[w].op, s) /\ ops'[h[w].op].wrote = Op(w).wrote
         /\ UNCHANGED <<lock, conn, acked, Local>> /\ TypeOK'
<1> DEFINE new == [Op(w) EXCEPT !.status = s, !.epoch = Op(w).epoch + 1, !.lease = "live"]
<1>1. /\ h[w].op \in Ops /\ Op(w) \in OpRow /\ RowTyped(Op(w))
      /\ h \in [Workers -> Handler] /\ ops \in [Ops -> OpRow]
  BY Worker
<1>2. /\ new \in OpRow /\ SamePlan(new, Op(w)) /\ new.status = s
      /\ new.wrote = Op(w).wrote /\ new.epoch = Op(w).epoch + 1 /\ new.lease = "live"
  BY <1>1, ClaimUpdate
<1>3. /\ ops' = [ops EXCEPT ![h[w].op] = new] /\ UNCHANGED <<lock, conn, acked, Local>>
      /\ h' = [h EXCEPT ![w].pc = "renew", ![w].mode = m, ![w].epoch = Op(w).epoch + 1]
  BY DEF Claim
<1> HIDE DEF new
<1>4. /\ ops' \in [Ops -> OpRow] /\ ops'[h[w].op] = new
      /\ \A p \in Ops \ {h[w].op} : ops'[p] = ops[p]
  BY <1>1, <1>2, <1>3, RowSet
<1>5. Changes(h[w].op, s) /\ ops'[h[w].op].wrote = Op(w).wrote
  BY <1>2, <1>4 DEF Changes, Op
<1>6. Op(w).epoch + 1 \in Nat /\ Op(w).epoch + 1 # 0
  BY <1>1 DEF RowTyped
<1>7. Now(w, "renew", m, h[w].ctx, Op(w).epoch + 1)
  BY <1>1, <1>3, <1>6, ClaimNow DEF Pcs
<1>8. HandlersTyped'
  BY <1>7, NowTyped
<1>9. RowsTyped'
  BY <1>1, <1>2, <1>4, <1>5, <1>6, ChangesTyped
<1> QED BY <1>3, <1>5, <1>7, <1>8, <1>9, SameTyped, TypePartsNext DEF Local, hasura, bounds

\* A row gets its last status, and the handler is gone.
Closes(w, s) ==
  /\ Leaves(w) /\ Changes(h[w].op, s) /\ ops'[h[w].op].wrote = Op(w).wrote
  /\ UNCHANGED Local

\* The status of a row is set, by any of the two forms of the model.
LEMMA StatusSet ==
  ASSUME TypeOK, NEW o \in Ops, NEW s \in Statuses,
         \/ ops' = [ops EXCEPT ![o].status = s]
         \/ ops' = [ops EXCEPT ![o] = [ops[o] EXCEPT !.status = s]],
         s \in InFlight => ops[o].status \in InFlight
  PROVE  Changes(o, s) /\ ops'[o].wrote = ops[o].wrote /\ RowsTyped'
<1> DEFINE new == [ops[o] EXCEPT !.status = s]
<1>1. /\ new \in OpRow /\ SamePlan(new, ops[o]) /\ new.status = s
      /\ new.wrote = ops[o].wrote /\ new.epoch = ops[o].epoch /\ new.lease = ops[o].lease
  BY StatusUpdate DEF TypeOK
<1>2. ops' = [ops EXCEPT ![o] = new]
  OBVIOUS
<1> HIDE DEF new
<1>3. /\ ops' \in [Ops -> OpRow] /\ ops'[o] = new /\ \A p \in Ops \ {o} : ops'[p] = ops[p]
  BY <1>1, <1>2, RowSet DEF TypeOK
<1>4. Changes(o, s) /\ ops'[o].wrote = ops[o].wrote
  BY <1>1, <1>3 DEF Changes
<1>5. s \in InFlight => ops'[o].epoch # 0 /\ ops'[o].lease # "none"
  BY <1>1, <1>3 DEF TypeOK
<1> QED BY <1>4, <1>5, ChangesTyped

\* Close: the last transition of a row, if its status is still the expected one.
LEMMA CloseEffect ==
  ASSUME TypeOK, NEW w \in Workers, h[w].pc # "idle", NEW E \in SUBSET InFlight,
         NEW s \in Statuses, Close(w, E, s)
  PROVE  /\ TypeOK' /\ Leaves(w) /\ UNCHANGED <<acked, Local>>
         /\ Op(w).status \in E => Closes(w, s)
         /\ Op(w).status \notin E => UNCHANGED ops
<1>1. h[w].op \in Ops /\ h \in [Workers -> Handler] /\ conn \in [Workers -> BOOLEAN]
  BY Worker
<1>2. Leaves(w) /\ UNCHANGED <<acked, Local>>
  BY <1>1, ExitLeaves DEF Close
<1>3. CASE Op(w).status \in E
  <2>1. /\ Changes(h[w].op, s) /\ ops'[h[w].op].wrote = ops[h[w].op].wrote /\ RowsTyped'
    BY <1>1, <1>3, StatusSet DEF Close, Op
  <2> QED BY <1>2, <1>3, <2>1, LeavesTyped, SameTyped, TypePartsNext
          DEF Closes, Local, hasura, bounds, Op
<1>4. CASE Op(w).status \notin E
  <2>1. UNCHANGED ops
    BY <1>4 DEF Close
  <2> QED BY <1>2, <1>4, <2>1, LeavesTyped, SameTyped, TypePartsNext DEF Local, hasura, bounds
<1> QED BY <1>3, <1>4

\* A new preview of o, planned from the context of w.
Creates(w, k, t) ==
  /\ ops' \in [Ops -> OpRow]
  /\ \A p \in Ops \ {h[w].op} : ops'[p] = ops[p]
  /\ LET new == ops'[h[w].op] IN
     /\ new.kind = k /\ new.status = "preview_ready" /\ new.baseRev = base.rev
     /\ new.caps = h[w].ctx.caps /\ new.src = h[w].ctx.perms /\ new.tgt = t
     /\ new.wrote = FALSE

\* createPolicyOperation stores a preview planned from the context.
LEMMA CreateEffect ==
  ASSUME TypeOK, NEW w \in Workers, h[w].pc # "idle", NEW k \in Kinds, NEW t \in Snapshots,
         createPolicyOperation(w, k, t)
  PROVE  Creates(w, k, t) /\ RowsTyped'
<1> DEFINE new == [NoOp EXCEPT !.kind = k, !.status = "preview_ready", !.baseRev = base.rev,
                               !.caps = h[w].ctx.caps, !.src = h[w].ctx.perms, !.tgt = t,
                               !.ver = h[w].ctx.ver]
<1>1. h[w].op \in Ops /\ HandlerTyped(h[w]) /\ ops \in [Ops -> OpRow] /\ base.rev \in Nat
  BY Worker DEF TypeOK, Baseline
<1>2. /\ new \in OpRow /\ new.kind = k /\ new.status = "preview_ready"
      /\ new.baseRev = base.rev /\ new.caps = h[w].ctx.caps /\ new.src = h[w].ctx.perms
      /\ new.tgt = t /\ new.wrote = FALSE
  <2>1. /\ h[w].ctx.perms \in Snapshots /\ h[w].ctx.caps \in Caps /\ h[w].ctx.ver \in Nat
        /\ base.rev \in Nat
    BY <1>1 DEF HandlerTyped
  <2> QED BY <2>1 DEF NoOp, OpRow, Statuses, Leases
<1>3. ops' = [ops EXCEPT ![h[w].op] = new]
  BY DEF createPolicyOperation
<1> HIDE DEF new
<1>4. /\ ops' \in [Ops -> OpRow] /\ ops'[h[w].op] = new
      /\ \A p \in Ops \ {h[w].op} : ops'[p] = ops[p]
  BY <1>1, <1>2, <1>3, RowSet
<1>5. Creates(w, k, t)
  BY <1>2, <1>4 DEF Creates
<1>6. RowsTyped'
  BY <1>2, <1>4 DEF TypeOK, RowsTyped, InFlight
<1> QED BY <1>5, <1>6

\* The preview of a call is stored, and the handler is gone.
LEMMA PreviewEffect ==
  ASSUME TypeOK, NEW w \in Workers, h[w].pc # "idle", NEW k \in Kinds, NEW t \in Snapshots,
         Preview(w, k, t)
  PROVE  Creates(w, k, t) /\ Leaves(w) /\ UNCHANGED <<acked, Local>> /\ TypeOK'
<1>1. Creates(w, k, t) /\ RowsTyped'
  BY CreateEffect DEF Preview
<1>2. Leaves(w) /\ UNCHANGED <<acked, Local>>
  BY ExitLeaves DEF Preview, TypeOK
<1> QED BY <1>1, <1>2, LeavesTyped, SameTyped, TypePartsNext DEF Local, hasura, bounds

\* Adoption completes the row and writes the first baseline.
LEMMA AdoptEffect ==
  ASSUME TypeOK, NEW w \in Workers, h[w].pc # "idle", AdoptedRows(w)
  PROVE  /\ Changes(h[w].op, "completed") /\ ops'[h[w].op].wrote = Op(w).wrote
         /\ base'.rev = 1 /\ base'.perms = h[w].ctx.perms
         /\ base' \in Baseline /\ RowsTyped'
<1>1. h[w].op \in Ops /\ HandlerTyped(h[w])
  BY Worker
<1>2. Changes(h[w].op, "completed") /\ ops'[h[w].op].wrote = Op(w).wrote /\ RowsTyped'
  BY <1>1, StatusSet, "completed" \in Statuses, "completed" \notin InFlight
     DEF AdoptedRows, Op, Statuses, InFlight
<1>3. base'.rev = 1 /\ base'.perms = h[w].ctx.perms /\ base' \in Baseline
  BY <1>1 DEF AdoptedRows, HandlerTyped, Baseline
<1> QED BY <1>2, <1>3

\* Commit completes the row and writes the next baseline.
LEMMA CommitEffect ==
  ASSUME TypeOK, NEW w \in Workers, h[w].pc # "idle", CommittedRows(w)
  PROVE  /\ Changes(h[w].op, "completed") /\ ops'[h[w].op].wrote = TRUE
         /\ base'.rev = base.rev + 1 /\ base'.perms = Op(w).tgt
         /\ base' \in Baseline /\ RowsTyped'
<1> DEFINE new == [Op(w) EXCEPT !.status = "completed", !.wrote = TRUE]
<1>1. h[w].op \in Ops /\ Op(w) \in OpRow /\ RowTyped(Op(w)) /\ ops \in [Ops -> OpRow]
  BY Worker
<1>2. /\ new \in OpRow /\ SamePlan(new, Op(w)) /\ new.status = "completed" /\ new.wrote = TRUE
  BY <1>1, CommitUpdate
<1>3. ops' = [ops EXCEPT ![h[w].op] = new]
  BY DEF CommittedRows
<1> HIDE DEF new
<1>4. /\ ops' \in [Ops -> OpRow] /\ ops'[h[w].op] = new
      /\ \A p \in Ops \ {h[w].op} : ops'[p] = ops[p]
  BY <1>1, <1>2, <1>3, RowSet
<1>5. Changes(h[w].op, "completed") /\ ops'[h[w].op].wrote = TRUE
  BY <1>2, <1>4 DEF Changes, Op
<1>6. RowsTyped'
  BY <1>1, <1>5, ChangesTyped DEF InFlight
<1>7. base'.rev = base.rev + 1 /\ base'.perms = Op(w).tgt /\ base' \in Baseline
  BY <1>1 DEF CommittedRows, RowTyped, Baseline, TypeOK
<1> QED BY <1>5, <1>6, <1>7

-----------------------------------------------------------------------------
(* Requests and answers.                                                   *)

RequestTyped(r) ==
  /\ r.w \in Workers \cup {NoWorker} /\ r.op \in Ops /\ r.ver \in Nat
  /\ r.from \in Snapshots /\ r.to \in Snapshots

\* The fields of a request, each with its type.
LEMMA RequestFields == ASSUME NEW r \in Request PROVE RequestTyped(r)
BY DEF Request, RequestTyped

\* The request w sends with the version and the permissions of its context.
IsRequest(r, w) ==
  /\ r.w = w /\ r.op = h[w].op /\ r.ver = h[w].ctx.ver
  /\ r.from = From(w)

\* A request is sent with the version of the context.
LEMMA SendRequestEffect ==
  ASSUME TypeOK, NEW w \in Workers, h[w].pc # "idle", NEW k \in RequestKinds, SendRequest(w, k)
  PROVE  /\ \E r \in Request : IsRequest(r, w) /\ wire' = wire \cup {r}
         /\ resp' \in [Workers -> Answers] /\ resp'[w] = "none"
         /\ \A v \in Workers \ {w} : resp'[v] = resp[v]
         /\ Now(w, "await", h[w].mode, h[w].ctx, h[w].epoch)
         /\ UNCHANGED <<rows, hasura, caps, depOk, lock, conn, acked, edited, bounds>>
         /\ TypeOK'
<1> DEFINE r == [w |-> w, op |-> h[w].op, kind |-> k, ver |-> RequestVersion(w),
                 from |-> From(w), to |-> To(w)]
<1>1. /\ h[w].op \in Ops /\ RowTyped(Op(w)) /\ HandlerTyped(h[w])
  BY Worker
<1>2. From(w) \in Snapshots /\ To(w) \in Snapshots
  BY <1>1 DEF From, To, RowTyped, HandlerTyped
<1>3. r \in Request /\ IsRequest(r, w)
  BY <1>1, <1>2 DEF Request, IsRequest, RequestVersion, HandlerTyped
<1>4. /\ wire' = wire \cup {r} /\ resp' = [resp EXCEPT ![w] = "none"]
      /\ Goto(w, "await")
      /\ UNCHANGED <<rows, hasura, caps, depOk, lock, conn, acked, edited, bounds>>
  BY DEF SendRequest
<1> HIDE DEF r
<1>5. /\ resp' \in [Workers -> Answers] /\ resp'[w] = "none"
      /\ \A v \in Workers \ {w} : resp'[v] = resp[v]
  BY <1>4 DEF TypeOK, Answers
<1>6. Now(w, "await", h[w].mode, h[w].ctx, h[w].epoch)
  BY <1>4, GotoNow, "await" \in Pcs DEF TypeOK, Pcs
<1>7. WiresTyped'
  BY <1>3, <1>4, <1>5 DEF TypeOK, WiresTyped
<1>8. TypeOK'
  BY <1>4, <1>6, <1>7, NowTyped, SameTyped, TypePartsNext DEF rows, hasura, bounds
<1> QED BY <1>3, <1>4, <1>5, <1>6, <1>8

\* Hasura has taken r, and its answer goes to whoever waits for it.
Answered(r, a) ==
  /\ wire' = wire \ {r} /\ resp' \in [Workers -> Answers]
  /\ r.w \in Workers => resp'[r.w] = a
  /\ \A v \in Workers \ {r.w} : resp'[v] = resp[v]

\* Hasura answers a request, and nothing else changes by that.
LEMMA AnswerEffect ==
  ASSUME TypeOK, NEW r \in wire, NEW a \in Answers, Answer(r, a)
  PROVE  /\ Answered(r, a) /\ WiresTyped'
         /\ UNCHANGED <<rows, caps, depOk, lock, h, conn, acked, edited, bounds>>
<1>1. r \in Request /\ RequestTyped(r)
  BY RequestFields DEF TypeOK
<1>2. NoWorker \notin Workers
  BY PolicyOperationAssumption
<1>3. Answered(r, a)
  BY <1>1, <1>2 DEF Answer, Answered, TypeOK, RequestTyped
<1> QED BY <1>3 DEF Answer, Answered, WiresTyped, TypeOK

\* The requests of w are nobody's now, and nothing else about them has changed.
Orphans(w) ==
  /\ \A r \in wire' : \E s \in wire :
       /\ r.op = s.op /\ r.ver = s.ver /\ r.from = s.from
       /\ r.w = IF s.w = w THEN NoWorker ELSE s.w
       /\ r.w # NoWorker => r = s
  /\ resp' \in [Workers -> Answers] /\ resp'[w] = "none"
  /\ \A v \in Workers \ {w} : resp'[v] = resp[v]

\* The requests of a worker become nobody's.
LEMMA OrphanEffect ==
  ASSUME TypeOK, NEW w \in Workers, wire' = Orphaned(w), resp' = [resp EXCEPT ![w] = "none"]
  PROVE  Orphans(w) /\ WiresTyped'
<1>1. ASSUME NEW s \in wire
      PROVE  LET r == [s EXCEPT !.w = IF s.w = w THEN NoWorker ELSE s.w] IN
             /\ r \in Request /\ r.op = s.op /\ r.ver = s.ver /\ r.from = s.from
             /\ r.w = IF s.w = w THEN NoWorker ELSE s.w
             /\ r.w # NoWorker => r = s
  BY DEF TypeOK, Request
<1>2. \A r \in wire' : r \in Request /\ \E s \in wire :
       /\ r.op = s.op /\ r.ver = s.ver /\ r.from = s.from
       /\ r.w = IF s.w = w THEN NoWorker ELSE s.w
       /\ r.w # NoWorker => r = s
  BY <1>1 DEF Orphaned
<1>3. /\ resp' \in [Workers -> Answers] /\ resp'[w] = "none"
      /\ \A v \in Workers \ {w} : resp'[v] = resp[v]
  BY DEF TypeOK, Answers
<1> QED BY <1>2, <1>3 DEF Orphans, WiresTyped

-----------------------------------------------------------------------------
(* What each action does to types.                                         *)

\* Admission.
LEMMA AdmitEffect ==
  ASSUME TypeOK, NEW w \in Workers, NEW call \in Calls, NEW o \in Ops,
         withProjectDataAccessMutationLock(w, call, o)
  PROVE  /\ Begins(w, call, o)
         /\ UNCHANGED ops \/ Superseded
         /\ TypeOK'
<1>1. Begins(w, call, o)
  BY AdmitNow, PolicyOperationAssumption DEF withProjectDataAccessMutationLock, TypeOK
<1>2. RowsTyped' /\ (UNCHANGED ops \/ Superseded)
  BY SupersedeEffect, SupersededTyped, SameTyped DEF withProjectDataAccessMutationLock, TypeOK
<1>3. HandlersTyped'
  BY <1>1 DEF Begins, Others, HandlersTyped, TypeOK
<1>4. SessionsTyped' /\ BoundsTyped'
  BY PolicyOperationAssumption
     DEF withProjectDataAccessMutationLock, TypeOK, SessionsTyped, BoundsTyped
<1>5. UNCHANGED <<base, hasura, caps, depOk, wire, resp, acked, edited>>
  BY DEF withProjectDataAccessMutationLock
<1> QED BY <1>1, <1>2, <1>3, <1>4, <1>5, SameTyped, TypePartsNext DEF hasura

\* Reading the context, for the first time, again, or to restore.
Reads(w, p, m) ==
  /\ h[w].pc # "idle" /\ p # "idle"
  /\ Now(w, p, m, h'[w].ctx, h[w].epoch)
  /\ h'[w].ctx.perms = perms /\ h'[w].ctx.caps = caps /\ h'[w].ctx.ver = version
  /\ UNCHANGED <<ops, base, perms, version, caps, lock, conn, wire, resp, acked, edited>>

\* Each of the three reads of the context takes what is current.
LEMMA ReadEffect ==
  ASSUME TypeOK, NEW w \in Workers, LoadContext(w) \/ LoadSecond(w) \/ RestoreLoad(w)
  PROVE  /\ LoadContext(w) => Reads(w, "decide", h[w].mode)
         /\ LoadSecond(w) => Reads(w, "begin", h[w].mode)
         /\ RestoreLoad(w) => Reads(w, "restoreBegin", "restore")
         /\ TypeOK'
<1> DEFINE c == [perms |-> perms, caps |-> caps, ver |-> version]
<1>1. c \in Context /\ c.perms = perms /\ c.caps = caps /\ c.ver = version
  BY NewContext DEF TypeOK
<1>2. /\ LoadContext(w) => h' = [h EXCEPT ![w].pc = "decide", ![w].ctx = c]
      /\ LoadSecond(w) => h' = [h EXCEPT ![w].pc = "begin", ![w].ctx = c]
      /\ RestoreLoad(w) => h' = [h EXCEPT ![w].pc = "restoreBegin", ![w].mode = "restore",
                                          ![w].ctx = c]
  BY DEF LoadContext, LoadSecond, RestoreLoad, loadOperationContext
<1> HIDE DEF c
<1>3. h[w].pc # "idle" /\ {"decide", "begin", "restoreBegin"} \subseteq Pcs
  BY DEF LoadContext, LoadSecond, RestoreLoad, At, Pcs
<1>4. /\ LoadContext(w) => Now(w, "decide", h[w].mode, c, h[w].epoch)
      /\ LoadSecond(w) => Now(w, "begin", h[w].mode, c, h[w].epoch)
      /\ RestoreLoad(w) => Now(w, "restoreBegin", "restore", c, h[w].epoch)
  BY <1>1, <1>2, <1>3, LoadNow, RestoreLoadNow DEF TypeOK, Modes
<1>5. UNCHANGED <<rows, hasura, caps, depOk, lock, conn, wire, resp, acked, edited, bounds>>
  BY DEF LoadContext, LoadSecond, RestoreLoad
<1>6. HandlersTyped'
  BY <1>3, <1>4, NowTyped
<1>7. TypeOK'
  BY <1>5, <1>6, SameTyped, TypePartsNext DEF rows, hasura, bounds
<1>8. h'[w].ctx = c
  BY <1>4 DEF Now
<1> QED BY <1>1, <1>3, <1>4, <1>5, <1>7, <1>8 DEF Reads, rows, hasura

\* A new update is stored as a preview, or refused.
LEMMA UpdateNewEffect ==
  ASSUME TypeOK, NEW w \in Workers, UpdateNew(w)
  PROVE  /\ TypeOK'
         /\ \/ Refuse(w)
            \/ \E t \in Policies, p \in {"noop", "load2"} :
                 /\ inspectedManaged(t, h[w].ctx.caps) /\ State(w) = "managed"
                 /\ p = "noop" => base.rev # 0 /\ t = base.perms
                 /\ Creates(w, "update", t) /\ OneActive(h[w].op)
                 /\ Now(w, p, h[w].mode, h[w].ctx, h[w].epoch)
                 /\ UNCHANGED <<lock, conn, acked, Local>>
<1>1. h[w].pc # "idle"
  BY DEF UpdateNew, Deciding, At
<1>2. CASE Refuse(w)
  BY <1>2, RefuseEffect
<1>3. ASSUME NEW t \in Policies, State(w) = "managed", inspectedManaged(t, h[w].ctx.caps),
             createPolicyOperation(w, "update", t), NEW p \in {"noop", "load2"}, Goto(w, p),
             UNCHANGED <<lock, conn, acked, Local>>
      PROVE  /\ TypeOK' /\ Creates(w, "update", t) /\ OneActive(h[w].op)
             /\ Now(w, p, h[w].mode, h[w].ctx, h[w].epoch)
  <2>1. t \in Snapshots /\ "update" \in Kinds /\ p \in Pcs
    BY PolicyOperationAssumption DEF Kinds, Pcs
  <2>2. Creates(w, "update", t) /\ RowsTyped'
    BY <1>1, <1>3, <2>1, CreateEffect
  <2>3. Now(w, p, h[w].mode, h[w].ctx, h[w].epoch)
    BY <1>3, <2>1, GotoNow DEF TypeOK
  <2> QED BY <1>1, <1>3, <2>2, <2>3, NowTyped, SameTyped, TypePartsNext
          DEF Local, hasura, bounds, createPolicyOperation
<1>4. CASE ~Refuse(w)
  <2>1. PICK t \in Policies :
             /\ State(w) = "managed" /\ inspectedManaged(t, h[w].ctx.caps)
             /\ createPolicyOperation(w, "update", t)
             /\ Goto(w, IF base.rev # 0 /\ t = base.perms THEN "noop" ELSE "load2")
             /\ UNCHANGED <<lock, conn, acked, Local>>
    BY <1>4 DEF UpdateNew
  <2>2. PICK p \in {"noop", "load2"} :
          /\ p = IF base.rev # 0 /\ t = base.perms THEN "noop" ELSE "load2"
          /\ p = "noop" => base.rev # 0 /\ t = base.perms
    OBVIOUS
  <2>3. /\ TypeOK' /\ Creates(w, "update", t) /\ OneActive(h[w].op)
        /\ Now(w, p, h[w].mode, h[w].ctx, h[w].epoch)
    BY <1>3, <2>1, <2>2
  <2> QED BY <2>1, <2>2, <2>3
<1> QED BY <1>2, <1>4

Decides(w) == UpdateExisting(w) \/ ApplyReconcile(w) \/ ApplyExtension(w)

\* What the other calls decide: refuse, replay, or go on.
LEMMA DecideEffect ==
  ASSUME TypeOK, NEW w \in Workers, Decides(w)
  PROVE  TypeOK' /\ (Refuse(w) \/ ReplayCompleted(w) \/ Proceed(w, "load2"))
<1>1. h[w].pc # "idle" /\ "load2" \in Pcs
  BY DEF Decides, UpdateExisting, ApplyReconcile, ApplyExtension, Deciding, At, Pcs
<1>2. Refuse(w) \/ ReplayCompleted(w) \/ Proceed(w, "load2")
  BY DEF Decides, UpdateExisting, ApplyReconcile, ApplyExtension
<1> QED BY <1>1, <1>2, RefuseEffect, ReplayEffect, ProceedEffect

\* An update whose target is the baseline completes at once.
LEMMA NoopEffect ==
  ASSUME TypeOK, NEW w \in Workers, CompleteNoop(w)
  PROVE  TypeOK' /\ Closes(w, "completed") /\ acked' = acked \cup {h[w].op}
<1>1. h[w].pc # "idle" /\ "completed" \in Statuses /\ "completed" \notin InFlight
  BY DEF CompleteNoop, At, Statuses, InFlight
<1>2. h[w].op \in Ops
  BY <1>1, Worker
<1>3. Changes(h[w].op, "completed") /\ ops'[h[w].op].wrote = ops[h[w].op].wrote /\ RowsTyped'
  BY <1>1, <1>2, StatusSet DEF CompleteNoop, transitionPolicyOperation, Op
<1>4. Leaves(w) /\ UNCHANGED Local /\ acked' = acked \cup {h[w].op}
  BY ExitLeaves DEF CompleteNoop, TypeOK
<1>5. acked' \subseteq Ops
  BY <1>2, <1>4 DEF TypeOK
<1> QED BY <1>3, <1>4, <1>5, LeavesTyped, SameTyped, TypePartsNext
        DEF Closes, Op, Local, hasura, bounds

\* A preview is planned from a state the platform can read, with a target it can read.
Previewed(w, k) ==
  \E t \in Snapshots :
    /\ Clean(h[w].ctx.perms) /\ Clean(t)
    /\ k = "adoption" => base.rev = 0 /\ t = h[w].ctx.perms
    /\ Preview(w, k, t)
Previewing(w) == PreviewAdoption(w) \/ PreviewReconcile(w) \/ PreviewExtension(w)

\* The three previews store a row, or are refused.
LEMMA PreviewingEffect ==
  ASSUME TypeOK, NEW w \in Workers, Previewing(w)
  PROVE  /\ TypeOK'
         /\ Refuse(w) \/ \E k \in {"adoption", "reconcile", "extension"} : Previewed(w, k)
<1>1. h[w].pc # "idle"
  BY DEF Previewing, PreviewAdoption, PreviewReconcile, PreviewExtension, Deciding, At
<1>2. HandlerTyped(h[w])
  BY <1>1, Worker
<1>3. State(w) # "custom" => Clean(h[w].ctx.perms)
  BY <1>2, ClassifiedClean DEF State, HandlerTyped
<1>4. State(w) = "adoption_required" => base.rev = 0
  BY DEF State, classifyManagedPolicyState
<1>5. Refuse(w) \/ \E k \in {"adoption", "reconcile", "extension"} : Previewed(w, k)
  <2>1. CASE PreviewAdoption(w)
    BY <1>2, <1>3, <1>4, <2>1 DEF PreviewAdoption, Previewed, HandlerTyped
  <2>2. CASE PreviewReconcile(w)
    BY <1>3, <2>2, InspectedClean DEF PreviewReconcile, Previewed
  <2>3. CASE PreviewExtension(w)
    BY <1>3, <2>3, InspectedClean DEF PreviewExtension, Previewed
  <2> QED BY <2>1, <2>2, <2>3 DEF Previewing
<1>6. ASSUME NEW k \in {"adoption", "reconcile", "extension"}, Previewed(w, k) PROVE TypeOK'
  BY <1>1, <1>6, PreviewEffect DEF Previewed, Kinds
<1> QED BY <1>5, <1>6, RefuseEffect

\* The adoption of what the handler read.
Adopts(w) ==
  /\ AdoptionReady(w) /\ Leaves(w)
  /\ Changes(h[w].op, "completed") /\ ops'[h[w].op].wrote = Op(w).wrote
  /\ base'.rev = 1 /\ base'.perms = h[w].ctx.perms
  /\ acked' = acked \cup {h[w].op}
  /\ UNCHANGED <<hasura, caps, depOk, wire, resp, edited, bounds>>

\* An adoption is replayed, applied or refused.
LEMMA ApplyAdoptionEffect ==
  ASSUME TypeOK, NEW w \in Workers, ApplyAdoption(w)
  PROVE  TypeOK' /\ (Refuse(w) \/ ReplayCompleted(w) \/ Adopts(w))
<1>1. h[w].pc # "idle"
  BY DEF ApplyAdoption, Deciding, At
<1>2. CASE Refuse(w) \/ ReplayCompleted(w)
  BY <1>1, <1>2, RefuseEffect, ReplayEffect
<1>3. CASE ~(Refuse(w) \/ ReplayCompleted(w))
  <2>1. /\ AdoptionReady(w) /\ AdoptedRows(w) /\ acked' = acked \cup {h[w].op} /\ Exit(w)
        /\ UNCHANGED <<hasura, caps, depOk, wire, resp, edited, bounds>>
    BY <1>3 DEF ApplyAdoption
  <2>2. Leaves(w)
    BY <2>1, ExitLeaves DEF TypeOK
  <2>3. /\ Changes(h[w].op, "completed") /\ ops'[h[w].op].wrote = Op(w).wrote
        /\ base'.rev = 1 /\ base'.perms = h[w].ctx.perms
        /\ base' \in Baseline /\ RowsTyped'
    BY <1>1, <2>1, AdoptEffect
  <2>4. acked' \subseteq Ops
    BY <1>1, <2>1, Worker DEF TypeOK
  <2>5. WorldTyped'
    BY <2>1, <2>3 DEF TypeOK, WorldTyped, hasura
  <2>6. TypeOK'
    BY <2>1, <2>2, <2>3, <2>4, <2>5, LeavesTyped, SameTyped, TypePartsNext DEF bounds
  <2> QED BY <2>1, <2>2, <2>3, <2>6 DEF Adopts
<1> QED BY <1>2, <1>3

\* An operation is claimed for its writes, failed, or left.
LEMMA BeginApplyEffect ==
  ASSUME TypeOK, NEW w \in Workers, BeginApply(w)
  PROVE  /\ TypeOK'
         /\ \/ Closes(w, "failed") /\ UNCHANGED acked
            \/ Unmoved(w) /\ OneActive(h[w].op) /\ Claim(w, "applying", "apply")
            \/ Refuse(w)
<1>1. h[w].pc # "idle"
  BY DEF BeginApply, At
<1>2. h[w].op \in Ops
  BY <1>1, Worker
<1>3. CASE Refuse(w)
  BY <1>3, RefuseEffect
<1>4. CASE Unmoved(w) /\ OneActive(h[w].op) /\ Claim(w, "applying", "apply")
  BY <1>1, <1>4, ClaimEffect, {"applying"} \subseteq Statuses DEF Statuses, Modes
<1>5. CASE ~Unmoved(w)
  <2>1. /\ ops' = [ops EXCEPT ![h[w].op] = [ops[h[w].op] EXCEPT !.status = "failed"]]
        /\ Exit(w) /\ UNCHANGED <<acked, Local>>
    BY <1>5 DEF BeginApply, transitionPolicyOperation, Op
  <2>2. "failed" \in Statuses /\ "failed" \notin InFlight
    BY DEF Statuses, InFlight
  <2>3. Changes(h[w].op, "failed") /\ ops'[h[w].op].wrote = ops[h[w].op].wrote /\ RowsTyped'
    BY <1>2, <2>1, <2>2, StatusSet
  <2>4. Leaves(w)
    BY <2>1, ExitLeaves DEF TypeOK
  <2> QED BY <2>1, <2>3, <2>4, LeavesTyped, SameTyped, TypePartsNext
          DEF Closes, Op, Local, hasura, bounds
<1> QED BY <1>3, <1>4, <1>5 DEF BeginApply

Admits(w) == isRecoverablePermissionSnapshot(h[w].ctx.perms, Op(w).src, Op(w).tgt)

\* A recovery claims the row of an interrupted operation, or is refused.
LEMMA BeginRecoverEffect ==
  ASSUME TypeOK, NEW w \in Workers, BeginRecover(w)
  PROVE  TypeOK' /\ (Refuse(w) \/ (Admits(w) /\ Claim(w, "recovering", "recover")))
<1>1. h[w].pc # "idle"
  BY DEF BeginRecover, Deciding, At
<1>2. Refuse(w) \/ (Admits(w) /\ Claim(w, "recovering", "recover"))
  BY DEF BeginRecover, Admits
<1>3. "recovering" \in Statuses /\ "recover" \in Modes
  BY DEF Statuses, Modes
<1> QED BY <1>1, <1>2, <1>3, RefuseEffect, ClaimEffect

\* A restore claims the row again before it writes.
LEMMA RestoreBeginEffect ==
  ASSUME TypeOK, NEW w \in Workers, RestoreBegin(w)
  PROVE  /\ TypeOK'
         /\ \/ Admits(w) /\ Op(w).status = "applying" /\ Claim(w, "recovering", "restore")
            \/ Proceed(w, "toRecovery")
<1>1. h[w].pc # "idle"
  BY DEF RestoreBegin, At
<1>2. \/ Admits(w) /\ Op(w).status = "applying" /\ Claim(w, "recovering", "restore")
      \/ Proceed(w, "toRecovery")
  BY DEF RestoreBegin, Admits
<1>3. "recovering" \in Statuses /\ "restore" \in Modes /\ "toRecovery" \in Pcs
  BY DEF Statuses, Modes, Pcs
<1> QED BY <1>1, <1>2, <1>3, ProceedEffect, ClaimEffect

\* The lease is renewed before a write, or the row is left to recovery.
LEMMA RenewEffect ==
  ASSUME TypeOK, NEW w \in Workers, Renew(w)
  PROVE  /\ TypeOK'
         /\ \/ Refuse(w)
            \/ At(w, "renew") /\ Proceed(w, "send")
            \/ At(w, "renewFallback") /\ Proceed(w, "sendFallback")
<1>1. h[w].pc # "idle"
  BY DEF Renew, At
<1>2. \/ Refuse(w)
      \/ At(w, "renew") /\ Proceed(w, "send")
      \/ At(w, "renewFallback") /\ Proceed(w, "sendFallback")
  BY DEF Renew, At
<1>3. "send" \in Pcs /\ "sendFallback" \in Pcs
  BY DEF Pcs
<1> QED BY <1>1, <1>2, <1>3, RefuseEffect, ProceedEffect

\* A write is sent, alone or as the fallback.
LEMMA SendEffect ==
  ASSUME TypeOK, NEW w \in Workers, Send(w) \/ SendFallback(w)
  PROVE  /\ TypeOK'
         /\ At(w, "send") \/ At(w, "sendFallback")
         /\ \/ At(w, "send") /\ h[w].mode # "recover" /\ Proceed(w, "verify")
            \/ \E k \in RequestKinds : SendRequest(w, k)
<1>1. h[w].pc # "idle"
  BY DEF Send, SendFallback, At
<1>2. \/ At(w, "send") /\ h[w].mode # "recover" /\ Proceed(w, "verify")
      \/ \E k \in RequestKinds : SendRequest(w, k)
  <2>1. KindOf(w) \in RequestKinds /\ "bulk" \in RequestKinds
    BY DEF KindOf, RequestKinds
  <2> QED BY <2>1 DEF Send, SendFallback
<1>3. CASE Proceed(w, "verify")
  BY <1>1, <1>2, <1>3, ProceedEffect, "verify" \in Pcs DEF Pcs, Send, SendFallback
<1>4. CASE \E k \in RequestKinds : SendRequest(w, k)
  BY <1>1, <1>2, <1>4, SendRequestEffect DEF Send, SendFallback
<1> QED BY <1>2, <1>3, <1>4 DEF Send, SendFallback

\* Where an answer leads.
LEMMA ReceiveEffect ==
  ASSUME TypeOK, NEW w \in Workers, Receive(w)
  PROVE  /\ TypeOK' /\ resp' \in [Workers -> Answers] /\ resp'[w] = "none"
         /\ \A v \in Workers \ {w} : resp'[v] = resp[v]
         /\ \E p \in Pcs \ {"idle"} :
              /\ Now(w, p, h[w].mode, h[w].ctx, h[w].epoch)
              /\ \/ resp[w] = "ok" /\ p = "verify"
                 \/ resp[w] = "unsupported" /\ p = "renewFallback"
                 \/ resp[w] = "rejected" /\ h[w].mode = "apply" /\ p = "toFailed"
                 \/ p = "toRecovery"
         /\ UNCHANGED <<rows, hasura, caps, depOk, lock, conn, wire, acked, edited, bounds>>
<1> DEFINE p == CASE resp[w] = "ok" -> "verify"
                  [] resp[w] = "unsupported" -> "renewFallback"
                  [] OTHER -> AfterError(w, resp[w])
<1>1. h[w].pc # "idle"
  BY DEF Receive, At
<1>2. /\ p \in Pcs \ {"idle"}
      /\ \/ resp[w] = "ok" /\ p = "verify"
         \/ resp[w] = "unsupported" /\ p = "renewFallback"
         \/ resp[w] = "rejected" /\ h[w].mode = "apply" /\ p = "toFailed"
         \/ p = "toRecovery"
  BY DEF AfterError, Pcs
<1>3. /\ Goto(w, p) /\ resp' = [resp EXCEPT ![w] = "none"]
      /\ UNCHANGED <<rows, hasura, caps, depOk, lock, conn, wire, acked, edited, bounds>>
  BY DEF Receive, Goto
<1> HIDE DEF p
<1>4. Now(w, p, h[w].mode, h[w].ctx, h[w].epoch)
  BY <1>2, <1>3, GotoNow DEF TypeOK
<1>5. /\ resp' \in [Workers -> Answers] /\ resp'[w] = "none"
      /\ \A v \in Workers \ {w} : resp'[v] = resp[v]
  BY <1>3 DEF TypeOK, Answers
<1>6. WiresTyped'
  BY <1>3, <1>5 DEF WiresTyped, TypeOK
<1>7. TypeOK'
  BY <1>1, <1>3, <1>4, <1>6, NowTyped, SameTyped, TypePartsNext DEF rows, hasura, bounds
<1> QED BY <1>2, <1>3, <1>4, <1>5, <1>7

\* What a handler does with what it finds after its write.
LEMMA VerifyEffect ==
  ASSUME TypeOK, NEW w \in Workers, VerifyTarget(w) \/ VerifySource(w)
  PROVE  /\ TypeOK' /\ At(w, "verify")
         /\ \/ h[w].mode = "apply" /\ perms = Op(w).tgt /\ Proceed(w, "commit")
            \/ h[w].mode = "apply" /\ Proceed(w, "restoreLoad")
            \/ /\ h[w].mode \in {"restore", "recover"} /\ perms = Op(w).src
               /\ h[w].mode = "recover" => version > h[w].ctx.ver
               /\ Proceed(w, "settle")
            \/ h[w].mode \in {"restore", "recover"} /\ Proceed(w, "toRecovery")
<1>1. h[w].pc # "idle" /\ At(w, "verify")
  BY DEF VerifyTarget, VerifySource, At
<1>2. \/ h[w].mode = "apply" /\ perms = Op(w).tgt /\ Proceed(w, "commit")
      \/ h[w].mode = "apply" /\ Proceed(w, "restoreLoad")
      \/ /\ h[w].mode \in {"restore", "recover"} /\ perms = Op(w).src
         /\ h[w].mode = "recover" => version > h[w].ctx.ver
         /\ Proceed(w, "settle")
      \/ h[w].mode \in {"restore", "recover"} /\ Proceed(w, "toRecovery")
  BY DEF VerifyTarget, VerifySource, TargetVerified, SourceVerified
<1>3. {"commit", "restoreLoad", "settle", "toRecovery"} \subseteq Pcs
  BY DEF Pcs
<1> QED BY <1>1, <1>2, <1>3, ProceedEffect

\* The commit of the rows of w.
Commits(w) ==
  /\ MayCommit(w)
  /\ Changes(h[w].op, "completed") /\ ops'[h[w].op].wrote = TRUE
  /\ base'.rev = base.rev + 1 /\ base'.perms = Op(w).tgt

\* The commit, known to the handler or lost.
LEMMA CommitsEffect ==
  ASSUME TypeOK, NEW w \in Workers, Commit(w)
  PROVE  /\ TypeOK'
         /\ \/ /\ Commits(w) /\ Leaves(w) /\ acked' = acked \cup {h[w].op}
               /\ UNCHANGED <<hasura, caps, depOk, wire, resp, edited, bounds>>
            \/ Proceed(w, "restoreLoad")
<1>1. h[w].pc # "idle"
  BY DEF Commit, At
<1>2. CASE Proceed(w, "restoreLoad")
  BY <1>1, <1>2, ProceedEffect, "restoreLoad" \in Pcs DEF Pcs
<1>3. CASE ~Proceed(w, "restoreLoad")
  <2>1. /\ MayCommit(w) /\ CommittedRows(w) /\ acked' = acked \cup {h[w].op} /\ Exit(w)
        /\ UNCHANGED <<hasura, caps, depOk, wire, resp, edited, bounds>>
    BY <1>3 DEF Commit
  <2>2. Leaves(w)
    BY <2>1, ExitLeaves DEF TypeOK
  <2>3. /\ Changes(h[w].op, "completed") /\ ops'[h[w].op].wrote = TRUE
        /\ base'.rev = base.rev + 1 /\ base'.perms = Op(w).tgt
        /\ base' \in Baseline /\ RowsTyped'
    BY <1>1, <2>1, CommitEffect
  <2>4. acked' \subseteq Ops
    BY <1>1, <2>1, Worker DEF TypeOK
  <2>5. WorldTyped'
    BY <2>1, <2>3 DEF TypeOK, WorldTyped, hasura
  <2>6. TypeOK'
    BY <2>1, <2>2, <2>3, <2>4, <2>5, LeavesTyped, SameTyped, TypePartsNext DEF bounds
  <2> QED BY <2>1, <2>2, <2>3, <2>6 DEF Commits
<1> QED BY <1>2, <1>3

\* The last status of a handler.
Marks(w) == MarkFailed(w) \/ MarkRecoveryRequired(w) \/ MarkRestored(w)

\* The three last transitions of a handler that does not commit.
LEMMA MarkEffect ==
  ASSUME TypeOK, NEW w \in Workers, Marks(w)
  PROVE  /\ TypeOK' /\ Leaves(w) /\ UNCHANGED <<acked, Local>> /\ conn[w]
         /\ \/ UNCHANGED ops
            \/ At(w, "toFailed") /\ Op(w).status = "applying" /\ Closes(w, "failed")
            \/ /\ At(w, "toRecovery") /\ Op(w).status \in {"applying", "recovering"}
               /\ Closes(w, "recovery_required")
            \/ At(w, "settle") /\ Op(w).status = "recovering" /\ Closes(w, "failed")
<1>1. h[w].pc # "idle" /\ conn[w]
  BY DEF Marks, MarkFailed, MarkRecoveryRequired, MarkRestored, At
<1>2. /\ {"applying"} \in SUBSET InFlight /\ {"recovering"} \in SUBSET InFlight
      /\ {"applying", "recovering"} \in SUBSET InFlight
      /\ "failed" \in Statuses /\ "recovery_required" \in Statuses
  BY DEF InFlight, Statuses
<1>3. CASE MarkFailed(w)
  BY <1>1, <1>2, <1>3, CloseEffect DEF MarkFailed
<1>4. CASE MarkRestored(w)
  BY <1>1, <1>2, <1>4, CloseEffect DEF MarkRestored
<1>5. CASE MarkRecoveryRequired(w)
  <2>1. PICK E \in {{"applying"}, {"recovering"}, {"applying", "recovering"}} :
          Close(w, E, "recovery_required")
    BY <1>5 DEF MarkRecoveryRequired
  <2>2. /\ TypeOK' /\ Leaves(w) /\ UNCHANGED <<acked, Local>>
        /\ Op(w).status \in E => Closes(w, "recovery_required")
        /\ Op(w).status \notin E => UNCHANGED ops
    BY <1>1, <1>2, <2>1, CloseEffect
  <2>3. At(w, "toRecovery") /\ E \subseteq {"applying", "recovering"}
    BY <1>5 DEF MarkRecoveryRequired
  <2> QED BY <1>1, <2>2, <2>3
<1> QED BY <1>3, <1>4, <1>5 DEF Marks

\* Hasura takes a request: with its version, or not at all.
Taken(r) ==
  /\ r \in wire /\ RequestTyped(r)
  /\ wire' = wire \ {r} /\ resp' \in [Workers -> Answers]
  /\ \A v \in Workers \ {r.w} : resp'[v] = resp[v]
  /\ UNCHANGED <<rows, caps, depOk, lock, h, conn, acked, edited, bounds>>
Declined(r) ==
  /\ Taken(r) /\ UNCHANGED hasura
  /\ r.w \in Workers => resp'[r.w] # "none"
Performed(r) ==
  /\ Taken(r) /\ r.ver \in {0, version} /\ version' = version + 1
  /\ perms' \in Snapshots
  /\ r.w \in Workers => resp'[r.w] \in {"ok", "uncertain"}

\* Hasura refuses a request, or performs a part of it on its own version.
LEMMA HasuraEffect ==
  ASSUME TypeOK, NEW r \in wire,
         \/ HasuraRejects(r) \/ HasuraUnsupported(r) \/ HasuraApplies(r) \/ HasuraStopsMidway(r)
  PROVE  TypeOK' /\ (Declined(r) \/ Performed(r))
<1>1. r \in Request /\ RequestTyped(r)
  BY RequestFields DEF TypeOK
<1>2. \A s, t \in Snapshots : CommandPrefixes(s, t) \subseteq Snapshots
  BY PrefixClean
<1>3. CASE HasuraRejects(r) \/ HasuraUnsupported(r)
  <2>1. PICK a \in Answers \ {"none"} : Answer(r, a)
    BY <1>3 DEF HasuraRejects, HasuraUnsupported, Answers
  <2>2. /\ Answered(r, a) /\ WiresTyped'
        /\ UNCHANGED <<rows, caps, depOk, lock, h, conn, acked, edited, bounds>>
    BY <2>1, AnswerEffect
  <2>3. UNCHANGED hasura
    BY <1>3 DEF HasuraRejects, HasuraUnsupported
  <2>4. TypeOK'
    BY <2>2, <2>3, SameTyped, TypePartsNext DEF rows, hasura, bounds
  <2> QED BY <1>1, <2>2, <2>3, <2>4 DEF Declined, Taken, Answered
<1>4. CASE HasuraApplies(r) \/ HasuraStopsMidway(r)
  <2>1. PICK a \in {"ok", "uncertain"} : Answer(r, a)
    BY <1>4 DEF HasuraApplies, HasuraStopsMidway
  <2>2. /\ Answered(r, a) /\ WiresTyped'
        /\ UNCHANGED <<rows, caps, depOk, lock, h, conn, acked, edited, bounds>>
    BY <2>1, AnswerEffect DEF Answers
  <2>3. r.ver \in {0, version} /\ version' = version + 1
    BY <1>4 DEF HasuraApplies, HasuraStopsMidway
  <2>4. perms' \in Snapshots
    BY <1>1, <1>2, <1>4 DEF HasuraApplies, HasuraStopsMidway, RequestTyped, TypeOK
  <2>5. WorldTyped'
    BY <2>2, <2>3, <2>4 DEF TypeOK, WorldTyped, rows
  <2>6. TypeOK'
    BY <2>2, <2>5, SameTyped, TypePartsNext DEF rows, bounds
  <2> QED BY <1>1, <2>2, <2>3, <2>4, <2>6 DEF Performed, Taken, Answered
<1> QED BY <1>3, <1>4

\* The bound on faults keeps its type.
LEMMA FaultTyped ==
  ASSUME TypeOK, faults < MaxFaults, faults' = faults + 1, UNCHANGED <<requests, outside>>
  PROVE  BoundsTyped'
BY PolicyOperationAssumption DEF TypeOK, BoundsTyped

\* A request that runs out of time is nobody's, and its handler goes on.
LEMMA TimeoutEffect ==
  ASSUME TypeOK, NEW w \in Workers, Timeout(w)
  PROVE  /\ TypeOK' /\ At(w, "await") /\ Orphans(w)
         /\ Now(w, "toRecovery", h[w].mode, h[w].ctx, h[w].epoch)
         /\ UNCHANGED <<rows, hasura, caps, depOk, lock, conn, acked, edited>>
<1>1. h[w].pc # "idle" /\ At(w, "await")
  BY DEF Timeout, At
<1>2. Goto(w, "toRecovery")
  BY DEF Timeout, AfterError
<1>3. Now(w, "toRecovery", h[w].mode, h[w].ctx, h[w].epoch)
  BY <1>2, GotoNow, "toRecovery" \in Pcs DEF Pcs, TypeOK
<1>4. Orphans(w) /\ WiresTyped'
  BY OrphanEffect DEF Timeout
<1>5. UNCHANGED <<rows, hasura, caps, depOk, lock, conn, acked, edited>>
  BY DEF Timeout
<1>6. BoundsTyped'
  BY FaultTyped DEF Timeout
<1>7. TypeOK'
  BY <1>1, <1>3, <1>4, <1>5, <1>6, NowTyped, SameTyped, TypePartsNext DEF rows, hasura
<1> QED BY <1>1, <1>3, <1>4, <1>5, <1>7

\* A crash drops the handler, its session and its requests' owner.
LEMMA CrashEffect ==
  ASSUME TypeOK, NEW w \in Workers, Crash(w)
  PROVE  /\ TypeOK' /\ h[w].pc # "idle" /\ Orphans(w) /\ Leaves(w)
         /\ UNCHANGED <<rows, hasura, caps, depOk, acked, edited>>
<1>1. h[w].pc # "idle" /\ UNCHANGED <<rows, hasura, caps, depOk, acked, edited>>
  BY DEF Crash, At
<1>2. Leaves(w)
  BY ExitLeaves DEF Crash, TypeOK
<1>3. Orphans(w) /\ WiresTyped'
  BY OrphanEffect DEF Crash
<1>4. BoundsTyped'
  BY FaultTyped DEF Crash, Fault
<1>5. TypeOK'
  BY <1>1, <1>2, <1>3, <1>4, LeavesTyped, SameTyped, TypePartsNext DEF rows, hasura
<1> QED BY <1>1, <1>2, <1>3, <1>5

\* A lost session takes the lock.
LEMMA DropEffect ==
  ASSUME TypeOK, NEW w \in Workers, DropSession(w)
  PROVE  /\ TypeOK' /\ h[w].pc # "idle" /\ conn'[w] = FALSE
         /\ \A v \in Workers \ {w} : conn'[v] = conn[v]
         /\ lock' = IF lock = w THEN NoWorker ELSE lock
         /\ UNCHANGED <<rows, hasura, caps, depOk, h, wire, resp, acked, edited>>
<1>1. /\ h[w].pc # "idle" /\ conn'[w] = FALSE
      /\ \A v \in Workers \ {w} : conn'[v] = conn[v]
      /\ lock' = IF lock = w THEN NoWorker ELSE lock
      /\ UNCHANGED <<rows, hasura, caps, depOk, h, wire, resp, acked, edited>>
  BY DEF DropSession, At, TypeOK
<1>2. SessionsTyped'
  BY DEF DropSession, TypeOK, SessionsTyped
<1>3. BoundsTyped'
  BY FaultTyped DEF DropSession, Fault
<1>4. TypeOK'
  BY <1>1, <1>2, <1>3, SameTyped, TypePartsNext DEF rows, hasura
<1> QED BY <1>1, <1>4

\* A failed export ends or diverts the handler.
LEMMA ExportEffect ==
  ASSUME TypeOK, NEW w \in Workers, ExportFails(w)
  PROVE  /\ TypeOK'
         /\ UNCHANGED <<rows, hasura, caps, depOk, wire, resp, acked, edited>>
         /\ \/ (At(w, "load") \/ At(w, "load2")) /\ Leaves(w)
            \/ /\ UNCHANGED <<lock, conn>>
               /\ \/ /\ At(w, "verify") /\ h[w].mode = "apply"
                     /\ Now(w, "restoreLoad", "apply", h[w].ctx, h[w].epoch)
                  \/ /\ At(w, "verify") /\ h[w].mode # "apply"
                     /\ Now(w, "toRecovery", h[w].mode, h[w].ctx, h[w].epoch)
                  \/ /\ At(w, "restoreLoad")
                     /\ Now(w, "toRecovery", "restore", h[w].ctx, h[w].epoch)
<1>1. UNCHANGED <<rows, hasura, caps, depOk, wire, resp, acked, edited>>
  BY DEF ExportFails
<1>2. BoundsTyped'
  BY FaultTyped DEF ExportFails, Fault
<1>3. CASE (At(w, "load") \/ At(w, "load2")) /\ Exit(w)
  <2>1. Leaves(w)
    BY <1>3, ExitLeaves DEF TypeOK
  <2> QED BY <1>1, <1>2, <1>3, <2>1, LeavesTyped, SameTyped, TypePartsNext DEF rows, hasura
<1>4. CASE ~((At(w, "load") \/ At(w, "load2")) /\ Exit(w))
  <2> DEFINE p == IF h[w].mode = "apply" /\ At(w, "verify") THEN "restoreLoad" ELSE "toRecovery"
             m == IF At(w, "restoreLoad") THEN "restore" ELSE h[w].mode
  <2>1. /\ At(w, "verify") \/ At(w, "restoreLoad")
        /\ h' = [h EXCEPT ![w].pc = p, ![w].mode = m]
        /\ UNCHANGED <<lock, conn>>
    BY <1>4 DEF ExportFails
  <2>2. h[w].pc # "idle"
    BY <2>1 DEF At
  <2>3. p \in Pcs /\ m \in Modes
    BY <2>2, Worker DEF Pcs, Modes, HandlerTyped
  <2>4. /\ At(w, "verify") /\ h[w].mode = "apply" => p = "restoreLoad" /\ m = "apply"
        /\ At(w, "verify") /\ h[w].mode # "apply" => p = "toRecovery" /\ m = h[w].mode
        /\ At(w, "restoreLoad") => p = "toRecovery" /\ m = "restore"
    BY DEF At
  <2> HIDE DEF p, m
  <2>5. Now(w, p, m, h[w].ctx, h[w].epoch)
    BY <2>1, <2>3, ExportNow DEF TypeOK
  <2>6. TypeOK'
    BY <1>1, <1>2, <2>1, <2>2, <2>5, NowTyped, SameTyped, TypePartsNext DEF rows, hasura
  <2> QED BY <1>1, <2>1, <2>4, <2>5, <2>6
<1> QED BY <1>3, <1>4

\* The session dies under a COMMIT, which took effect or did not.
LEMMA CommitLostEffect ==
  ASSUME TypeOK, NEW w \in Workers, CommitLost(w)
  PROVE  /\ TypeOK' /\ conn[w] /\ lock' = NoWorker
         /\ \A v \in Workers \ {w} : conn'[v] = conn[v]
         /\ UNCHANGED <<hasura, caps, depOk, wire, resp, acked, edited>>
         /\ \/ /\ At(w, "commit") /\ conn'[w] = FALSE
               /\ Now(w, "confirm", h[w].mode, h[w].ctx, h[w].epoch)
               /\ Commits(w) \/ UNCHANGED rows
            \/ /\ Deciding(w, "applyAdoption") /\ AdoptionReady(w) /\ conn'[w] = TRUE
               /\ h' \in [Workers -> Handler] /\ h'[w] = Idle /\ Others(w)
               /\ \/ /\ Changes(h[w].op, "completed") /\ ops'[h[w].op].wrote = Op(w).wrote
                     /\ base'.rev = 1 /\ base'.perms = h[w].ctx.perms
                  \/ UNCHANGED rows
<1>1. /\ h[w].pc # "idle" /\ conn[w] /\ lock' = NoWorker
      /\ UNCHANGED <<hasura, caps, depOk, wire, resp, acked, edited>>
  BY DEF CommitLost, At, Deciding
<1>2. BoundsTyped'
  BY FaultTyped DEF CommitLost
<1>3. conn' = [conn EXCEPT ![w] = (h'[w] = Idle)]
  BY DEF CommitLost
<1>4. SessionsTyped' /\ (\A v \in Workers \ {w} : conn'[v] = conn[v])
      /\ (conn'[w] <=> h'[w] = Idle) /\ conn'[w] \in BOOLEAN
  BY <1>1, <1>3 DEF TypeOK, SessionsTyped
<1>5. CASE At(w, "commit")
  <2>1. /\ MayCommit(w) /\ Goto(w, "confirm")
        /\ CommittedRows(w) \/ UNCHANGED rows
    BY <1>5 DEF CommitLost, At, Deciding
  <2>2. Now(w, "confirm", h[w].mode, h[w].ctx, h[w].epoch)
    BY <2>1, GotoNow, "confirm" \in Pcs DEF TypeOK, Pcs
  <2>3. conn'[w] = FALSE
    BY <1>4, <2>2, IdleTyped DEF Now
  <2>4. CommittedRows(w) => Commits(w) /\ RowsTyped' /\ base' \in Baseline
    BY <1>1, <2>1, CommitEffect DEF Commits
  <2>5. RowsTyped' /\ WorldTyped'
    BY <1>1, <2>1, <2>4 DEF TypeOK, RowsTyped, WorldTyped, rows, hasura
  <2>6. TypeOK'
    BY <1>1, <1>2, <1>4, <2>2, <2>5, NowTyped, SameTyped, TypePartsNext
  <2> QED BY <1>1, <1>4, <1>5, <2>1, <2>2, <2>3, <2>4, <2>6
<1>6. CASE ~At(w, "commit")
  <2>1. /\ Deciding(w, "applyAdoption") /\ AdoptionReady(w)
        /\ AdoptedRows(w) \/ UNCHANGED rows
        /\ h' = [h EXCEPT ![w] = Idle]
    BY <1>6 DEF CommitLost
  <2>2. h' \in [Workers -> Handler] /\ h'[w] = Idle /\ Others(w)
    BY <2>1, IdleTyped DEF TypeOK, Others
  <2>3. AdoptedRows(w) => /\ Changes(h[w].op, "completed") /\ ops'[h[w].op].wrote = Op(w).wrote
                          /\ base'.rev = 1 /\ base'.perms = h[w].ctx.perms
                          /\ base' \in Baseline /\ RowsTyped'
    BY <1>1, AdoptEffect
  <2>4. RowsTyped' /\ WorldTyped'
    BY <1>1, <2>1, <2>3 DEF TypeOK, RowsTyped, WorldTyped, rows, hasura
  <2>5. HandlersTyped'
    BY <2>2, IdleTyped DEF HandlersTyped, Others, TypeOK
  <2>6. TypeOK'
    BY <1>1, <1>2, <1>4, <2>4, <2>5, SameTyped, TypePartsNext
  <2> QED BY <1>1, <1>4, <2>1, <2>2, <2>3, <2>6
<1> QED BY <1>5, <1>6

\* The bound on outside changes keeps its type.
LEMMA OutsideTyped == ASSUME TypeOK, Outside, UNCHANGED <<requests, faults>> PROVE BoundsTyped'
BY PolicyOperationAssumption DEF TypeOK, BoundsTyped, Outside

\* A lease of an operation in flight ages.
LEMMA LeaseEffect ==
  ASSUME TypeOK, NEW o \in Ops, LeaseAges(o)
  PROVE  /\ TypeOK' /\ Changes(o, ops[o].status) /\ ops'[o].wrote = ops[o].wrote
         /\ UNCHANGED <<base, hasura, caps, depOk, lock, h, conn, wire, resp, acked, edited>>
<1> DEFINE l == IF ops[o].lease = "live" THEN "expired" ELSE "drained"
           new == [ops[o] EXCEPT !.lease = l]
<1>1. l \in Leases /\ l # "none" /\ ops[o] \in OpRow /\ ops \in [Ops -> OpRow]
  BY DEF Leases, TypeOK
<1>2. ops' = [ops EXCEPT ![o] = new]
  BY DEF LeaseAges
<1> HIDE DEF l
<1>3. /\ new \in OpRow /\ SamePlan(new, ops[o]) /\ new.status = ops[o].status
      /\ new.wrote = ops[o].wrote /\ new.epoch = ops[o].epoch /\ new.lease = l
  BY <1>1, LeaseUpdate
<1> HIDE DEF new
<1>4. /\ ops' \in [Ops -> OpRow] /\ ops'[o] = new /\ \A p \in Ops \ {o} : ops'[p] = ops[p]
  BY <1>1, <1>2, <1>3, RowSet
<1>5. Changes(o, ops[o].status) /\ ops'[o].wrote = ops[o].wrote
  BY <1>3, <1>4 DEF Changes
<1>6. RowsTyped'
  BY <1>1, <1>3, <1>4, <1>5, ChangesTyped DEF TypeOK
<1>7. UNCHANGED <<base, hasura, caps, depOk, lock, h, conn, wire, resp, acked, edited, bounds>>
  BY DEF LeaseAges
<1>8. TypeOK'
  BY <1>6, <1>7, SameTyped, TypePartsNext DEF hasura, bounds
<1> QED BY <1>5, <1>7, <1>8

\* Metadata changes that are nobody's here, with the permissions of the table or without.
MetadataChange == OtherMetadataChange \/ ConsoleEdit

\* A change of the metadata from outside moves the version.
LEMMA MetadataEffect ==
  ASSUME TypeOK, MetadataChange
  PROVE  /\ TypeOK' /\ version' = version + 1
         /\ ConsoleEdit => edited' = TRUE
         /\ OtherMetadataChange => UNCHANGED <<perms, edited>>
         /\ UNCHANGED <<rows, caps, depOk, lock, h, conn, wire, resp, acked>>
<1>1. /\ version' = version + 1 /\ (ConsoleEdit => edited' = TRUE)
      /\ OtherMetadataChange => UNCHANGED <<perms, edited>>
      /\ UNCHANGED <<rows, caps, depOk, lock, h, conn, wire, resp, acked>>
      /\ Outside /\ UNCHANGED <<requests, faults>>
  BY DEF MetadataChange, OtherMetadataChange, ConsoleEdit
<1>2. perms' \in Snapshots /\ edited' \in BOOLEAN
  BY DEF MetadataChange, OtherMetadataChange, ConsoleEdit, TypeOK, Snapshots, Rules
<1>3. WorldTyped'
  BY <1>1, <1>2 DEF WorldTyped, TypeOK, rows
<1>4. TypeOK'
  BY <1>1, <1>3, OutsideTyped, SameTyped, TypePartsNext DEF rows
<1> QED BY <1>1, <1>4

\* Another call of the platform supersedes previews and alters columns.
LEMMA OrdinaryEffect ==
  ASSUME TypeOK, OrdinaryMutation
  PROVE  /\ TypeOK' /\ Superseded /\ lock = NoWorker
         /\ \A o \in Ops : ops[o].status \notin InFlight
         /\ UNCHANGED <<base, hasura, depOk, lock, h, conn, wire, resp, acked, edited>>
<1>1. /\ Superseded /\ lock = NoWorker /\ caps' \in Caps
      /\ UNCHANGED <<base, hasura, depOk, lock, h, conn, wire, resp, acked, edited>>
      /\ UNCHANGED <<requests, faults>> /\ Outside
  BY SupersedeEffect DEF OrdinaryMutation, TypeOK
<1>2. \A o \in Ops : ops[o].status \notin InFlight
  BY PolicyOperationAssumption DEF OrdinaryMutation, hasPersistedDataAccessBlock
<1>3. WorldTyped'
  BY <1>1 DEF WorldTyped, TypeOK, hasura
<1>4. TypeOK'
  BY <1>1, <1>3, SupersededTyped, OutsideTyped, SameTyped, TypePartsNext
<1> QED BY <1>1, <1>2, <1>4

\* A projection dependency changes.
LEMMA DependencyEffect ==
  ASSUME TypeOK, DependencyChange
  PROVE  /\ TypeOK'
         /\ UNCHANGED <<rows, hasura, caps, lock, h, conn, wire, resp, acked, edited>>
<1>1. /\ UNCHANGED <<rows, hasura, caps, lock, h, conn, wire, resp, acked, edited>>
      /\ UNCHANGED <<requests, faults>> /\ Outside /\ depOk' \in BOOLEAN
  BY DEF DependencyChange
<1>2. WorldTyped'
  BY <1>1 DEF WorldTyped, TypeOK, rows, hasura
<1> QED BY <1>1, <1>2, OutsideTyped, SameTyped, TypePartsNext DEF rows, hasura

-----------------------------------------------------------------------------
(* The steps of a handler, grouped by what they do.                        *)

\* The steps of the model, by the lemma that describes each.
LEMMA StepCases ==
  ASSUME [Next]_vars
  PROVE  \/ \E w \in Workers :
              \/ \E call \in Calls, o \in Ops : withProjectDataAccessMutationLock(w, call, o)
              \/ LoadContext(w) \/ LoadSecond(w) \/ RestoreLoad(w)
              \/ UpdateNew(w) \/ Decides(w) \/ CompleteNoop(w) \/ Previewing(w)
              \/ ApplyAdoption(w) \/ BeginRecover(w) \/ BeginApply(w) \/ RestoreBegin(w)
              \/ Renew(w) \/ (Send(w) \/ SendFallback(w)) \/ Receive(w)
              \/ (VerifyTarget(w) \/ VerifySource(w)) \/ Commit(w) \/ ConfirmCommit(w)
              \/ Marks(w) \/ DeadSession(w)
              \/ Timeout(w) \/ CommitLost(w) \/ DropSession(w) \/ Crash(w) \/ ExportFails(w)
         \/ \E r \in wire : \/ HasuraRejects(r) \/ HasuraUnsupported(r)
                           \/ HasuraApplies(r) \/ HasuraStopsMidway(r)
         \/ \E o \in Ops : LeaseAges(o)
         \/ MetadataChange \/ OrdinaryMutation \/ DependencyChange
         \/ UNCHANGED vars
BY DEF Next, HandlerStep, Body, Write, FaultStep, HasuraStep, Environment, Decides, Previewing,
       Marks, MetadataChange

\* Every step keeps the types.
LEMMA TypeOKStep == ASSUME TypeOK, [Next]_vars PROVE TypeOK'
<1>1. ASSUME NEW w \in Workers, NEW call \in Calls, NEW o \in Ops,
             withProjectDataAccessMutationLock(w, call, o)
      PROVE  TypeOK'
  BY <1>1, AdmitEffect
<1>2. ASSUME NEW w \in Workers, LoadContext(w) \/ LoadSecond(w) \/ RestoreLoad(w) PROVE TypeOK'
  BY <1>2, ReadEffect
<1>3. ASSUME NEW w \in Workers,
             UpdateNew(w) \/ Decides(w) \/ CompleteNoop(w) \/ Previewing(w) \/ ApplyAdoption(w)
      PROVE  TypeOK'
  BY <1>3, UpdateNewEffect, DecideEffect, NoopEffect, PreviewingEffect, ApplyAdoptionEffect
<1>4. ASSUME NEW w \in Workers,
             BeginRecover(w) \/ BeginApply(w) \/ RestoreBegin(w) \/ Renew(w)
      PROVE  TypeOK'
  BY <1>4, BeginRecoverEffect, BeginApplyEffect, RestoreBeginEffect, RenewEffect
<1>5. ASSUME NEW w \in Workers, (Send(w) \/ SendFallback(w)) \/ Receive(w)
                                \/ (VerifyTarget(w) \/ VerifySource(w))
      PROVE  TypeOK'
  BY <1>5, SendEffect, ReceiveEffect, VerifyEffect
<1>6. ASSUME NEW w \in Workers, Commit(w) \/ ConfirmCommit(w) \/ Marks(w) \/ DeadSession(w)
      PROVE  TypeOK'
  <2>1. DeadSession(w) => Refuse(w)
    BY DEF DeadSession
  <2>2. ConfirmCommit(w) => h[w].pc # "idle"
    BY DEF ConfirmCommit, At
  <2> QED BY <1>6, <2>1, <2>2, CommitsEffect, ReplayEffect, MarkEffect, RefuseEffect
<1>7. ASSUME NEW w \in Workers,
             Timeout(w) \/ CommitLost(w) \/ DropSession(w) \/ Crash(w) \/ ExportFails(w)
      PROVE  TypeOK'
  BY <1>7, TimeoutEffect, CommitLostEffect, DropEffect, CrashEffect, ExportEffect
<1>8. ASSUME NEW r \in wire, \/ HasuraRejects(r) \/ HasuraUnsupported(r)
                             \/ HasuraApplies(r) \/ HasuraStopsMidway(r)
      PROVE  TypeOK'
  BY <1>8, HasuraEffect
<1>9. ASSUME \/ \E o \in Ops : LeaseAges(o)
             \/ MetadataChange \/ OrdinaryMutation \/ DependencyChange
      PROVE  TypeOK'
  BY <1>9, LeaseEffect, MetadataEffect, OrdinaryEffect, DependencyEffect
<1>10. ASSUME UNCHANGED vars PROVE TypeOK'
  BY <1>10, SameTyped, TypePartsNext DEF vars
<1> QED BY <1>1, <1>2, <1>3, <1>4, <1>5, <1>6, <1>7, <1>8, <1>9, <1>10, StepCases

\* The types hold initially.
LEMMA TypeOKInit == ASSUME Init PROVE TypeOK
<1>1. NoOp \in OpRow /\ NoOp.status = "absent"
  BY NoOpTyped DEF NoOp
<1>2. RowsTyped
  BY <1>1 DEF Init, RowsTyped, InFlight
<1>3. HandlersTyped
  BY IdleTyped DEF Init, HandlersTyped
<1>4. SessionsTyped /\ WiresTyped
  BY DEF Init, SessionsTyped, WiresTyped, Answers
<1>5. WorldTyped
  <2>1. perms \in Snapshots /\ "full" \in Caps
    BY PolicyOperationAssumption DEF Init, Caps
  <2>2. PICK r \in {0, 1}, v \in {1, 2} : base = [rev |-> r, perms |-> perms, caps |-> "full", pv |-> v]
    BY DEF Init
  <2>3. base \in Baseline
    BY <2>1, <2>2 DEF Baseline
  <2> QED BY <2>1, <2>3 DEF Init, WorldTyped
<1>6. BoundsTyped /\ acked \subseteq Ops
  BY PolicyOperationAssumption DEF Init, BoundsTyped
<1> QED BY <1>2, <1>3, <1>4, <1>5, <1>6, TypeParts

-----------------------------------------------------------------------------
(* The inductive invariant of the records.                                 *)

Sending == {"renew", "send", "await", "renewFallback", "sendFallback"}
Unread == {"idle", "load"}
Planning == {"idle", "load", "decide", "noop", "load2", "begin"}
Applying == Sending \cup {"verify", "commit", "confirm", "restoreLoad", "toFailed", "toRecovery"}
Restoring == Sending \cup {"restoreBegin", "verify", "settle", "toRecovery"}
Recovering == Sending \cup {"verify", "settle", "toRecovery"}

\* What rows say of themselves: they plan and replace rules the platform made, and
\* what has written has completed; an adoption was planned for a table without a row.
RowSound(row) ==
  /\ Clean(row.src) /\ Clean(row.tgt)
  /\ row.wrote => row.status = "completed"
  /\ row.kind = "adoption" => row.baseRev = 0

RowsSound ==
  /\ \A o \in Ops : RowSound(ops[o])
  /\ IsFiniteSet(Tracked)
  /\ OneRevisionPerOperation /\ AckedIsCompleted /\ ColumnsFrozenInFlight

\* The lock is held by the handler whose session lives.
SessionAt(w) ==
  /\ lock = w <=> conn[w] /\ h[w].pc # "idle"
  /\ h[w].pc = "idle" => conn[w]
  /\ h[w].pc = "confirm" => ~conn[w]

\* Where a handler can be in each mode.
PlacedAt(w) ==
  /\ h[w].mode = "none" => h[w].pc \in Planning
  /\ h[w].mode = "apply" => h[w].pc \in Applying
  /\ h[w].mode = "restore" => h[w].pc \in Restoring
  /\ h[w].mode = "recover" => h[w].pc \in Recovering

\* A handler that will write, its session alive or not, drops rules the platform made.
SenderAt(w) ==
  h[w].mode # "none" =>
    /\ Op(w).status # "absent"
    /\ h[w].pc \in Sending => /\ Clean(h[w].ctx.perms)
                              /\ h[w].mode = "apply" => h[w].ctx.perms = Op(w).src

\* What a handler has read was current at the version it has read with it.
VersionAt(w) ==
  /\ h[w].ctx.ver <= version
  /\ h[w].ctx.ver = version => h[w].ctx.perms = perms
  /\ h[w].pc \notin Unread => h[w].ctx.ver > 0

\* The state of the row of a holder of the lock that has not claimed it.
PlansAt(w) ==
  /\ h[w].pc \in {"load", "decide"} =>
       /\ h[w].call \in Previews => Op(w).status = "absent"
       /\ h[w].call = "applyAdoption" => Op(w).kind = "adoption"
       /\ h[w].call = "applyReconcile" /\ ~ReplayReconcile
            => Op(w).status \in {"preview_ready", "completed"}
       /\ h[w].call = "recover" => Op(w).status \in InFlight
  /\ h[w].pc = "noop" => Op(w).kind = "update" /\ Op(w).status = "preview_ready"
  /\ h[w].pc \in {"load2", "begin"} =>
       /\ Op(w).status # "completed"
       /\ ~ReplayReconcile => Op(w).status = "preview_ready"

\* What the holder of the lock can rely on: no other operation is in flight, the row
\* is as its handler left it, the columns are as the handler read them.
HeldAt(w) ==
  /\ \A o \in Ops \ {h[w].op} : ops[o].status \notin InFlight
  /\ h[w].pc \notin Unread => h[w].ctx.caps = caps
  /\ h[w].mode = "none" => PlansAt(w)
  /\ h[w].mode = "apply" => Op(w).status = "applying"
  /\ h[w].mode = "recover" => Op(w).status = "recovering"
  /\ h[w].mode = "restore" =>
       \/ Op(w).status = "recovering"
       \/ h[w].pc \in {"restoreBegin", "toRecovery"} /\ Op(w).status = "applying"

HandlersSound ==
  \A w \in Workers : /\ SessionAt(w) /\ PlacedAt(w) /\ SenderAt(w) /\ VersionAt(w)
                     /\ lock = w => HeldAt(w)

\* A request that is current drops what the metadata hold.
RequestsSound ==
  \A r \in wire : /\ 0 < r.ver /\ r.ver <= version /\ Clean(r.from)
                  /\ r.ver = version => r.from = perms

RecordsInv == TypeOK /\ version > 0 /\ RowsSound /\ HandlersSound /\ RequestsSound

-----------------------------------------------------------------------------
(* What the rows go through.                                               *)

\* The plan of a row that exists, its existence included, stays.
SourcesKept ==
  \A p \in Ops : ops[p].status # "absent" => ops'[p].status # "absent" /\ ops'[p].src = ops[p].src

\* A changed row keeps its source.
LEMMA ChangesSources ==
  ASSUME NEW o \in Ops, NEW s, Changes(o, s), s # "absent" PROVE SourcesKept
BY DEF Changes, SamePlan, SourcesKept

\* Superseding keeps the sources.
LEMMA SupersededSources == ASSUME Superseded PROVE SourcesKept
BY DEF Superseded, SamePlan, SourcesKept

\* Unchanged rows keep their sources.
LEMMA SameSources == ASSUME UNCHANGED ops PROVE SourcesKept
BY DEF SourcesKept

\* The revision counts the operations that wrote, when the same ones have.
LEMMA SameCount ==
  ASSUME RowsSound, Tracked' = Tracked, base'.rev = base.rev
  PROVE  IsFiniteSet(Tracked)' /\ OneRevisionPerOperation'
BY DEF RowsSound, OneRevisionPerOperation, Tracked

\* Rows that do not change stay sound.
LEMMA RowsKept ==
  ASSUME RowsSound, UNCHANGED <<ops, base, caps>>,
         \A o \in acked' : ops[o].status = "completed"
  PROVE  RowsSound'
<1>1. Tracked' = Tracked
  BY DEF Tracked
<1> QED BY <1>1, SameCount DEF RowsSound, RowSound, AckedIsCompleted, ColumnsFrozenInFlight

\* A row that has not completed, and does not, moves on.
LEMMA RowsMoved ==
  ASSUME RowsSound, acked \subseteq Ops, NEW o \in Ops, NEW s, Changes(o, s),
         ops'[o].wrote = ops[o].wrote,
         s # "completed", ops[o].status # "completed", UNCHANGED <<base, caps, acked>>,
         s \in InFlight => ops[o].status \in InFlight \/ ops[o].caps = caps
  PROVE  RowsSound'
<1>1. \A p \in Ops : /\ ops'[p].wrote = ops[p].wrote /\ SamePlan(ops'[p], ops[p])
                     /\ ops'[p].status = "completed" <=> ops[p].status = "completed"
  BY DEF Changes, SamePlan
<1>2. Tracked' = Tracked
  BY <1>1 DEF Tracked, SamePlan
<1>3. \A p \in Ops : RowSound(ops[p])'
  BY <1>1 DEF RowsSound, RowSound, SamePlan, Clean
<1>4. AckedIsCompleted'
  BY <1>1 DEF RowsSound, AckedIsCompleted
<1>5. ColumnsFrozenInFlight'
  BY DEF Changes, SamePlan, RowsSound, ColumnsFrozenInFlight
<1> QED BY <1>2, <1>3, <1>4, <1>5, SameCount DEF RowsSound

\* Superseding keeps the rows sound, with no operation in flight or no column moved.
LEMMA RowsSuperseded ==
  ASSUME RowsSound, acked \subseteq Ops, Superseded, UNCHANGED <<base, acked>>,
         UNCHANGED caps \/ \A o \in Ops : ops[o].status \notin InFlight
  PROVE  RowsSound'
<1>1. \A p \in Ops : /\ ops'[p].wrote = ops[p].wrote /\ SamePlan(ops'[p], ops[p])
                     /\ ops'[p].status = "completed" <=> ops[p].status = "completed"
                     /\ ops'[p].status \in InFlight => ops[p].status \in InFlight
  BY DEF Superseded, SamePlan, InFlight
<1>2. Tracked' = Tracked
  BY <1>1 DEF Tracked, SamePlan
<1>3. \A p \in Ops : RowSound(ops[p])'
  BY <1>1 DEF RowsSound, RowSound, SamePlan, Clean
<1>4. AckedIsCompleted'
  BY <1>1 DEF RowsSound, AckedIsCompleted
<1>5. ColumnsFrozenInFlight'
  BY <1>1 DEF SamePlan, RowsSound, ColumnsFrozenInFlight
<1> QED BY <1>2, <1>3, <1>4, <1>5, SameCount DEF RowsSound

\* A new preview keeps the rows sound.
LEMMA RowsCreated ==
  ASSUME RowsSound, acked \subseteq Ops, NEW w \in Workers, h[w].op \in Ops,
         Op(w).status = "absent", NEW k, NEW t,
         Creates(w, k, t), Clean(h[w].ctx.perms), Clean(t), k = "adoption" => base.rev = 0,
         UNCHANGED <<base, caps, acked>>
  PROVE  RowsSound'
<1>1. /\ ops'[h[w].op].status = "preview_ready" /\ ops'[h[w].op].wrote = FALSE
      /\ \A p \in Ops \ {h[w].op} : ops'[p] = ops[p]
  BY DEF Creates
<1>2. Tracked' = Tracked
  BY <1>1 DEF Tracked, Op
<1>3. \A p \in Ops : RowSound(ops[p])'
  BY <1>1 DEF Creates, RowsSound, RowSound, Clean
<1>4. AckedIsCompleted'
  BY <1>1 DEF RowsSound, AckedIsCompleted, Op
<1>5. ColumnsFrozenInFlight'
  BY <1>1 DEF RowsSound, ColumnsFrozenInFlight, InFlight
<1> QED BY <1>2, <1>3, <1>4, <1>5, SameCount DEF RowsSound

\* A row completes without a write.
LEMMA RowsNoop ==
  ASSUME RowsSound, acked \subseteq Ops, NEW o \in Ops, Changes(o, "completed"),
         ops'[o].wrote = ops[o].wrote, ops[o].status # "completed", ops[o].kind # "adoption",
         acked' \subseteq acked \cup {o}, UNCHANGED <<base, caps>>
  PROVE  RowsSound'
<1>1. /\ ~ops[o].wrote
      /\ \A p \in Ops : ops'[p].wrote = ops[p].wrote /\ SamePlan(ops'[p], ops[p])
  BY DEF RowsSound, RowSound, Changes, SamePlan
<1>2. Tracked' = Tracked
  BY <1>1 DEF Tracked, SamePlan, Changes
<1>3. \A p \in Ops : RowSound(ops[p])'
  BY <1>1 DEF RowsSound, RowSound, SamePlan, Clean, Changes
<1>4. AckedIsCompleted'
  BY DEF RowsSound, AckedIsCompleted, Changes
<1>5. ColumnsFrozenInFlight'
  BY DEF Changes, RowsSound, ColumnsFrozenInFlight, InFlight
<1> QED BY <1>2, <1>3, <1>4, <1>5, SameCount DEF RowsSound

\* A row completes with a write, and the revision counts it.
LEMMA RowsWritten ==
  ASSUME TypeOK, RowsSound, NEW o \in Ops, Changes(o, "completed"),
         ops'[o].wrote = ops[o].wrote \/ ops'[o].wrote = TRUE,
         ops'[o].wrote = TRUE \/ ops[o].kind = "adoption",
         ops[o].status # "completed", acked' \subseteq acked \cup {o}, UNCHANGED caps,
         \/ base'.rev = base.rev + 1
         \/ base.rev = 0 /\ base'.rev = 1
  PROVE  RowsSound'
<1>1. /\ ops'[o].status = "completed" /\ SamePlan(ops'[o], ops[o])
      /\ \A p \in Ops \ {o} : ops'[p] = ops[p]
  BY DEF Changes
<1>2. Tracked' = Tracked \cup {o} /\ o \notin Tracked
  BY <1>1 DEF Tracked, SamePlan
<1>3. \A p \in Ops : RowSound(ops[p])'
  BY <1>1 DEF RowsSound, RowSound, SamePlan, Clean
<1>4. AckedIsCompleted'
  BY <1>1 DEF RowsSound, AckedIsCompleted, TypeOK
<1>5. ColumnsFrozenInFlight'
  BY <1>1 DEF RowsSound, ColumnsFrozenInFlight, InFlight
<1>6. /\ IsFiniteSet(Tracked \cup {o})
      /\ Cardinality(Tracked \cup {o}) = Cardinality(Tracked) + 1
  BY <1>2, FS_AddElement DEF RowsSound
<1>7. OneRevisionPerOperation'
  <2>1. Cardinality(Tracked) \in {base.rev, base.rev - 1} /\ Cardinality(Tracked) \in Nat
    BY FS_CardinalityType DEF RowsSound, OneRevisionPerOperation, Tracked
  <2>2. base.rev \in Nat
    BY DEF TypeOK, Baseline
  <2>3. Cardinality(Tracked') \in {base'.rev, base'.rev - 1}
    BY <1>2, <1>6, <2>1, <2>2
  <2> QED BY <2>3 DEF OneRevisionPerOperation, Tracked
<1> QED BY <1>2, <1>3, <1>4, <1>5, <1>6, <1>7 DEF RowsSound

-----------------------------------------------------------------------------
(* What handlers go through.                                               *)

\* A handler at work whose session lives holds the lock.
LEMMA SessionHeld ==
  ASSUME HandlersSound, NEW w \in Workers, conn[w], h[w].pc # "idle" PROVE lock = w /\ HeldAt(w)
BY DEF HandlersSound, SessionAt

\* Everyone else of a step of w.
LEMMA OthersSound ==
  ASSUME TypeOK, HandlersSound, NEW w \in Workers, Others(w),
         \A v \in Workers \ {w} : conn'[v] = conn[v],
         lock' = lock \/ (lock = w /\ lock' = NoWorker) \/ (lock = NoWorker /\ lock' = w),
         SourcesKept, lock = w \/ lock' = w \/ UNCHANGED ops, UNCHANGED <<caps, version, perms>>,
         NEW v \in Workers \ {w}
  PROVE  /\ SessionAt(v)' /\ PlacedAt(v)' /\ SenderAt(v)' /\ VersionAt(v)'
         /\ lock' = v => HeldAt(v)'
<1>1. h'[v] = h[v] /\ conn'[v] = conn[v] /\ NoWorker # v
  BY PolicyOperationAssumption DEF Others
<1>2. lock' = v <=> lock = v
  BY <1>1, PolicyOperationAssumption
<1>3. SessionAt(v)' /\ PlacedAt(v)' /\ VersionAt(v)'
  BY <1>1, <1>2 DEF HandlersSound, SessionAt, PlacedAt, VersionAt
<1>4. SenderAt(v)'
  <2>1. SenderAt(v) /\ PlacedAt(v)
    BY DEF HandlersSound
  <2>2. h[v].mode # "none" => h[v].op \in Ops
    BY <2>1, Worker, HandlerFields DEF SenderAt, Op, PlacedAt, TypeOK, Sending, Applying,
                                       Restoring, Recovering, HandlerTyped, Modes
  <2> QED BY <1>1, <2>1, <2>2 DEF SenderAt, Op, SourcesKept, Clean
<1>5. ASSUME lock' = v PROVE HeldAt(v)'
  <2>1. lock = v /\ lock # w /\ lock' # w
    BY <1>2, <1>5
  <2>2. UNCHANGED ops /\ HeldAt(v)
    BY <2>1 DEF HandlersSound
  <2> QED BY <1>1, <2>2 DEF HeldAt, PlansAt, Op
<1> QED BY <1>2, <1>3, <1>4, <1>5

\* A handler that leaves keeps the others sound.
LEMMA LeavesSound ==
  ASSUME TypeOK, version > 0, HandlersSound, NEW w \in Workers, h[w].pc # "idle", Leaves(w),
         SourcesKept, lock = w \/ UNCHANGED ops, UNCHANGED <<caps, version, perms>>
  PROVE  HandlersSound'
<1>1. NoWorker # w
  BY PolicyOperationAssumption
<1>2. ASSUME NEW v \in Workers \ {w}
      PROVE  /\ SessionAt(v)' /\ PlacedAt(v)' /\ SenderAt(v)' /\ VersionAt(v)'
             /\ lock' = v => HeldAt(v)'
  BY OthersSound DEF Leaves
<1>3. h'[w] = Idle /\ lock' # w /\ conn'[w] = TRUE
  BY <1>1 DEF Leaves
<1>4. /\ SessionAt(w)' /\ PlacedAt(w)' /\ SenderAt(w)' /\ VersionAt(w)'
      /\ lock' = w => HeldAt(w)'
  BY <1>3, IdleTyped DEF SessionAt, PlacedAt, SenderAt, VersionAt, Planning, Unread, TypeOK
<1> QED BY <1>2, <1>4 DEF HandlersSound

\* A handler that stays where it is proved to be able to.
LEMMA NowSound ==
  ASSUME TypeOK, HandlersSound, NEW w \in Workers, h[w].pc # "idle",
         NEW p, NEW m, NEW c, NEW e, Now(w, p, m, c, e), p \notin {"idle", "confirm"},
         SourcesKept, lock = w \/ UNCHANGED ops,
         UNCHANGED <<lock, conn, caps, version, perms>>,
         PlacedAt(w)', SenderAt(w)', VersionAt(w)', lock = w => HeldAt(w)'
  PROVE  HandlersSound'
<1>1. ASSUME NEW v \in Workers \ {w}
      PROVE  /\ SessionAt(v)' /\ PlacedAt(v)' /\ SenderAt(v)' /\ VersionAt(v)'
             /\ lock' = v => HeldAt(v)'
  BY OthersSound DEF Now
<1>2. SessionAt(w)'
  BY DEF HandlersSound, SessionAt, Now
<1> QED BY <1>1, <1>2 DEF HandlersSound

\* Handlers stay sound when nothing they rely on changes.
LEMMA NothingMoved ==
  ASSUME HandlersSound, UNCHANGED <<ops, lock, conn, h, caps, version, perms>>
  PROVE  HandlersSound'
BY DEF HandlersSound, SessionAt, PlacedAt, SenderAt, VersionAt, HeldAt, PlansAt, Op, Clean

\* A handler that goes on in its mode, with what it has read.
LEMMA ProceedSound ==
  ASSUME TypeOK, HandlersSound, NEW w \in Workers, h[w].pc # "idle", NEW p, NEW e,
         Now(w, p, h[w].mode, h[w].ctx, e), p \notin {"idle", "confirm"}, h[w].pc \notin Unread,
         UNCHANGED <<ops, lock, conn, caps, version, perms>>,
         p \in Sending => h[w].pc \in Sending,
         PlacedAt(w)', lock = w => HeldAt(w)'
  PROVE  HandlersSound'
<1>1. SenderAt(w) /\ VersionAt(w)
  BY DEF HandlersSound
<1>2. SenderAt(w)'
  BY <1>1 DEF SenderAt, Now, Op, Clean
<1>3. VersionAt(w)'
  BY <1>1 DEF VersionAt, Now
<1> QED BY <1>2, <1>3, SameSources, NowSound

-----------------------------------------------------------------------------
(* What requests go through.                                               *)

\* Requests stay sound when the metadata do not change and none is new.
LEMMA RequestsKept ==
  ASSUME RequestsSound, UNCHANGED <<version, perms>>,
         \A r \in wire' : \E s \in wire : r.ver = s.ver /\ r.from = s.from
  PROVE  RequestsSound'
BY DEF RequestsSound, Clean

\* Requests stay sound when neither they nor the metadata change.
LEMMA RequestsSame ==
  ASSUME RequestsSound, UNCHANGED <<wire, version, perms>> PROVE RequestsSound'
BY RequestsKept

\* The version moves on: no request was of a later one.
LEMMA RequestsPassed ==
  ASSUME TypeOK, RequestsSound, wire' \subseteq wire, version' = version + 1
  PROVE  RequestsSound'
BY RequestFields DEF RequestsSound, TypeOK, RequestTyped, Clean

\* The version moves on: what handlers have read is older now.
LEMMA HandlersPassed ==
  ASSUME TypeOK, HandlersSound, version' = version + 1, UNCHANGED <<ops, lock, conn, h, caps>>
  PROVE  HandlersSound'
<1>1. ASSUME NEW w \in Workers PROVE VersionAt(w)'
  <2>1. h[w].ctx.ver \in Nat /\ version \in Nat
    BY HandlerFields DEF TypeOK, HandlerTyped
  <2> QED BY <2>1 DEF HandlersSound, VersionAt
<1> QED BY <1>1 DEF HandlersSound, SessionAt, PlacedAt, SenderAt, HeldAt, PlansAt, Op, Clean

\* A request that performs something is not of another version.
LEMMA PerformedIsCurrent ==
  ASSUME RequestsSound, NEW r \in wire, r.ver \in {0, version}
  PROVE  r.ver = version /\ r.from = perms /\ Clean(perms)
BY DEF RequestsSound, Clean

-----------------------------------------------------------------------------
(* The steps keep the invariant of the records.                            *)

\* RecordsInv through admission.
LEMMA AdmitKeeps ==
  ASSUME RecordsInv, NEW w \in Workers, NEW call \in Calls, NEW o \in Ops,
         withProjectDataAccessMutationLock(w, call, o)
  PROVE  RecordsInv'
<1>1. /\ Begins(w, call, o) /\ TypeOK' /\ (UNCHANGED ops \/ Superseded)
  BY AdmitEffect DEF RecordsInv
<1>2. /\ At(w, "idle") /\ lock = NoWorker /\ lock' = w /\ Names(call, o)
      /\ ~hasPersistedDataAccessBlock(o)
      /\ UNCHANGED <<base, version, perms, caps, conn, wire, acked>>
      /\ ops[o].status # "absent" => UNCHANGED ops
  BY DEF withProjectDataAccessMutationLock, hasura
<1>3. ops'[o] = ops[o]
  BY <1>1, <1>2 DEF Superseded
<1>4. RowsSound'
  BY <1>1, <1>2, RowsKept, RowsSuperseded
     DEF RecordsInv, TypeOK, RowsSound, AckedIsCompleted
<1>5. SourcesKept
  BY <1>1, SupersededSources, SameSources
<1>6. ASSUME NEW v \in Workers \ {w}
      PROVE  /\ SessionAt(v)' /\ PlacedAt(v)' /\ SenderAt(v)' /\ VersionAt(v)'
             /\ lock' = v => HeldAt(v)'
  BY <1>1, <1>2, <1>5, OthersSound DEF RecordsInv, Begins
<1>7. SessionAt(w)' /\ PlacedAt(w)' /\ SenderAt(w)' /\ VersionAt(w)'
  <2>1. conn[w] /\ version \in Nat /\ version > 0
    BY <1>2 DEF RecordsInv, HandlersSound, SessionAt, At, TypeOK
  <2> QED BY <1>1, <1>2, <2>1
          DEF Begins, SessionAt, PlacedAt, SenderAt, VersionAt, Planning, Unread
<1>8. HeldAt(w)'
  <2>1. \A p \in Ops \ {o} : ops'[p].status \notin InFlight
    BY <1>1, <1>2 DEF hasPersistedDataAccessBlock, Superseded, InFlight
  <2>2. PlansAt(w)'
    <3>1. h'[w].pc = "load" /\ h'[w].call = call /\ h'[w].op = o /\ ops'[h'[w].op] = ops[o]
      BY <1>1, <1>3 DEF Begins
    <3>2. /\ call \in Previews => ops[o].status = "absent"
          /\ call = "applyAdoption" => ops[o].kind = "adoption"
          /\ call = "applyReconcile" /\ ~ReplayReconcile
               => ops[o].status \in {"preview_ready", "completed"}
          /\ call = "recover" => ops[o].status \in InFlight
      BY <1>2 DEF Names, Previews
    <3> QED BY <3>1, <3>2 DEF PlansAt, Op
  <2> QED BY <1>1, <2>1, <2>2 DEF HeldAt, Begins, Unread
<1>9. HandlersSound'
  BY <1>6, <1>7, <1>8 DEF HandlersSound
<1> QED BY <1>1, <1>2, <1>4, <1>9, RequestsSame DEF RecordsInv

\* RecordsInv through a read.
LEMMA ReadKeeps ==
  ASSUME RecordsInv, NEW w \in Workers, LoadContext(w) \/ LoadSecond(w) \/ RestoreLoad(w)
  PROVE  RecordsInv'
<1>1. PICK p \in {"decide", "begin", "restoreBegin"}, m \in Modes :
         /\ Reads(w, p, m)
         /\ p = "decide" => h[w].pc = "load" /\ m = h[w].mode
         /\ p = "begin" => h[w].pc = "load2" /\ m = h[w].mode
         /\ p = "restoreBegin" => h[w].pc = "restoreLoad" /\ m = "restore"
  <2>1. h[w].pc # "idle" /\ "restore" \in Modes
    BY DEF LoadContext, LoadSecond, RestoreLoad, At, Modes
  <2>2. h[w].mode \in Modes
    BY <2>1, Worker DEF RecordsInv, HandlerTyped
  <2>3. /\ LoadContext(w) => Reads(w, "decide", h[w].mode) /\ h[w].pc = "load"
        /\ LoadSecond(w) => Reads(w, "begin", h[w].mode) /\ h[w].pc = "load2"
        /\ RestoreLoad(w) => Reads(w, "restoreBegin", "restore") /\ h[w].pc = "restoreLoad"
    BY ReadEffect DEF RecordsInv, LoadContext, LoadSecond, RestoreLoad, At
  <2> QED BY <2>1, <2>2, <2>3
<1>2. TypeOK'
  BY ReadEffect DEF RecordsInv
<1>3. /\ h[w].pc # "idle" /\ Now(w, p, m, h'[w].ctx, h[w].epoch)
      /\ h'[w].ctx.perms = perms /\ h'[w].ctx.caps = caps /\ h'[w].ctx.ver = version
      /\ UNCHANGED <<ops, base, perms, version, caps, lock, conn, wire, resp, acked, edited>>
  BY <1>1 DEF Reads
<1>4. PlacedAt(w) /\ SenderAt(w) /\ VersionAt(w) /\ (lock = w => HeldAt(w))
  BY DEF RecordsInv, HandlersSound
<1>5. m # "none" => h[w].mode # "none"
  BY <1>1, <1>4 DEF PlacedAt, Planning
<1>6. PlacedAt(w)'
  BY <1>1, <1>3, <1>4
     DEF PlacedAt, Now, Planning, Applying, Restoring, Recovering, Sending
<1>7. SenderAt(w)'
  BY <1>1, <1>3, <1>4, <1>5 DEF SenderAt, Now, Sending, Op
<1>8. VersionAt(w)'
  BY <1>3 DEF VersionAt, RecordsInv, TypeOK
<1>9. lock = w => HeldAt(w)'
  <2>1. CASE p = "restoreBegin"
    <3>1. h[w].mode = "apply"
      BY <1>1, <1>4, <2>1, Worker DEF PlacedAt, Planning, Restoring, Recovering, Sending,
                                      RecordsInv, HandlerTyped, Modes
    <3> QED BY <1>1, <1>3, <1>4, <2>1, <3>1 DEF HeldAt, Now, Op
  <2>2. CASE p # "restoreBegin"
    <3>1. h'[w].mode = h[w].mode /\ h'[w].op = h[w].op /\ h'[w].call = h[w].call
          /\ h'[w].pc = p
      BY <1>1, <1>3, <2>2 DEF Now
    <3>2. h[w].mode = "none"
      BY <1>1, <1>4, <2>2, Worker DEF PlacedAt, Applying, Restoring, Recovering, Sending,
                                      RecordsInv, HandlerTyped, Modes
    <3> QED BY <1>1, <1>3, <1>4, <2>2, <3>1, <3>2 DEF HeldAt, PlansAt, Op
  <2> QED BY <2>1, <2>2
<1>10. HandlersSound'
  BY <1>1, <1>3, <1>6, <1>7, <1>8, <1>9, SameSources, NowSound DEF RecordsInv
<1> QED BY <1>2, <1>3, <1>10, RowsKept, RequestsSame DEF RecordsInv, RowsSound, AckedIsCompleted

\* A refusal, whoever gives it.
LEMMA RefuseKeeps ==
  ASSUME RecordsInv, NEW w \in Workers, h[w].pc # "idle", Refuse(w) PROVE RecordsInv'
<1>1. Leaves(w) /\ UNCHANGED <<ops, acked, Local>> /\ TypeOK'
  BY RefuseEffect DEF RecordsInv
<1>2. HandlersSound'
  BY <1>1, LeavesSound, SameSources DEF RecordsInv, Local, hasura
<1>3. RowsSound'
  BY <1>1, RowsKept DEF RecordsInv, RowsSound, AckedIsCompleted, Local
<1> QED BY <1>1, <1>2, <1>3, RequestsSame DEF RecordsInv, Local, hasura

\* RecordsInv through a replay or a confirmed commit.
LEMMA ReplayKeeps ==
  ASSUME RecordsInv, NEW w \in Workers, h[w].pc # "idle", ReplayCompleted(w) \/ ConfirmCommit(w)
  PROVE  RecordsInv'
<1>1. /\ Leaves(w) /\ UNCHANGED <<ops, Local>> /\ acked' \subseteq acked \cup {h[w].op}
      /\ TypeOK' /\ (acked' # acked => Op(w).status = "completed")
  BY ReplayEffect DEF RecordsInv, Replays
<1>2. HandlersSound'
  BY <1>1, LeavesSound, SameSources DEF RecordsInv, Local, hasura
<1>3. RowsSound'
  BY <1>1, RowsKept DEF RecordsInv, RowsSound, AckedIsCompleted, Local, Op
<1> QED BY <1>1, <1>2, <1>3, RequestsSame DEF RecordsInv, Local, hasura

\* The row of the holder closes, completes or is replaced, and the handler is gone.
LEMMA LeavesKeeps ==
  ASSUME RecordsInv, TypeOK', NEW w \in Workers, h[w].pc # "idle", lock = w, Leaves(w),
         SourcesKept, RowsSound', UNCHANGED <<caps, version, perms, wire>>
  PROVE  RecordsInv'
<1>1. HandlersSound'
  BY LeavesSound DEF RecordsInv
<1> QED BY <1>1, RequestsSame DEF RecordsInv

\* Where a handler is tells its mode.
LEMMA ModeOf ==
  ASSUME RecordsInv, NEW w \in Workers, h[w].pc # "idle"
  PROVE  /\ h[w].mode \in Modes /\ PlacedAt(w) /\ SenderAt(w) /\ VersionAt(w)
         /\ h[w].pc \in Planning => h[w].mode = "none"
         /\ h[w].pc \in {"commit", "confirm", "restoreLoad", "toFailed"} => h[w].mode = "apply"
         /\ h[w].pc = "restoreBegin" => h[w].mode = "restore"
         /\ h[w].pc = "settle" => h[w].mode \in {"restore", "recover"}
         /\ h[w].pc \notin Planning => h[w].mode # "none"
<1>1. h[w].mode \in Modes
  BY Worker DEF RecordsInv, HandlerTyped
<1>2. PlacedAt(w) /\ SenderAt(w) /\ VersionAt(w)
  BY DEF RecordsInv, HandlersSound
<1> QED BY <1>1, <1>2
        DEF PlacedAt, Modes, Planning, Applying, Restoring, Recovering, Sending

\* A handler goes on in its mode, and nothing else happens.
LEMMA WalkKeeps ==
  ASSUME RecordsInv, TypeOK', NEW w \in Workers, NEW p, NEW e,
         Now(w, p, h[w].mode, h[w].ctx, e), p # "idle", p # "confirm", h[w].pc \notin Unread,
         p \notin Sending \/ h[w].pc \in Sending,
         UNCHANGED <<ops, base, lock, conn, caps, version, perms, wire, acked>>,
         PlacedAt(w)', lock = w => HeldAt(w)'
  PROVE  RecordsInv'
<1>1. h[w].pc # "idle" /\ p \notin {"idle", "confirm"} /\ (p \in Sending => h[w].pc \in Sending)
  BY DEF Unread
<1>2. HandlersSound'
  BY <1>1, ProceedSound DEF RecordsInv
<1> QED BY <1>2, RowsKept, RequestsSame DEF RecordsInv, RowsSound, AckedIsCompleted

\* RecordsInv through a new update.
LEMMA UpdateNewKeeps ==
  ASSUME RecordsInv, NEW w \in Workers, UpdateNew(w) PROVE RecordsInv'
<1>1. h[w].pc = "decide" /\ conn[w] /\ Op(w).status = "absent"
  BY DEF UpdateNew, Deciding, At
<1>2. lock = w /\ HeldAt(w)
  BY <1>1, SessionHeld DEF RecordsInv
<1>3. CASE Refuse(w)
  BY <1>1, <1>3, RefuseKeeps
<1>4. CASE ~Refuse(w)
  <2>1. PICK t \in Policies, p \in {"noop", "load2"} :
          /\ inspectedManaged(t, h[w].ctx.caps) /\ State(w) = "managed"
          /\ Creates(w, "update", t) /\ OneActive(h[w].op)
          /\ Now(w, p, h[w].mode, h[w].ctx, h[w].epoch)
          /\ UNCHANGED <<lock, conn, acked, Local>>
    BY <1>4, UpdateNewEffect DEF RecordsInv
  <2>2. TypeOK'
    BY UpdateNewEffect DEF RecordsInv
  <2>3. h[w].op \in Ops /\ HandlerTyped(h[w]) /\ t \in Snapshots
    BY <1>1, Worker, PolicyOperationAssumption DEF RecordsInv
  <2>4. Clean(h[w].ctx.perms) /\ Clean(t)
    BY <2>1, <2>3, ClassifiedClean, InspectedClean DEF State, HandlerTyped
  <2>5. RowsSound'
    BY <1>1, <2>1, <2>3, <2>4, RowsCreated DEF RecordsInv, TypeOK, Local
  <2>6. SourcesKept
    BY <1>1, <2>1 DEF Creates, SourcesKept, Op
  <2>7. h[w].mode = "none"
    BY <1>1, ModeOf DEF Planning
  <2>8. h'[w].pc = p /\ h'[w].mode = "none" /\ h'[w].ctx = h[w].ctx /\ h'[w].op = h[w].op
    BY <2>1, <2>7 DEF Now
  <2>9. PlacedAt(w)' /\ SenderAt(w)'
    BY <2>8 DEF PlacedAt, SenderAt, Planning
  <2>10. VersionAt(w)'
    BY <1>1, <2>1, <2>8, ModeOf DEF VersionAt, Unread, Local, hasura
  <2>11. HeldAt(w)'
    <3>1. \A q \in Ops \ {h'[w].op} : ops'[q].status \notin InFlight
      BY <1>2, <2>1, <2>8 DEF HeldAt, Creates
    <3>2. ops'[h'[w].op].kind = "update" /\ ops'[h'[w].op].status = "preview_ready"
      BY <2>1, <2>8 DEF Creates
    <3>3. PlansAt(w)'
      BY <2>8, <3>2 DEF PlansAt, Op
    <3> QED BY <1>1, <1>2, <2>1, <2>8, <3>1, <3>3 DEF HeldAt, Unread, Local
  <2>12. HandlersSound'
    BY <1>1, <1>2, <2>1, <2>6, <2>9, <2>10, <2>11, NowSound DEF RecordsInv, Local, hasura
  <2> QED BY <2>1, <2>2, <2>5, <2>12, RequestsSame DEF RecordsInv, Local, hasura
<1> QED BY <1>3, <1>4

\* RecordsInv through a decision.
LEMMA DecideKeeps ==
  ASSUME RecordsInv, NEW w \in Workers, Decides(w) PROVE RecordsInv'
<1>1. h[w].pc = "decide" /\ conn[w]
  BY DEF Decides, UpdateExisting, ApplyReconcile, ApplyExtension, Deciding, At
<1>2. lock = w /\ HeldAt(w) /\ h[w].mode = "none"
  BY <1>1, SessionHeld, ModeOf DEF RecordsInv, Planning
<1>3. CASE Refuse(w) \/ ReplayCompleted(w)
  BY <1>1, <1>3, RefuseKeeps, ReplayKeeps
<1>4. CASE ~(Refuse(w) \/ ReplayCompleted(w))
  <2>1. Proceed(w, "load2") /\ TypeOK'
    BY <1>4, DecideEffect DEF RecordsInv
  <2>2. /\ Now(w, "load2", h[w].mode, h[w].ctx, h[w].epoch)
        /\ UNCHANGED <<ops, lock, conn, acked, Local>>
    BY <1>1, <2>1, ProceedEffect, "load2" \in Pcs DEF RecordsInv, Pcs
  <2>3. /\ Op(w).status # "completed"
        /\ (~ReplayReconcile => Op(w).status = "preview_ready")
    <3>1. CASE UpdateExisting(w)
      BY <1>4, <3>1 DEF UpdateExisting
    <3>2. CASE ApplyReconcile(w)
      <4>1. /\ Op(w).status # "completed" /\ SourceUnchanged(w) /\ h[w].call = "applyReconcile"
        BY <1>4, <3>2 DEF ApplyReconcile, Deciding
      <4> QED BY <1>1, <1>2, <4>1 DEF HeldAt, PlansAt
    <3>3. CASE ApplyExtension(w)
      BY <1>4, <3>3 DEF ApplyExtension
    <3> QED BY <3>1, <3>2, <3>3 DEF Decides
  <2>4. PlacedAt(w)' /\ HeldAt(w)'
    BY <1>1, <1>2, <2>2, <2>3 DEF PlacedAt, HeldAt, PlansAt, Now, Planning, Unread, Op, Local
  <2>5. UNCHANGED <<ops, base, lock, conn, caps, version, perms, wire, acked>>
    BY <2>2 DEF Local, hasura
  <2>6. h[w].pc \notin Unread /\ "load2" \notin Sending
    BY <1>1 DEF Unread, Sending
  <2> QED BY <2>1, <2>2, <2>4, <2>5, <2>6, WalkKeeps
<1> QED BY <1>3, <1>4

\* RecordsInv through a completion without a write.
LEMMA NoopKeeps ==
  ASSUME RecordsInv, NEW w \in Workers, CompleteNoop(w) PROVE RecordsInv'
<1>1. h[w].pc = "noop" /\ conn[w] /\ Op(w).status = "preview_ready"
  BY DEF CompleteNoop, At, transitionPolicyOperation, Op
<1>2. lock = w /\ HeldAt(w) /\ h[w].mode = "none"
  BY <1>1, SessionHeld, ModeOf DEF RecordsInv, Planning
<1>3. /\ TypeOK' /\ Leaves(w) /\ Changes(h[w].op, "completed")
      /\ ops'[h[w].op].wrote = Op(w).wrote /\ UNCHANGED Local
      /\ acked' = acked \cup {h[w].op}
  BY NoopEffect DEF RecordsInv, Closes
<1>4. h[w].op \in Ops /\ Op(w).kind # "adoption"
  BY <1>1, <1>2, Worker DEF RecordsInv, HeldAt, PlansAt
<1>5. RowsSound'
  BY <1>1, <1>3, <1>4, RowsNoop DEF RecordsInv, Op, Local, TypeOK
<1>6. SourcesKept
  BY <1>3, <1>4, ChangesSources
<1> QED BY <1>1, <1>2, <1>3, <1>5, <1>6, LeavesKeeps DEF Local, hasura

\* RecordsInv through a preview.
LEMMA PreviewingKeeps ==
  ASSUME RecordsInv, NEW w \in Workers, Previewing(w) PROVE RecordsInv'
<1>1. h[w].pc = "decide" /\ conn[w] /\ h[w].call \in Previews
  BY DEF Previewing, PreviewAdoption, PreviewReconcile, PreviewExtension, Deciding, At, Previews
<1>2. lock = w /\ HeldAt(w) /\ h[w].mode = "none"
  BY <1>1, SessionHeld, ModeOf DEF RecordsInv, Planning
<1>3. Op(w).status = "absent" /\ h[w].op \in Ops
  BY <1>1, <1>2, Worker DEF RecordsInv, HeldAt, PlansAt
<1>4. CASE Refuse(w)
  BY <1>1, <1>4, RefuseKeeps
<1>5. ASSUME NEW k \in {"adoption", "reconcile", "extension"}, Previewed(w, k) PROVE RecordsInv'
  <2>1. PICK t \in Snapshots : /\ Clean(h[w].ctx.perms) /\ Clean(t)
                               /\ k = "adoption" => base.rev = 0
                               /\ Preview(w, k, t)
    BY <1>5 DEF Previewed
  <2>2. Creates(w, k, t) /\ Leaves(w) /\ UNCHANGED <<acked, Local>> /\ TypeOK'
    BY <1>1, <2>1, PreviewEffect DEF RecordsInv, Kinds
  <2>3. UNCHANGED <<base, caps, version, perms, wire>>
    BY <2>2 DEF Local, hasura
  <2>4. RowsSound'
    BY <1>3, <2>1, <2>2, <2>3, RowsCreated DEF RecordsInv, TypeOK
  <2>5. SourcesKept
    BY <1>3, <2>2 DEF Creates, SourcesKept, Op
  <2> QED BY <1>1, <1>2, <2>2, <2>3, <2>4, <2>5, LeavesKeeps
<1> QED BY <1>4, <1>5, PreviewingEffect DEF RecordsInv

\* What an adoption does to the rows, its answer lost or not.
LEMMA AdoptionRows ==
  ASSUME RecordsInv, NEW w \in Workers, h[w].pc # "idle", HeldAt(w), h[w].mode = "none",
         Deciding(w, "applyAdoption"), AdoptionReady(w),
         Changes(h[w].op, "completed"), ops'[h[w].op].wrote = Op(w).wrote,
         base'.rev = 1, UNCHANGED caps, acked' \subseteq acked \cup {h[w].op}
  PROVE  RowsSound' /\ SourcesKept
<1>1. h[w].op \in Ops /\ Op(w).kind = "adoption" /\ Op(w).status = "preview_ready"
  BY Worker DEF RecordsInv, HeldAt, PlansAt, Deciding, At, AdoptionReady
<1>2. base.rev = 0
  BY <1>1 DEF AdoptionReady, SourceUnchanged, RecordsInv, RowsSound, RowSound, Op
<1>3. RowsSound'
  BY <1>1, <1>2, RowsWritten DEF RecordsInv, Op
<1> QED BY <1>1, <1>3, ChangesSources

\* RecordsInv through an adoption.
LEMMA ApplyAdoptionKeeps ==
  ASSUME RecordsInv, NEW w \in Workers, ApplyAdoption(w) PROVE RecordsInv'
<1>1. h[w].pc = "decide" /\ conn[w] /\ Deciding(w, "applyAdoption")
  BY DEF ApplyAdoption, Deciding, At
<1>2. lock = w /\ HeldAt(w) /\ h[w].mode = "none"
  BY <1>1, SessionHeld, ModeOf DEF RecordsInv, Planning
<1>3. TypeOK' /\ (Refuse(w) \/ ReplayCompleted(w) \/ Adopts(w))
  BY ApplyAdoptionEffect DEF RecordsInv
<1>4. CASE Refuse(w) \/ ReplayCompleted(w)
  BY <1>1, <1>4, RefuseKeeps, ReplayKeeps
<1>5. CASE Adopts(w)
  <2>1. RowsSound' /\ SourcesKept
    BY <1>1, <1>2, <1>5, AdoptionRows DEF Adopts
  <2> QED BY <1>1, <1>2, <1>3, <1>5, <2>1, LeavesKeeps DEF Adopts, hasura
<1> QED BY <1>3, <1>4, <1>5

\* A claim of the row by the holder of the lock.
LEMMA ClaimKeeps ==
  ASSUME RecordsInv, NEW w \in Workers, h[w].pc \notin Unread, lock = w, HeldAt(w),
         NEW s \in {"applying", "recovering"}, NEW m \in {"apply", "restore", "recover"},
         m = "apply" <=> s = "applying", Claim(w, s, m),
         Op(w).status # "completed", Op(w).status \in InFlight \/ Op(w).caps = caps,
         Clean(h[w].ctx.perms), m = "apply" => h[w].ctx.perms = Op(w).src
  PROVE  RecordsInv'
<1>1. h[w].pc # "idle" /\ s \in Statuses /\ m \in Modes /\ s \in InFlight
      /\ s # "absent" /\ s # "completed"
  BY DEF Unread, Statuses, Modes, InFlight
<1>2. /\ Now(w, "renew", m, h[w].ctx, Op(w).epoch + 1)
      /\ Changes(h[w].op, s) /\ ops'[h[w].op].wrote = Op(w).wrote
      /\ UNCHANGED <<lock, conn, acked, Local>> /\ TypeOK'
  BY <1>1, ClaimEffect DEF RecordsInv
<1>3. UNCHANGED <<lock, conn, acked, base, caps, version, perms, wire>>
  BY <1>2 DEF Local, hasura
<1>4. h[w].op \in Ops
  BY <1>1, Worker DEF RecordsInv
<1>5. RowsSound'
  BY <1>1, <1>2, <1>3, <1>4, RowsMoved DEF RecordsInv, TypeOK, Op
<1>6. SourcesKept
  BY <1>1, <1>2, <1>4, ChangesSources
<1>7. /\ h'[w].pc = "renew" /\ h'[w].mode = m /\ h'[w].ctx = h[w].ctx /\ h'[w].op = h[w].op
      /\ ops'[h[w].op].status = s /\ ops'[h[w].op].src = Op(w).src
      /\ \A o \in Ops \ {h[w].op} : ops'[o] = ops[o]
  BY <1>2 DEF Now, Changes, SamePlan, Op
<1>8. PlacedAt(w)'
  BY <1>7 DEF PlacedAt, Applying, Restoring, Recovering, Sending
<1>9. SenderAt(w)'
  BY <1>1, <1>7 DEF SenderAt, Op, Clean
<1>10. VersionAt(w)'
  BY <1>1, <1>3, <1>7, ModeOf DEF VersionAt, Unread
<1>11. HeldAt(w)'
  BY <1>3, <1>7 DEF HeldAt, Op
<1>12. HandlersSound'
  BY <1>1, <1>2, <1>3, <1>6, <1>8, <1>9, <1>10, <1>11, NowSound DEF RecordsInv
<1> QED BY <1>2, <1>3, <1>5, <1>12, RequestsSame DEF RecordsInv

\* RecordsInv through a claim for an apply.
LEMMA BeginApplyKeeps ==
  ASSUME RecordsInv, NEW w \in Workers, BeginApply(w) PROVE RecordsInv'
<1>1. h[w].pc = "begin" /\ conn[w] /\ h[w].pc # "idle"
  BY DEF BeginApply, At
<1>2. lock = w /\ HeldAt(w) /\ h[w].mode = "none" /\ h[w].op \in Ops
  BY <1>1, SessionHeld, ModeOf, Worker DEF RecordsInv, Planning
<1>3. Op(w).status # "completed" /\ h[w].ctx.caps = caps
  BY <1>1, <1>2 DEF HeldAt, PlansAt, Unread
<1>4. TypeOK'
  BY BeginApplyEffect DEF RecordsInv
<1>5. CASE Closes(w, "failed") /\ UNCHANGED acked
  <2>1. RowsSound'
    BY <1>2, <1>3, <1>5, RowsMoved, "failed" \notin InFlight
       DEF RecordsInv, TypeOK, Op, Closes, Local, InFlight
  <2>2. SourcesKept
    BY <1>2, <1>5, ChangesSources DEF Closes
  <2> QED BY <1>1, <1>2, <1>4, <1>5, <2>1, <2>2, LeavesKeeps DEF Closes, Local, hasura
<1>6. CASE Unmoved(w) /\ Claim(w, "applying", "apply")
  <2>1. h[w].ctx.perms = Op(w).src /\ Op(w).caps = caps
    BY <1>3, <1>6 DEF Unmoved, SourceUnchanged
  <2>2. Clean(h[w].ctx.perms)
    BY <1>2, <2>1 DEF RecordsInv, RowsSound, RowSound, Op
  <2> QED BY <1>1, <1>2, <1>3, <1>6, <2>1, <2>2, ClaimKeeps DEF Unread
<1>7. CASE Refuse(w)
  BY <1>1, <1>7, RefuseKeeps
<1> QED BY <1>5, <1>6, <1>7, BeginApplyEffect DEF RecordsInv

\* What a recovery admits is made of rules the platform made.
LEMMA AdmittedClean ==
  ASSUME RecordsInv, NEW w \in Workers, h[w].pc # "idle", Admits(w) PROVE Clean(h[w].ctx.perms)
<1>1. h[w].op \in Ops /\ RowTyped(Op(w))
  BY Worker DEF RecordsInv
<1>2. Clean(Op(w).src) /\ Clean(Op(w).tgt)
  BY <1>1 DEF RecordsInv, RowsSound, RowSound, Op
<1> QED BY <1>1, <1>2, PrefixClean DEF RowTyped, Admits, isRecoverablePermissionSnapshot

\* RecordsInv through a claim for a recovery.
LEMMA BeginRecoverKeeps ==
  ASSUME RecordsInv, NEW w \in Workers, BeginRecover(w) PROVE RecordsInv'
<1>1. h[w].pc = "decide" /\ conn[w] /\ h[w].call = "recover" /\ h[w].pc # "idle"
  BY DEF BeginRecover, Deciding, At
<1>2. lock = w /\ HeldAt(w) /\ h[w].mode = "none"
  BY <1>1, SessionHeld, ModeOf DEF RecordsInv, Planning
<1>3. Op(w).status \in InFlight
  BY <1>1, <1>2 DEF HeldAt, PlansAt
<1>4. CASE Refuse(w)
  BY <1>1, <1>4, RefuseKeeps
<1>5. CASE Admits(w) /\ Claim(w, "recovering", "recover")
  <2>1. Clean(h[w].ctx.perms)
    BY <1>1, <1>5, AdmittedClean
  <2>2. Op(w).status # "completed" /\ h[w].pc \notin Unread
    BY <1>1, <1>3 DEF InFlight, Unread
  <2> QED BY <1>2, <1>3, <1>5, <2>1, <2>2, ClaimKeeps
<1> QED BY <1>4, <1>5, BeginRecoverEffect DEF RecordsInv

\* RecordsInv through a claim for a restore.
LEMMA RestoreBeginKeeps ==
  ASSUME RecordsInv, NEW w \in Workers, RestoreBegin(w) PROVE RecordsInv'
<1>1. h[w].pc = "restoreBegin" /\ conn[w] /\ h[w].pc # "idle" /\ h[w].pc \notin Unread
  BY DEF RestoreBegin, At, Unread
<1>2. lock = w /\ HeldAt(w) /\ h[w].mode = "restore"
  BY <1>1, SessionHeld, ModeOf DEF RecordsInv
<1>3. CASE Admits(w) /\ Op(w).status = "applying" /\ Claim(w, "recovering", "restore")
  <2>1. Clean(h[w].ctx.perms)
    BY <1>1, <1>3, AdmittedClean
  <2>2. Op(w).status # "completed" /\ Op(w).status \in InFlight
    BY <1>3 DEF InFlight
  <2> QED BY <1>1, <1>2, <1>3, <2>1, <2>2, ClaimKeeps
<1>4. CASE Proceed(w, "toRecovery")
  <2>1. /\ Now(w, "toRecovery", h[w].mode, h[w].ctx, h[w].epoch)
        /\ UNCHANGED <<ops, lock, conn, acked, Local>> /\ TypeOK'
    BY <1>1, <1>4, ProceedEffect, "toRecovery" \in Pcs DEF RecordsInv, Pcs
  <2>2. PlacedAt(w)' /\ HeldAt(w)'
    BY <1>1, <1>2, <2>1 DEF PlacedAt, HeldAt, Now, Restoring, Op, Local
  <2>3. "toRecovery" \notin Sending /\ UNCHANGED <<ops, base, lock, conn, caps, version, perms, wire, acked>>
    BY <2>1 DEF Sending, Local, hasura
  <2> QED BY <1>1, <2>1, <2>2, <2>3, WalkKeeps
<1> QED BY <1>3, <1>4, RestoreBeginEffect DEF RecordsInv

\* A handler proceeds among the places of its mode.
LEMMA StepKeeps ==
  ASSUME RecordsInv, NEW w \in Workers, h[w].mode # "none", NEW p \in Pcs, Proceed(w, p),
         p # "idle", p # "confirm", p \notin Sending \/ h[w].pc \in Sending,
         h[w].mode = "apply" => p \in Applying,
         h[w].mode = "restore" => p \in Restoring /\ h[w].pc # "restoreBegin" /\ h[w].pc # "toRecovery",
         h[w].mode = "recover" => p \in Recovering
  PROVE  RecordsInv'
<1>1. PlacedAt(w) /\ SenderAt(w)
  BY DEF RecordsInv, HandlersSound
<1>2. h[w].pc # "idle" /\ h[w].pc \notin Unread
  <2>1. h[w].pc \notin Planning
    <3>1. h[w].mode \in Modes
      BY HandlerFields DEF RecordsInv, TypeOK, HandlerTyped
    <3> QED BY <1>1, <3>1 DEF PlacedAt, Planning, Applying, Restoring, Recovering, Sending, Modes
  <2> QED BY <2>1 DEF Planning, Unread
<1>3. /\ Now(w, p, h[w].mode, h[w].ctx, h[w].epoch)
      /\ UNCHANGED <<ops, lock, conn, acked, Local>> /\ TypeOK'
  BY <1>2, ProceedEffect DEF RecordsInv
<1>4. UNCHANGED <<ops, base, lock, conn, caps, version, perms, wire, acked>>
  BY <1>3 DEF Local, hasura
<1>5. /\ h'[w].pc = p /\ h'[w].mode = h[w].mode /\ h'[w].op = h[w].op
      /\ h'[w].ctx = h[w].ctx
  BY <1>3 DEF Now
<1>6. PlacedAt(w)'
  BY <1>5 DEF PlacedAt
<1>7. lock = w => HeldAt(w)'
  <2>1. lock = w => HeldAt(w)
    BY DEF RecordsInv, HandlersSound
  <2> QED BY <1>2, <1>4, <1>5, <2>1 DEF HeldAt, Op
<1> QED BY <1>2, <1>3, <1>4, <1>6, <1>7, WalkKeeps

\* RecordsInv through a renewal.
LEMMA RenewKeeps ==
  ASSUME RecordsInv, NEW w \in Workers, Renew(w) PROVE RecordsInv'
<1>1. h[w].pc \in {"renew", "renewFallback"} /\ h[w].pc # "idle" /\ h[w].pc \in Sending
      /\ h[w].pc \notin Planning
  BY DEF Renew, At, Sending, Planning
<1>2. h[w].mode # "none" /\ h[w].pc # "restoreBegin" /\ h[w].pc # "toRecovery"
  BY <1>1, ModeOf
<1>3. CASE Refuse(w)
  BY <1>1, <1>3, RefuseKeeps
<1>4. CASE ~Refuse(w)
  <2>1. PICK p \in {"send", "sendFallback"} : Proceed(w, p)
    BY <1>4, RenewEffect DEF RecordsInv
  <2>2. p \in Pcs /\ p \in Applying /\ p \in Restoring /\ p \in Recovering
        /\ p # "idle" /\ p # "confirm"
    BY DEF Pcs, Applying, Restoring, Recovering, Sending
  <2> QED BY <1>1, <1>2, <2>1, <2>2, StepKeeps
<1> QED BY <1>3, <1>4

\* Sending a request keeps the handler's own facts.
LEMMA SendRequestKeeps ==
  ASSUME RecordsInv, NEW w \in Workers, h[w].pc \in {"send", "sendFallback"},
         NEW k \in RequestKinds, SendRequest(w, k)
  PROVE  RecordsInv'
<1>1. h[w].pc # "idle" /\ h[w].pc \in Sending /\ h[w].pc \notin Planning /\ h[w].pc \notin Unread
  BY DEF Sending, Planning, Unread
<1>2. h[w].mode # "none" /\ PlacedAt(w) /\ SenderAt(w) /\ VersionAt(w)
  BY <1>1, ModeOf
<1>3. PICK r \in Request : IsRequest(r, w) /\ wire' = wire \cup {r}
  BY <1>1, SendRequestEffect DEF RecordsInv
<1>4. /\ Now(w, "await", h[w].mode, h[w].ctx, h[w].epoch)
      /\ UNCHANGED <<rows, hasura, caps, depOk, lock, conn, acked, edited, bounds>> /\ TypeOK'
  BY <1>1, SendRequestEffect DEF RecordsInv
<1>5. UNCHANGED <<ops, base, lock, conn, caps, version, perms, acked>>
  BY <1>4 DEF rows, hasura
<1>6. /\ h'[w].pc = "await" /\ h'[w].mode = h[w].mode /\ h'[w].op = h[w].op
  BY <1>4 DEF Now
<1>7. PlacedAt(w)'
  BY <1>2, <1>6 DEF PlacedAt, Applying, Restoring, Recovering, Sending
<1>8. lock = w => HeldAt(w)'
  <2>1. lock = w => HeldAt(w)
    BY DEF RecordsInv, HandlersSound
  <2>2. h'[w].ctx = h[w].ctx
    BY <1>4 DEF Now
  <2> QED BY <1>1, <1>2, <1>5, <1>6, <2>1, <2>2 DEF HeldAt, Op
<1>9. "await" \notin {"idle", "confirm"} /\ ("await" \in Sending => h[w].pc \in Sending)
      /\ UNCHANGED <<ops, lock, conn, caps, version, perms>>
  BY <1>1, <1>5
<1>10. HandlersSound'
  BY <1>1, <1>4, <1>7, <1>8, <1>9, ProceedSound DEF RecordsInv
<1>11. From(w) = h[w].ctx.perms
  BY <1>1, <1>2 DEF SenderAt, From
<1>12. RequestsSound'
  <2>1. /\ r.ver = h[w].ctx.ver /\ r.from = h[w].ctx.perms /\ Clean(r.from)
    BY <1>1, <1>2, <1>3, <1>11 DEF IsRequest, SenderAt
  <2>2. 0 < r.ver /\ r.ver <= version /\ (r.ver = version => r.from = perms)
    BY <1>1, <1>2, <2>1, Worker DEF VersionAt, RecordsInv, HandlerTyped
  <2> QED BY <1>3, <1>5, <2>1, <2>2 DEF RecordsInv, RequestsSound, Clean
<1>13. RowsSound'
  BY <1>5, RowsKept DEF RecordsInv, RowsSound, AckedIsCompleted
<1> QED BY <1>4, <1>5, <1>10, <1>12, <1>13 DEF RecordsInv

\* RecordsInv through a send.
LEMMA SendKeeps ==
  ASSUME RecordsInv, NEW w \in Workers, Send(w) \/ SendFallback(w) PROVE RecordsInv'
<1>1. h[w].pc \in {"send", "sendFallback"} /\ h[w].pc # "idle" /\ h[w].pc \notin Planning
      /\ h[w].pc # "restoreBegin" /\ h[w].pc # "toRecovery"
  BY DEF Send, SendFallback, At, Planning
<1>2. h[w].mode # "none"
  BY <1>1, ModeOf
<1>3. CASE Proceed(w, "verify")
  <2>1. "verify" \in Pcs /\ "verify" \in Applying /\ "verify" \in Restoring /\ "verify" \in Recovering
        /\ "verify" \notin Sending
    BY DEF Pcs, Applying, Restoring, Recovering, Sending
  <2> QED BY <1>1, <1>2, <1>3, <2>1, StepKeeps
<1>4. ASSUME NEW k \in RequestKinds, SendRequest(w, k) PROVE RecordsInv'
  BY <1>1, <1>4, SendRequestKeeps
<1> QED BY <1>3, <1>4, SendEffect DEF RecordsInv

\* RecordsInv through an answer received.
LEMMA ReceiveKeeps ==
  ASSUME RecordsInv, NEW w \in Workers, Receive(w) PROVE RecordsInv'
<1>1. h[w].pc = "await" /\ h[w].pc \in Sending /\ h[w].pc \notin Unread /\ h[w].pc \notin Planning
      /\ h[w].pc # "idle"
  BY DEF Receive, At, Sending, Unread, Planning
<1>2. h[w].mode # "none" /\ PlacedAt(w)
  BY <1>1, ModeOf
<1>3. PICK p \in Pcs \ {"idle"} :
        /\ Now(w, p, h[w].mode, h[w].ctx, h[w].epoch)
        /\ \/ resp[w] = "ok" /\ p = "verify"
           \/ resp[w] = "unsupported" /\ p = "renewFallback"
           \/ resp[w] = "rejected" /\ h[w].mode = "apply" /\ p = "toFailed"
           \/ p = "toRecovery"
  BY ReceiveEffect DEF RecordsInv
<1>4. TypeOK' /\ UNCHANGED <<ops, base, lock, conn, caps, version, perms, wire, acked>>
  BY ReceiveEffect DEF RecordsInv, rows, hasura
<1>5. /\ h'[w].pc = p /\ h'[w].mode = h[w].mode /\ h'[w].op = h[w].op
      /\ h'[w].ctx = h[w].ctx
  BY <1>3 DEF Now
<1>6. PlacedAt(w)'
  BY <1>2, <1>3, <1>5 DEF PlacedAt, Applying, Restoring, Recovering, Sending
<1>7. lock = w => HeldAt(w)'
  <2>1. lock = w => HeldAt(w)
    BY DEF RecordsInv, HandlersSound
  <2> QED BY <1>1, <1>2, <1>4, <1>5, <2>1 DEF HeldAt, Op
<1>8. p # "idle" /\ p # "confirm"
  BY <1>3
<1> QED BY <1>1, <1>3, <1>4, <1>6, <1>7, <1>8, WalkKeeps

\* RecordsInv through a verification.
LEMMA VerifyKeeps ==
  ASSUME RecordsInv, NEW w \in Workers, VerifyTarget(w) \/ VerifySource(w) PROVE RecordsInv'
<1>1. h[w].pc = "verify" /\ h[w].pc \notin Planning /\ h[w].pc # "idle"
  BY VerifyEffect DEF RecordsInv, At, Planning
<1>2. h[w].mode # "none"
  BY <1>1, ModeOf
<1>3. PICK p \in {"commit", "restoreLoad", "settle", "toRecovery"} :
        /\ Proceed(w, p)
        /\ p \in {"commit", "restoreLoad"} => h[w].mode = "apply"
        /\ p \in {"settle", "toRecovery"} => h[w].mode \in {"restore", "recover"}
  BY VerifyEffect DEF RecordsInv
<1>4. /\ p \in Pcs /\ p \notin Sending /\ p # "idle" /\ p # "confirm"
      /\ h[w].mode = "apply" => p \in Applying
      /\ h[w].mode = "restore" => p \in Restoring /\ h[w].pc # "restoreBegin" /\ h[w].pc # "toRecovery"
      /\ h[w].mode = "recover" => p \in Recovering
  BY <1>1, <1>3 DEF Pcs, Sending, Applying, Restoring, Recovering
<1> QED BY <1>2, <1>3, <1>4, StepKeeps

\* What a commit does to the rows, its answer lost or not.
LEMMA CommitRows ==
  ASSUME RecordsInv, NEW w \in Workers, h[w].pc # "idle", Commits(w),
         UNCHANGED caps, acked' \subseteq acked \cup {h[w].op}
  PROVE  RowsSound' /\ SourcesKept
<1>1. h[w].op \in Ops /\ Op(w).status = "applying"
  BY Worker DEF RecordsInv, Commits, MayCommit
<1>2. RowsSound'
  BY <1>1, RowsWritten DEF RecordsInv, Op, Commits
<1> QED BY <1>1, <1>2, ChangesSources DEF Commits

\* RecordsInv through a commit.
LEMMA CommitKeeps ==
  ASSUME RecordsInv, NEW w \in Workers, Commit(w) PROVE RecordsInv'
<1>1. h[w].pc = "commit" /\ conn[w] /\ h[w].pc # "idle"
  BY DEF Commit, At
<1>2. lock = w /\ HeldAt(w) /\ h[w].mode = "apply"
  BY <1>1, SessionHeld, ModeOf DEF RecordsInv
<1>3. CASE Proceed(w, "restoreLoad")
  <2>1. "restoreLoad" \in Pcs /\ "restoreLoad" \notin Sending /\ "restoreLoad" \in Applying
    BY DEF Pcs, Sending, Applying
  <2> QED BY <1>2, <1>3, <2>1, StepKeeps
<1>4. CASE ~Proceed(w, "restoreLoad")
  <2>1. /\ Commits(w) /\ Leaves(w) /\ acked' = acked \cup {h[w].op} /\ TypeOK'
        /\ UNCHANGED <<hasura, caps, depOk, wire, resp, edited, bounds>>
    BY <1>4, CommitsEffect DEF RecordsInv
  <2>2. RowsSound' /\ SourcesKept
    BY <1>1, <2>1, CommitRows
  <2> QED BY <1>1, <1>2, <2>1, <2>2, LeavesKeeps DEF hasura
<1> QED BY <1>3, <1>4

\* RecordsInv through a last transition.
LEMMA MarkKeeps ==
  ASSUME RecordsInv, NEW w \in Workers, Marks(w) PROVE RecordsInv'
<1>1. h[w].pc # "idle" /\ conn[w]
  BY DEF Marks, MarkFailed, MarkRecoveryRequired, MarkRestored, At
<1>2. lock = w /\ h[w].op \in Ops
  BY <1>1, SessionHeld, Worker DEF RecordsInv
<1>3. TypeOK' /\ Leaves(w) /\ UNCHANGED <<acked, Local>>
  BY MarkEffect DEF RecordsInv
<1>4. UNCHANGED <<base, caps, version, perms, wire>>
  BY <1>3 DEF Local, hasura
<1>5. CASE UNCHANGED ops
  <2>1. RowsSound' /\ SourcesKept
    BY <1>3, <1>4, <1>5, RowsKept, SameSources DEF RecordsInv, RowsSound, AckedIsCompleted
  <2> QED BY <1>1, <1>2, <1>3, <1>4, <2>1, LeavesKeeps
<1>6. ASSUME NEW s \in {"failed", "recovery_required"}, Closes(w, s),
             Op(w).status \in {"applying", "recovering"}
      PROVE  RecordsInv'
  <2>1. /\ Changes(h[w].op, s) /\ ops'[h[w].op].wrote = ops[h[w].op].wrote
        /\ s # "completed" /\ s # "absent" /\ ops[h[w].op].status # "completed"
        /\ ops[h[w].op].status \in InFlight
    BY <1>6 DEF Closes, Op, InFlight
  <2>2. RowsSound'
    BY <1>2, <1>3, <1>4, <2>1, RowsMoved DEF RecordsInv, TypeOK
  <2>3. SourcesKept
    BY <1>2, <2>1, ChangesSources
  <2> QED BY <1>1, <1>2, <1>3, <1>4, <2>2, <2>3, LeavesKeeps
<1> QED BY <1>5, <1>6, MarkEffect DEF RecordsInv

\* Requests that become nobody's stay sound.
LEMMA OrphansRequests ==
  ASSUME RequestsSound, NEW w, Orphans(w), UNCHANGED <<version, perms>> PROVE RequestsSound'
<1>1. \A r \in wire' : \E s \in wire : r.ver = s.ver /\ r.from = s.from
  BY DEF Orphans
<1> QED BY <1>1, RequestsKept

\* RecordsInv through a timeout.
LEMMA TimeoutKeeps ==
  ASSUME RecordsInv, NEW w \in Workers, Timeout(w) PROVE RecordsInv'
<1>1. h[w].pc = "await" /\ h[w].pc \notin Planning /\ h[w].pc \notin Unread /\ h[w].pc # "idle"
  BY TimeoutEffect DEF RecordsInv, At, Planning, Unread
<1>2. h[w].mode # "none"
  BY <1>1, ModeOf
<1>3. /\ TypeOK' /\ Orphans(w)
      /\ Now(w, "toRecovery", h[w].mode, h[w].ctx, h[w].epoch)
      /\ UNCHANGED <<ops, base, lock, conn, caps, version, perms, acked>>
  BY TimeoutEffect DEF RecordsInv, rows, hasura
<1>4. PlacedAt(w)'
  BY <1>2, <1>3 DEF Now, PlacedAt, Applying, Restoring, Recovering
<1>5. lock = w => HeldAt(w)'
  <2>1. lock = w => HeldAt(w)
    BY DEF RecordsInv, HandlersSound
  <2>2. h'[w].pc = "toRecovery" /\ h'[w].mode = h[w].mode /\ h'[w].op = h[w].op /\ h'[w].ctx = h[w].ctx
    BY <1>3 DEF Now
  <2> QED BY <1>1, <1>2, <1>3, <2>1, <2>2 DEF HeldAt, Op
<1>6. "toRecovery" \notin {"idle", "confirm"} /\ ("toRecovery" \in Sending => h[w].pc \in Sending)
      /\ UNCHANGED <<ops, lock, conn, caps, version, perms>>
  BY <1>3 DEF Sending
<1>7. HandlersSound'
  BY <1>1, <1>3, <1>4, <1>5, <1>6, ProceedSound DEF RecordsInv
<1>8. RequestsSound'
  BY <1>3, OrphansRequests DEF RecordsInv
<1> QED BY <1>3, <1>7, <1>8, RowsKept DEF RecordsInv, RowsSound, AckedIsCompleted

\* RecordsInv through a crash.
LEMMA CrashKeeps ==
  ASSUME RecordsInv, NEW w \in Workers, Crash(w) PROVE RecordsInv'
<1>1. /\ TypeOK' /\ h[w].pc # "idle" /\ Orphans(w) /\ Leaves(w)
      /\ UNCHANGED <<ops, base, caps, version, perms, acked>>
  BY CrashEffect DEF RecordsInv, rows, hasura
<1>2. HandlersSound'
  BY <1>1, LeavesSound, SameSources DEF RecordsInv
<1> QED BY <1>1, <1>2, OrphansRequests, RowsKept DEF RecordsInv, RowsSound, AckedIsCompleted

\* RecordsInv through a lost session.
LEMMA DropKeeps ==
  ASSUME RecordsInv, NEW w \in Workers, DropSession(w) PROVE RecordsInv'
<1>1. /\ TypeOK' /\ h[w].pc # "idle" /\ conn'[w] = FALSE
      /\ \A v \in Workers \ {w} : conn'[v] = conn[v]
      /\ lock' = IF lock = w THEN NoWorker ELSE lock
      /\ UNCHANGED <<ops, base, version, perms, caps, h, wire, acked>>
  BY DropEffect DEF RecordsInv, rows, hasura
<1>2. lock' # w
  BY <1>1, PolicyOperationAssumption
<1>3. ASSUME NEW v \in Workers \ {w}
      PROVE  /\ SessionAt(v)' /\ PlacedAt(v)' /\ SenderAt(v)' /\ VersionAt(v)'
             /\ lock' = v => HeldAt(v)'
  BY <1>1, OthersSound, SameSources DEF RecordsInv, Others
<1>4. SessionAt(w)' /\ PlacedAt(w)' /\ SenderAt(w)' /\ VersionAt(w)'
  BY <1>1, <1>2
     DEF RecordsInv, HandlersSound, SessionAt, PlacedAt, SenderAt, VersionAt, Op, Clean
<1>5. HandlersSound'
  BY <1>2, <1>3, <1>4 DEF HandlersSound
<1> QED BY <1>1, <1>5, RequestsSame, RowsKept DEF RecordsInv, RowsSound, AckedIsCompleted

\* RecordsInv through a failed export.
LEMMA ExportKeeps ==
  ASSUME RecordsInv, NEW w \in Workers, ExportFails(w) PROVE RecordsInv'
<1>1. TypeOK' /\ UNCHANGED <<ops, base, caps, version, perms, wire, acked>>
  BY ExportEffect DEF RecordsInv, rows, hasura
<1>2. CASE (At(w, "load") \/ At(w, "load2")) /\ Leaves(w)
  <2>1. HandlersSound'
    BY <1>1, <1>2, LeavesSound, SameSources DEF RecordsInv, At
  <2> QED BY <1>1, <2>1, RequestsSame, RowsKept DEF RecordsInv, RowsSound, AckedIsCompleted
<1>3. CASE /\ UNCHANGED <<lock, conn>>
           /\ \/ /\ At(w, "verify") /\ h[w].mode = "apply"
                 /\ Now(w, "restoreLoad", "apply", h[w].ctx, h[w].epoch)
              \/ /\ At(w, "verify") /\ h[w].mode # "apply"
                 /\ Now(w, "toRecovery", h[w].mode, h[w].ctx, h[w].epoch)
  <2>1. PICK p \in {"restoreLoad", "toRecovery"} :
          /\ Now(w, p, h[w].mode, h[w].ctx, h[w].epoch)
          /\ p = "restoreLoad" => h[w].mode = "apply"
    BY <1>3
  <2>2. h[w].pc = "verify" /\ h[w].pc \notin Planning /\ h[w].pc \notin Unread /\ h[w].pc # "idle"
    BY <1>3 DEF At, Planning, Unread
  <2>3. h[w].mode # "none"
    BY <2>2, ModeOf
  <2>4. p # "idle" /\ p # "confirm" /\ p \notin Sending
    BY DEF Sending
  <2>5. h'[w].pc = p /\ h'[w].mode = h[w].mode /\ h'[w].op = h[w].op /\ h'[w].ctx = h[w].ctx
    BY <2>1 DEF Now
  <2>6. PlacedAt(w)'
    BY <2>1, <2>3, <2>5 DEF PlacedAt, Applying, Restoring, Recovering
  <2>7. lock = w => HeldAt(w)'
    <3>1. lock = w => HeldAt(w)
      BY DEF RecordsInv, HandlersSound
    <3> QED BY <1>1, <2>2, <2>3, <2>5, <3>1 DEF HeldAt, Op
  <2>8. UNCHANGED <<ops, base, lock, conn, caps, version, perms, wire, acked>>
    BY <1>1, <1>3
  <2> QED BY <1>1, <2>1, <2>2, <2>4, <2>6, <2>7, <2>8, WalkKeeps
<1>4. CASE /\ UNCHANGED <<lock, conn>> /\ At(w, "restoreLoad")
           /\ Now(w, "toRecovery", "restore", h[w].ctx, h[w].epoch)
  <2>1. h[w].pc = "restoreLoad" /\ h[w].pc \notin Unread /\ h[w].pc # "idle"
    BY <1>4 DEF At, Unread
  <2>2. h[w].mode = "apply" /\ SenderAt(w) /\ VersionAt(w)
    BY <2>1, ModeOf
  <2>3. h'[w].pc = "toRecovery" /\ h'[w].mode = "restore" /\ h'[w].op = h[w].op
        /\ h'[w].ctx = h[w].ctx
    BY <1>4 DEF Now
  <2>4. PlacedAt(w)' /\ SenderAt(w)' /\ VersionAt(w)'
    BY <1>1, <2>1, <2>2, <2>3
       DEF PlacedAt, SenderAt, VersionAt, Restoring, Sending, Unread, Op
  <2>5. lock = w => HeldAt(w)'
    <3>1. lock = w => HeldAt(w)
      BY DEF RecordsInv, HandlersSound
    <3> QED BY <1>1, <2>1, <2>2, <2>3, <3>1 DEF HeldAt, Op
  <2>6. "toRecovery" \notin {"idle", "confirm"} /\ UNCHANGED <<lock, conn, caps, version, perms>>
        /\ UNCHANGED ops
    BY <1>1, <1>4
  <2>7. HandlersSound'
    BY <1>4, <2>1, <2>4, <2>5, <2>6, SameSources, NowSound DEF RecordsInv
  <2> QED BY <1>1, <2>7, RequestsSame, RowsKept DEF RecordsInv, RowsSound, AckedIsCompleted
<1> QED BY <1>2, <1>3, <1>4, ExportEffect DEF RecordsInv

\* RecordsInv through a lost commit.
LEMMA CommitLostKeeps ==
  ASSUME RecordsInv, NEW w \in Workers, CommitLost(w) PROVE RecordsInv'
<1>1. /\ TypeOK' /\ conn[w] /\ lock' = NoWorker
      /\ \A v \in Workers \ {w} : conn'[v] = conn[v]
      /\ UNCHANGED <<version, perms, caps, wire, acked>>
  BY CommitLostEffect DEF RecordsInv, hasura
<1>2. h[w].pc # "idle"
  BY DEF CommitLost, At, Deciding
<1>3. lock = w /\ HeldAt(w)
  BY <1>1, <1>2, SessionHeld DEF RecordsInv
<1>4. CASE /\ At(w, "commit") /\ conn'[w] = FALSE
           /\ Now(w, "confirm", h[w].mode, h[w].ctx, h[w].epoch)
           /\ Commits(w) \/ UNCHANGED rows
  <2>1. RowsSound' /\ SourcesKept
    BY <1>1, <1>2, <1>4, CommitRows, RowsKept, SameSources
       DEF RecordsInv, RowsSound, AckedIsCompleted, rows
  <2>2. ASSUME NEW v \in Workers \ {w}
        PROVE  /\ SessionAt(v)' /\ PlacedAt(v)' /\ SenderAt(v)' /\ VersionAt(v)'
               /\ lock' = v => HeldAt(v)'
    BY <1>1, <1>3, <1>4, <2>1, OthersSound DEF RecordsInv, Now
  <2>3. h[w].pc = "commit" /\ h[w].mode = "apply" /\ SenderAt(w) /\ VersionAt(w) /\ h[w].op \in Ops
    BY <1>2, <1>4, ModeOf, Worker DEF At, RecordsInv
  <2>4. h'[w].pc = "confirm" /\ h'[w].mode = "apply" /\ h'[w].ctx = h[w].ctx /\ h'[w].op = h[w].op
    BY <1>4, <2>3 DEF Now
  <2>5. lock' # w
    BY <1>1, PolicyOperationAssumption
  <2>6. SessionAt(w)' /\ PlacedAt(w)' /\ SenderAt(w)' /\ VersionAt(w)'
    BY <1>1, <1>4, <2>1, <2>3, <2>4, <2>5
       DEF SessionAt, PlacedAt, SenderAt, VersionAt, Applying, Sending, Unread, SourcesKept, Op
  <2>7. HandlersSound'
    BY <2>2, <2>5, <2>6 DEF HandlersSound
  <2> QED BY <1>1, <2>1, <2>7, RequestsSame DEF RecordsInv
<1>5. CASE /\ Deciding(w, "applyAdoption") /\ AdoptionReady(w) /\ conn'[w] = TRUE
           /\ h' \in [Workers -> Handler] /\ h'[w] = Idle /\ Others(w)
           /\ \/ /\ Changes(h[w].op, "completed") /\ ops'[h[w].op].wrote = Op(w).wrote
                 /\ base'.rev = 1 /\ base'.perms = h[w].ctx.perms
              \/ UNCHANGED rows
  <2>1. h[w].mode = "none"
    BY <1>2, <1>5, ModeOf DEF Deciding, At, Planning
  <2>2. RowsSound' /\ SourcesKept
    <3>1. CASE UNCHANGED rows
      BY <1>1, <3>1, RowsKept, SameSources DEF RecordsInv, RowsSound, AckedIsCompleted, rows
    <3>2. CASE ~UNCHANGED rows
      BY <1>1, <1>2, <1>3, <1>5, <2>1, <3>2, AdoptionRows
    <3> QED BY <3>1, <3>2
  <2>3. Leaves(w)
    BY <1>1, <1>3, <1>5 DEF Leaves, TypeOK
  <2> QED BY <1>1, <1>2, <1>3, <2>2, <2>3, LeavesKeeps
<1> QED BY <1>4, <1>5, CommitLostEffect DEF RecordsInv

-----------------------------------------------------------------------------
(* Hasura, and what happens beside policy operations.                      *)

\* RecordsInv through a request that reaches Hasura.
LEMMA HasuraKeeps ==
  ASSUME RecordsInv, NEW r \in wire,
         \/ HasuraRejects(r) \/ HasuraUnsupported(r) \/ HasuraApplies(r) \/ HasuraStopsMidway(r)
  PROVE  RecordsInv'
<1>1. TypeOK' /\ (Declined(r) \/ Performed(r))
  BY HasuraEffect DEF RecordsInv
<1>2. /\ wire' \subseteq wire
      /\ UNCHANGED <<ops, base, caps, lock, h, conn, acked>>
  BY <1>1 DEF Declined, Performed, Taken, rows
<1>3. RowsSound'
  BY <1>2, RowsKept DEF RecordsInv, RowsSound, AckedIsCompleted
<1>4. CASE Declined(r)
  <2>1. UNCHANGED <<version, perms>>
    BY <1>4 DEF Declined, hasura
  <2> QED BY <1>1, <1>2, <1>3, <2>1, NothingMoved, RequestsKept DEF RecordsInv
<1>5. CASE Performed(r)
  <2>1. version' = version + 1
    BY <1>5 DEF Performed
  <2> QED BY <1>1, <1>2, <1>3, <2>1, HandlersPassed, RequestsPassed DEF RecordsInv, TypeOK
<1> QED BY <1>1, <1>4, <1>5

\* RecordsInv through a change beside policy operations.
LEMMA EnvironmentKeeps ==
  ASSUME RecordsInv, \/ \E o \in Ops : LeaseAges(o)
                     \/ MetadataChange \/ OrdinaryMutation \/ DependencyChange
  PROVE  RecordsInv'
<1>1. ASSUME NEW o \in Ops, LeaseAges(o) PROVE RecordsInv'
  <2>1. /\ TypeOK' /\ Changes(o, ops[o].status) /\ ops'[o].wrote = ops[o].wrote
        /\ UNCHANGED <<base, version, perms, caps, lock, h, conn, wire, acked>>
        /\ ops[o].status \in InFlight
    BY <1>1, LeaseEffect DEF RecordsInv, hasura, LeaseAges
  <2>2. ops[o].status # "completed" /\ ops[o].status # "absent"
    BY <2>1 DEF InFlight
  <2>3. RowsSound'
    BY <2>1, <2>2, RowsMoved DEF RecordsInv, TypeOK
  <2>4. SourcesKept
    BY <2>1, <2>2, ChangesSources
  <2>5. \A p \in Ops : ops'[p].status = ops[p].status /\ SamePlan(ops'[p], ops[p])
    BY <2>1 DEF Changes, SamePlan
  <2>6. ASSUME NEW w \in Workers
        PROVE  /\ SessionAt(w)' /\ PlacedAt(w)' /\ SenderAt(w)' /\ VersionAt(w)'
               /\ lock' = w => HeldAt(w)'
    <3>1. /\ SessionAt(w) /\ PlacedAt(w) /\ SenderAt(w) /\ VersionAt(w)
          /\ lock = w => HeldAt(w)
      BY DEF RecordsInv, HandlersSound
    <3>2. SessionAt(w)' /\ PlacedAt(w)' /\ VersionAt(w)'
      BY <2>1, <3>1 DEF SessionAt, PlacedAt, VersionAt
    <3>3. h[w].pc # "idle" => h[w].op \in Ops
      BY DEF RecordsInv, TypeOK
    <3>4. h[w].pc = "idle" => h[w].mode = "none"
      BY <3>1, HandlerFields DEF PlacedAt, Applying, Restoring, Recovering, Sending,
                                 RecordsInv, TypeOK, HandlerTyped, Modes
    <3>5. SenderAt(w)'
      BY <2>1, <2>5, <3>1, <3>3, <3>4 DEF SenderAt, Op, SamePlan, Clean
    <3>6. lock' = w => HeldAt(w)'
      BY <2>1, <2>5, <3>1, <3>3 DEF HeldAt, PlansAt, Op, SamePlan, SessionAt
    <3> QED BY <3>2, <3>5, <3>6
  <2>7. HandlersSound'
    BY <2>6 DEF HandlersSound
  <2> QED BY <2>1, <2>3, <2>7, RequestsSame DEF RecordsInv
<1>2. CASE MetadataChange
  <2>1. /\ TypeOK' /\ version' = version + 1
        /\ UNCHANGED <<ops, base, caps, lock, h, conn, wire, acked>>
    BY <1>2, MetadataEffect DEF RecordsInv, rows
  <2> QED BY <2>1, HandlersPassed, RequestsPassed, RowsKept
          DEF RecordsInv, TypeOK, RowsSound, AckedIsCompleted
<1>3. CASE OrdinaryMutation
  <2>1. /\ TypeOK' /\ Superseded /\ lock = NoWorker
        /\ \A o \in Ops : ops[o].status \notin InFlight
        /\ UNCHANGED <<base, version, perms, lock, h, conn, wire, acked>>
    BY <1>3, OrdinaryEffect DEF RecordsInv, hasura
  <2>2. RowsSound'
    BY <2>1, RowsSuperseded DEF RecordsInv, TypeOK
  <2>3. SourcesKept
    BY <2>1, SupersededSources
  <2>4. ASSUME NEW w \in Workers
        PROVE  /\ SessionAt(w)' /\ PlacedAt(w)' /\ SenderAt(w)' /\ VersionAt(w)'
               /\ lock' # w
    <3>1. SessionAt(w) /\ PlacedAt(w) /\ SenderAt(w) /\ VersionAt(w)
      BY DEF RecordsInv, HandlersSound
    <3>2. SessionAt(w)' /\ PlacedAt(w)' /\ VersionAt(w)'
      BY <2>1, <3>1 DEF SessionAt, PlacedAt, VersionAt
    <3>3. h[w].pc # "idle" => h[w].op \in Ops
      BY DEF RecordsInv, TypeOK
    <3>4. h[w].pc = "idle" => h[w].mode = "none"
      BY <3>1, HandlerFields DEF PlacedAt, Applying, Restoring, Recovering, Sending,
                                 RecordsInv, TypeOK, HandlerTyped, Modes
    <3>5. SenderAt(w)'
      BY <2>1, <2>3, <3>1, <3>3, <3>4 DEF SenderAt, Op, SourcesKept, Clean
    <3> QED BY <2>1, <3>2, <3>5, PolicyOperationAssumption
  <2>5. HandlersSound'
    BY <2>4 DEF HandlersSound
  <2> QED BY <2>1, <2>2, <2>5, RequestsSame DEF RecordsInv
<1>4. CASE DependencyChange
  <2>1. /\ TypeOK'
        /\ UNCHANGED <<ops, base, version, perms, caps, lock, h, conn, wire, acked>>
    BY <1>4, DependencyEffect DEF RecordsInv, rows, hasura
  <2> QED BY <2>1, NothingMoved, RequestsSame, RowsKept DEF RecordsInv, RowsSound, AckedIsCompleted
<1> QED BY <1>1, <1>2, <1>3, <1>4

\* The invariant holds initially.
LEMMA RecordsInit == ASSUME Init PROVE RecordsInv
<1>1. TypeOK
  BY TypeOKInit
<1>2. version > 0 /\ RequestsSound
  BY DEF Init, RequestsSound
<1>3. RowsSound
  <2>1. \A o \in Ops : /\ ops[o].status = "absent" /\ ~ops[o].wrote /\ ops[o].kind = "none"
                       /\ ops[o].src = NoPermissions /\ ops[o].tgt = NoPermissions
    BY DEF Init, NoOp
  <2>2. \A o \in Ops : RowSound(ops[o])
    BY <2>1 DEF RowSound, Clean, NoPermissions
  <2>3. Tracked = {}
    BY <2>1 DEF Tracked
  <2>4. IsFiniteSet(Tracked) /\ Cardinality(Tracked) = 0
    BY <2>3, FS_EmptySet
  <2>5. base.rev \in {0, 1}
    BY DEF Init
  <2>6. OneRevisionPerOperation
    BY <2>4, <2>5 DEF OneRevisionPerOperation, Tracked
  <2> QED BY <2>1, <2>2, <2>4, <2>6
          DEF RowsSound, AckedIsCompleted, ColumnsFrozenInFlight, InFlight, Init
<1>4. HandlersSound
  <2>1. ASSUME NEW w \in Workers
        PROVE  SessionAt(w) /\ PlacedAt(w) /\ SenderAt(w) /\ VersionAt(w) /\ lock # w
    <3>1. h[w] = Idle /\ conn[w] = TRUE /\ lock = NoWorker /\ version = 1 /\ lock # w
      BY PolicyOperationAssumption DEF Init
    <3> QED BY <3>1, IdleTyped DEF SessionAt, PlacedAt, SenderAt, VersionAt, Planning, Unread
  <2> QED BY <2>1 DEF HandlersSound
<1> QED BY <1>1, <1>2, <1>3, <1>4 DEF RecordsInv

\* Every step keeps the invariant.
LEMMA RecordsStep == ASSUME RecordsInv, [Next]_vars PROVE RecordsInv'
<1>1. ASSUME NEW w \in Workers, NEW call \in Calls, NEW o \in Ops,
             withProjectDataAccessMutationLock(w, call, o)
      PROVE  RecordsInv'
  BY <1>1, AdmitKeeps
<1>2. ASSUME NEW w \in Workers, LoadContext(w) \/ LoadSecond(w) \/ RestoreLoad(w)
      PROVE  RecordsInv'
  BY <1>2, ReadKeeps
<1>3. ASSUME NEW w \in Workers,
             UpdateNew(w) \/ Decides(w) \/ CompleteNoop(w) \/ Previewing(w) \/ ApplyAdoption(w)
      PROVE  RecordsInv'
  BY <1>3, UpdateNewKeeps, DecideKeeps, NoopKeeps, PreviewingKeeps, ApplyAdoptionKeeps
<1>4. ASSUME NEW w \in Workers,
             BeginRecover(w) \/ BeginApply(w) \/ RestoreBegin(w) \/ Renew(w)
      PROVE  RecordsInv'
  BY <1>4, BeginRecoverKeeps, BeginApplyKeeps, RestoreBeginKeeps, RenewKeeps
<1>5. ASSUME NEW w \in Workers, (Send(w) \/ SendFallback(w)) \/ Receive(w)
                                \/ (VerifyTarget(w) \/ VerifySource(w))
      PROVE  RecordsInv'
  BY <1>5, SendKeeps, ReceiveKeeps, VerifyKeeps
<1>6. ASSUME NEW w \in Workers, Commit(w) \/ ConfirmCommit(w) \/ Marks(w) \/ DeadSession(w)
      PROVE  RecordsInv'
  <2>1. DeadSession(w) => Refuse(w) /\ h[w].pc # "idle"
    BY DEF DeadSession
  <2>2. ConfirmCommit(w) => h[w].pc # "idle"
    BY DEF ConfirmCommit, At
  <2> QED BY <1>6, <2>1, <2>2, CommitKeeps, ReplayKeeps, MarkKeeps, RefuseKeeps
<1>7. ASSUME NEW w \in Workers,
             Timeout(w) \/ CommitLost(w) \/ DropSession(w) \/ Crash(w) \/ ExportFails(w)
      PROVE  RecordsInv'
  BY <1>7, TimeoutKeeps, CommitLostKeeps, DropKeeps, CrashKeeps, ExportKeeps
<1>8. ASSUME NEW r \in wire, \/ HasuraRejects(r) \/ HasuraUnsupported(r)
                             \/ HasuraApplies(r) \/ HasuraStopsMidway(r)
      PROVE  RecordsInv'
  BY <1>8, HasuraKeeps
<1>9. ASSUME \/ \E o \in Ops : LeaseAges(o)
             \/ MetadataChange \/ OrdinaryMutation \/ DependencyChange
      PROVE  RecordsInv'
  BY <1>9, EnvironmentKeeps
<1>10. ASSUME UNCHANGED vars PROVE RecordsInv'
  <2>1. TypeOK'
    BY <1>10, TypeOKStep DEF RecordsInv
  <2> QED BY <1>10, <2>1, NothingMoved, RequestsSame, RowsKept
          DEF RecordsInv, RowsSound, AckedIsCompleted, vars
<1> QED BY <1>1, <1>2, <1>3, <1>4, <1>5, <1>6, <1>7, <1>8, <1>9, <1>10, StepCases

\* The invariant holds of every behaviour.
LEMMA RecordsAlways == Spec => []RecordsInv
BY RecordsInit, RecordsStep, PTL DEF Spec

\* The records of operations are sound whatever crashes, times out or arrives late: the
\* revision of the baseline counts the operations that wrote it, what a client was told
\* completed has, and no column moves under an operation in flight.
THEOREM OperationsAreSound == Spec => []OperationsSound
<1>1. RecordsInv => OperationsSound
  BY DEF RecordsInv, RowsSound, OperationsSound
<1> QED BY <1>1, RecordsAlways, PTL

\* A step changes the permissions of the table if Hasura performs a request or somebody
\* edits them in the console.
LEMMA PermsChange ==
  ASSUME RecordsInv, [Next]_vars, perms' # perms
  PROVE  \/ ConsoleEdit
         \/ \E r \in wire : r.ver \in {0, version}
<1>1. ASSUME NEW w \in Workers, NEW call \in Calls, NEW o \in Ops,
             withProjectDataAccessMutationLock(w, call, o)
      PROVE  FALSE
  BY <1>1 DEF withProjectDataAccessMutationLock, hasura
<1>2. ASSUME NEW w \in Workers, LoadContext(w) \/ LoadSecond(w) \/ RestoreLoad(w) PROVE FALSE
  BY <1>2 DEF LoadContext, LoadSecond, RestoreLoad, hasura
<1>3. ASSUME NEW w \in Workers,
             UpdateNew(w) \/ Decides(w) \/ CompleteNoop(w) \/ Previewing(w) \/ ApplyAdoption(w)
      PROVE  FALSE
  <2>1. \A p : Refuse(w) \/ ReplayCompleted(w) \/ Proceed(w, p) => UNCHANGED perms
    BY DEF Refuse, ReplayCompleted, Proceed, Local, hasura
  <2>2. \A k, t : Preview(w, k, t) => UNCHANGED perms
    BY DEF Preview, Local, hasura
  <2> QED BY <1>3, <2>1, <2>2
          DEF UpdateNew, Decides, UpdateExisting, ApplyReconcile, ApplyExtension, CompleteNoop,
              Previewing, PreviewAdoption, PreviewReconcile, PreviewExtension, ApplyAdoption,
              Local, hasura
<1>4. ASSUME NEW w \in Workers,
             BeginRecover(w) \/ BeginApply(w) \/ RestoreBegin(w) \/ Renew(w)
      PROVE  FALSE
  <2>1. \A p : Refuse(w) \/ Proceed(w, p) => UNCHANGED perms
    BY DEF Refuse, Proceed, Local, hasura
  <2>2. \A s, m : Claim(w, s, m) => UNCHANGED perms
    BY DEF Claim, Local, hasura
  <2> QED BY <1>4, <2>1, <2>2 DEF BeginRecover, BeginApply, RestoreBegin, Renew, Local, hasura
<1>5. ASSUME NEW w \in Workers, (Send(w) \/ SendFallback(w)) \/ Receive(w)
                                \/ (VerifyTarget(w) \/ VerifySource(w))
      PROVE  FALSE
  BY <1>5 DEF Send, SendFallback, SendRequest, Receive, VerifyTarget, VerifySource, Proceed,
              Local, hasura
<1>6. ASSUME NEW w \in Workers, Commit(w) \/ ConfirmCommit(w) \/ Marks(w) \/ DeadSession(w)
      PROVE  FALSE
  <2>1. \A p : Refuse(w) \/ Proceed(w, p) => UNCHANGED perms
    BY DEF Refuse, Proceed, Local, hasura
  <2>2. \A E, s : Close(w, E, s) => UNCHANGED perms
    BY DEF Close, Local, hasura
  <2> QED BY <1>6, <2>1, <2>2
          DEF Commit, ConfirmCommit, Marks, MarkFailed, MarkRecoveryRequired, MarkRestored,
              DeadSession, Local, hasura
<1>7. ASSUME NEW w \in Workers,
             Timeout(w) \/ CommitLost(w) \/ DropSession(w) \/ Crash(w) \/ ExportFails(w)
      PROVE  FALSE
  BY <1>7 DEF Timeout, CommitLost, DropSession, Crash, ExportFails, hasura
<1>8. ASSUME NEW r \in wire, \/ HasuraRejects(r) \/ HasuraUnsupported(r)
                             \/ HasuraApplies(r) \/ HasuraStopsMidway(r)
      PROVE  r.ver \in {0, version}
  BY <1>8 DEF HasuraRejects, HasuraUnsupported, HasuraApplies, HasuraStopsMidway, hasura
<1>9. ASSUME \/ \E o \in Ops : LeaseAges(o)
             \/ MetadataChange \/ OrdinaryMutation \/ DependencyChange
      PROVE  ConsoleEdit
  BY <1>9 DEF LeaseAges, MetadataChange, OtherMetadataChange, OrdinaryMutation,
              DependencyChange, hasura
<1>10. ASSUME UNCHANGED vars PROVE FALSE
  BY <1>10 DEF vars
<1> QED BY <1>1, <1>2, <1>3, <1>4, <1>5, <1>6, <1>7, <1>8, <1>9, <1>10, StepCases

\* No write of the platform, however late, removes the last rule it did not make: what a
\* request drops it has read at the version it is conditional on.
THEOREM ForeignRulesAreKept == Spec => ForeignRulesKept
<1> DEFINE Keeps == perms' # perms /\ "custom" \in {perms[k] : k \in Keys}
                      => \E k \in Keys : perms'[k] = "custom"
<1>1. ASSUME RecordsInv, [Next]_vars PROVE Keeps
  <2> SUFFICES ASSUME perms' # perms, "custom" \in {perms[k] : k \in Keys}
               PROVE  \E k \in Keys : perms'[k] = "custom"
    OBVIOUS
  <2>1. ~Clean(perms)
    BY DEF Clean
  <2>2. ConsoleEdit
    BY <1>1, <2>1, PermsChange, PerformedIsCurrent DEF RecordsInv
  <2>3. 1 \in Keys
    BY <1>1, <2>2 DEF ConsoleEdit, RecordsInv, TypeOK, Snapshots
  <2> QED BY <1>1, <2>2, <2>3 DEF ConsoleEdit, RecordsInv, TypeOK, Snapshots
<1> QED BY <1>1, RecordsAlways, PTL DEF Spec, ForeignRulesKept

-----------------------------------------------------------------------------
(* The inductive invariant of the writes.                                  *)

\* A row has one of these only once a write of it may have been sent.
Begun == Statuses \ {"absent", "preview_ready"}
Writing == {"send", "sendFallback"}
\* From the claim of the row, for as long as the outcome of no write is unknown.
Claimed == {"renew", "send", "await", "renewFallback", "sendFallback", "verify", "commit",
            "confirm", "restoreLoad", "restoreBegin", "toFailed", "settle"}

\* A worker waits for one request, of its operation.
AwaitedAt(r) ==
  r.w # NoWorker => h[r.w].pc = "await" /\ resp[r.w] = "none" /\ r.op = h[r.w].op
Awaited ==
  /\ \A r \in wire : AwaitedAt(r)
  /\ \A r, s \in wire : r.w = s.w /\ r.w # NoWorker => r = s

\* The holder of the lock has read a version no older than any write of the others.
FencedAt(w) ==
  h[w].pc \notin Unread =>
    /\ \A r \in wire : r.ver <= h[w].ctx.ver
    /\ \A v \in Workers \ {w} : h[v].pc \in Writing => h[v].ctx.ver <= h[w].ctx.ver

\* A write that is current belongs to an operation in flight.
Live(o, v) == ops[o].status \in Begun /\ (v = version => ops[o].status \in InFlight)
AllLive ==
  /\ \A r \in wire : Live(r.op, r.ver)
  /\ \A v \in Workers : h[v].pc \in Writing => Live(h[v].op, h[v].ctx.ver)

\* Nobody but the holder writes for an operation it has claimed for the first time.
SoleAt(w) ==
  h[w].pc \in Claimed /\ h[w].mode \in {"apply", "restore"} =>
    /\ \A r \in wire : r.op = h[w].op => r.w = w
    /\ \A v \in Workers \ {w} : h[v].pc \in Writing => h[v].op # h[w].op

\* A recovery settles once the version it read is past.
PassedAt(w) == h[w].pc = "settle" /\ h[w].mode = "recover" => version > h[w].ctx.ver

\* What the holder knows the metadata to hold.
Unwritten(w) == \/ h[w].pc \in {"renew", "send", "renewFallback", "sendFallback", "toFailed"}
                \/ h[w].pc = "await" /\ resp[w] \in {"none", "rejected", "unsupported"}
AgreesAt(w) ==
  /\ h[w].mode = "apply" /\ Unwritten(w) => perms = Op(w).src
  /\ h[w].pc = "commit" => perms = Op(w).tgt
  /\ h[w].pc = "settle" => perms = Op(w).src
  /\ h[w].pc \in {"decide", "begin"} /\ Settled => h[w].ctx.perms = perms

\* The baseline and the metadata: an operation in flight was planned from the baseline.
BaseAgrees ==
  base.rev # 0 => /\ \A o \in Ops : ops[o].status \in InFlight => ops[o].src = base.perms
                  /\ Settled => perms = base.perms

WriteInv ==
  /\ Awaited /\ AllLive
  /\ \A w \in Workers : lock = w => FencedAt(w) /\ SoleAt(w) /\ PassedAt(w)
  /\ ~edited => BaseAgrees /\ \A w \in Workers : lock = w => AgreesAt(w)

-----------------------------------------------------------------------------
(* A step of one handler.                                                  *)

\* Nothing of the others changes, nor the metadata; nobody changes the rows another holds.
HandlerMoves(w) ==
  /\ Others(w) /\ \A v \in Workers \ {w} : resp'[v] = resp[v]
  /\ UNCHANGED <<version, perms, edited>>
  /\ lock' = lock \/ (lock = w /\ lock' = NoWorker) \/ (lock = NoWorker /\ lock' = w)
  /\ lock \in {w, NoWorker} \/ UNCHANGED <<ops, base>>

\* No request is new, and none waits for w.
NoneNew(w) ==
  \A r \in wire' : /\ r.w # w
                   /\ \E s \in wire : /\ r.op = s.op /\ r.ver = s.ver
                                      /\ r.w # NoWorker => r = s
                                      /\ s.w \in {w, r.w}

\* No current write is left of an operation.
Quiet(o) ==
  /\ \A r \in wire : r.op = o => r.ver # version
  /\ \A v \in Workers : h[v].pc \in Writing /\ h[v].op = o => h[v].ctx.ver # version
\* What has begun stays begun, and what settles has no current write left.
StatusesMove ==
  \A o \in Ops : /\ ops[o].status \in Begun => ops'[o].status \in Begun
                 /\ ops[o].status \in InFlight /\ ops'[o].status \notin InFlight => Quiet(o)

\* A handler that writes has an operation and has read a version.
LEMMA Writer ==
  ASSUME TypeOK, NEW w \in Workers, h[w].pc \in Writing
  PROVE  h[w].op \in Ops /\ h[w].ctx.ver \in Nat
BY Worker DEF Writing, HandlerTyped

\* A step of one handler keeps the invariant, if its own part of it holds after.
LEMMA HandlerWrites ==
  ASSUME RecordsInv, WriteInv, NEW w \in Workers, HandlerMoves(w), NoneNew(w), StatusesMove,
         h'[w].pc \in Writing => lock = w /\ Op(w)'.status \in InFlight,
         lock' = w => FencedAt(w)' /\ SoleAt(w)' /\ PassedAt(w)',
         ~edited => BaseAgrees' /\ (lock' = w => AgreesAt(w)')
  PROVE  WriteInv'
<1>1. NoWorker # w
  BY PolicyOperationAssumption
<1>2. Awaited'
  <2>1. \A r \in wire' : r.w # NoWorker => r \in wire /\ r.w # w /\ r.w \in Workers
    BY RequestFields DEF NoneNew, RecordsInv, TypeOK, RequestTyped
  <2> QED BY <2>1 DEF WriteInv, Awaited, AwaitedAt, HandlerMoves, Others
<1>3. AllLive'
  <2>1. ASSUME NEW o \in Ops, NEW v, Live(o, v), v = version => ~Quiet(o) PROVE Live(o, v)'
    BY <2>1 DEF StatusesMove, HandlerMoves, Live
  <2>2. ASSUME NEW r \in wire' PROVE Live(r.op, r.ver)'
    <3>1. PICK s \in wire : r.op = s.op /\ r.ver = s.ver
      BY DEF NoneNew
    <3>2. s.op \in Ops /\ Live(s.op, s.ver) /\ (s.ver = version => ~Quiet(s.op))
      BY RequestFields DEF RecordsInv, TypeOK, RequestTyped, WriteInv, AllLive, Quiet
    <3> QED BY <2>1, <3>1, <3>2
  <2>3. ASSUME NEW v \in Workers, h'[v].pc \in Writing PROVE Live(h[v].op, h[v].ctx.ver)'
    <3>1. CASE v = w
      BY <2>3, <3>1 DEF Live, Op, InFlight, Begun, Statuses
    <3>2. CASE v # w
      <4>1. h'[v] = h[v]
        BY <3>2 DEF HandlerMoves, Others
      <4>2. /\ h[v].op \in Ops /\ Live(h[v].op, h[v].ctx.ver)
            /\ h[v].ctx.ver = version => ~Quiet(h[v].op)
        BY <2>3, <4>1, Writer DEF RecordsInv, WriteInv, AllLive, Quiet
      <4> QED BY <2>1, <4>1, <4>2
    <3> QED BY <3>1, <3>2
  <2> QED BY <2>2, <2>3 DEF AllLive
<1>4. ASSUME NEW u \in Workers, lock' = u, u # w
      PROVE  /\ FencedAt(u)' /\ SoleAt(u)' /\ PassedAt(u)'
             /\ ~edited => AgreesAt(u)'
  <2>1. lock = u /\ lock # w /\ h'[u] = h[u] /\ resp'[u] = resp[u] /\ NoWorker # u
    BY <1>4, PolicyOperationAssumption DEF HandlerMoves, Others
  <2>2. UNCHANGED <<ops, base, version, perms>> /\ h'[w].pc \notin Writing
    BY <2>1 DEF HandlerMoves
  <2>3. FencedAt(u) /\ SoleAt(u) /\ PassedAt(u) /\ (~edited => AgreesAt(u))
    BY <2>1 DEF WriteInv
  <2>4. \A v \in Workers \ {u} : h'[v].pc \in Writing => h'[v] = h[v]
    BY <2>2 DEF HandlerMoves, Others
  <2>5. FencedAt(u)'
    BY <2>1, <2>3, <2>4 DEF FencedAt, NoneNew
  <2>6. SoleAt(u)'
    BY <2>1, <2>3, <2>4, <1>4 DEF SoleAt, NoneNew
  <2>7. PassedAt(u)' /\ (~edited => AgreesAt(u)')
    BY <2>1, <2>2, <2>3 DEF PassedAt, AgreesAt, Unwritten, Op, Settled
  <2> QED BY <2>5, <2>6, <2>7
<1>5. edited' = edited
  BY DEF HandlerMoves
<1> QED BY <1>2, <1>3, <1>4, <1>5 DEF WriteInv

\* A request waits for nobody who is not awaiting it.
LEMMA NoneSame ==
  ASSUME RecordsInv, WriteInv, NEW w \in Workers, UNCHANGED wire,
         h[w].pc # "await" \/ resp[w] # "none"
  PROVE  NoneNew(w)
<1>1. \A r \in wire : r.w # w
  BY PolicyOperationAssumption DEF WriteInv, Awaited, AwaitedAt
<1> QED BY <1>1 DEF NoneNew

\* The requests a worker leaves behind wait for nobody.
LEMMA NoneOrphaned == ASSUME NEW w \in Workers, Orphans(w) PROVE NoneNew(w)
BY PolicyOperationAssumption DEF NoneNew, Orphans

\* The statuses in flight are as they were.
LEMMA StatusesSame ==
  ASSUME \A o \in Ops : /\ ops[o].status \in Begun => ops'[o].status \in Begun
                        /\ ops'[o].status \in InFlight <=> ops[o].status \in InFlight
                        /\ ops[o].status \in InFlight => ops'[o].src = ops[o].src
  PROVE  /\ StatusesMove /\ (Settled' <=> Settled)
         /\ BaseAgrees /\ UNCHANGED <<base, perms>> => BaseAgrees'
BY DEF StatusesMove, Settled, BaseAgrees

\* What the holder has read is as current as it was, or current.
LEMMA FencedMoves ==
  ASSUME RecordsInv, WriteInv, NEW w \in Workers, HandlerMoves(w), NoneNew(w),
         \/ h'[w].pc \in Unread
         \/ h'[w].ctx.ver = version
         \/ lock = w /\ h[w].pc \notin Unread /\ h'[w].ctx = h[w].ctx
  PROVE  FencedAt(w)'
<1>1. \A v \in Workers \ {w} : h'[v] = h[v] /\ h[v].ctx.ver <= version
  BY DEF HandlerMoves, Others, RecordsInv, HandlersSound, VersionAt
<1>2. \A r \in wire' : \E s \in wire : r.ver = s.ver /\ s.ver <= version
  BY DEF NoneNew, RecordsInv, RequestsSound
<1>3. CASE lock = w /\ h[w].pc \notin Unread /\ h'[w].ctx = h[w].ctx
  <2>1. FencedAt(w)
    BY <1>3 DEF WriteInv
  <2> QED BY <1>1, <1>2, <1>3, <2>1 DEF FencedAt, NoneNew
<1> QED BY <1>1, <1>2, <1>3 DEF FencedAt

\* A handler that has claimed its row stays the only one to write for it.
LEMMA SoleMoves ==
  ASSUME RecordsInv, WriteInv, NEW w \in Workers, h[w].pc # "idle", HandlerMoves(w), NoneNew(w),
         h'[w].op = h[w].op,
         \/ h'[w].pc \notin Claimed
         \/ h'[w].mode \notin {"apply", "restore"}
         \/ /\ lock = w /\ h[w].pc \in Claimed /\ h[w].mode \in {"apply", "restore"}
            /\ UNCHANGED wire
         \/ Op(w).status \notin Begun
  PROVE  SoleAt(w)'
<1>1. \A v \in Workers \ {w} : h'[v] = h[v]
  BY DEF HandlerMoves, Others
<1>2. CASE /\ lock = w /\ h[w].pc \in Claimed /\ h[w].mode \in {"apply", "restore"}
           /\ UNCHANGED wire
  <2>1. SoleAt(w)
    BY <1>2 DEF WriteInv
  <2> QED BY <1>1, <1>2, <2>1 DEF SoleAt
<1>3. CASE Op(w).status \notin Begun
  <2>1. \A r \in wire : r.op # h[w].op
    BY <1>3 DEF WriteInv, AllLive, Live, Op
  <2>2. \A v \in Workers : h[v].pc \in Writing => h[v].op # h[w].op
    BY <1>3 DEF WriteInv, AllLive, Live, Op
  <2> QED BY <1>1, <2>1, <2>2 DEF SoleAt, NoneNew
<1> QED BY <1>2, <1>3 DEF SoleAt

\* A handler that leaves.
LEMMA LeavesWrites ==
  ASSUME RecordsInv, WriteInv, NEW w \in Workers, Leaves(w), NoneNew(w), StatusesMove,
         \A v \in Workers \ {w} : resp'[v] = resp[v],
         UNCHANGED <<version, perms, edited>>, lock = w \/ UNCHANGED <<ops, base>>,
         ~edited => BaseAgrees'
  PROVE  WriteInv'
<1>1. HandlerMoves(w)
  BY DEF HandlerMoves, Leaves
<1>2. lock' # w /\ h'[w].pc \notin Writing
  BY IdleTyped, PolicyOperationAssumption DEF Leaves, Writing
<1> QED BY <1>1, <1>2, HandlerWrites

\* A handler that leaves the rows as they are.
LEMMA EndsWrites ==
  ASSUME RecordsInv, WriteInv, NEW w \in Workers, Leaves(w), NoneNew(w),
         \A v \in Workers \ {w} : resp'[v] = resp[v],
         UNCHANGED <<ops, base, version, perms, edited>>
  PROVE  WriteInv'
<1>1. StatusesMove /\ (BaseAgrees => BaseAgrees')
  BY StatusesSame
<1> QED BY <1>1, LeavesWrites DEF WriteInv

\* A handler that goes on.
LEMMA NowWrites ==
  ASSUME RecordsInv, WriteInv, NEW w \in Workers, h[w].pc # "idle",
         NEW p, NEW m, NEW c, NEW e, Now(w, p, m, c, e), NoneNew(w), StatusesMove,
         \A v \in Workers \ {w} : resp'[v] = resp[v],
         UNCHANGED <<version, perms, edited, lock>>, lock = w \/ UNCHANGED <<ops, base>>,
         p \in Writing => lock = w /\ Op(w)'.status \in InFlight,
         c.ver = version \/ (h[w].pc \notin Unread /\ c = h[w].ctx),
         \/ p \notin Claimed
         \/ m \notin {"apply", "restore"}
         \/ h[w].pc \in Claimed /\ h[w].mode \in {"apply", "restore"} /\ UNCHANGED wire
         \/ Op(w).status \notin Begun,
         lock = w => PassedAt(w)',
         ~edited => BaseAgrees' /\ (lock = w => AgreesAt(w)')
  PROVE  WriteInv'
<1>1. HandlerMoves(w)
  BY DEF HandlerMoves, Now
<1>2. lock' = w => FencedAt(w)'
  BY <1>1, FencedMoves DEF Now
<1>3. lock' = w => SoleAt(w)'
  BY <1>1, SoleMoves DEF Now
<1> QED BY <1>1, <1>2, <1>3, HandlerWrites DEF Now

\* A handler that goes on and leaves the rows as they are.
LEMMA GoesWrites ==
  ASSUME RecordsInv, WriteInv, NEW w \in Workers, h[w].pc # "idle",
         NEW p, NEW m, NEW c, NEW e, Now(w, p, m, c, e), NoneNew(w),
         \A v \in Workers \ {w} : resp'[v] = resp[v],
         UNCHANGED <<ops, base, version, perms, edited, lock>>,
         p \in Writing => lock = w /\ Op(w).status \in InFlight,
         c.ver = version \/ (h[w].pc \notin Unread /\ c = h[w].ctx),
         \/ p \notin Claimed
         \/ m \notin {"apply", "restore"}
         \/ h[w].pc \in Claimed /\ h[w].mode \in {"apply", "restore"} /\ UNCHANGED wire,
         lock = w => PassedAt(w)', lock = w /\ ~edited => AgreesAt(w)'
  PROVE  WriteInv'
<1>1. StatusesMove /\ (BaseAgrees => BaseAgrees')
  BY StatusesSame
<1>2. Op(w)' = Op(w)
  BY DEF Op, Now
<1> QED BY <1>1, <1>2, NowWrites DEF WriteInv

\* The statuses of a row of the holder: what it was is not in flight, or nothing is left of it.
LEMMA ChangesMove ==
  ASSUME NEW o \in Ops, NEW s, Changes(o, s),
         s \in Begun \/ ops[o].status \notin Begun,
         ops[o].status \in InFlight => s \in InFlight \/ Quiet(o)
  PROVE  StatusesMove
BY DEF StatusesMove, Changes

\* Of an operation its handler has claimed and has no answer to wait for, nothing is left.
LEMMA SoleQuiet ==
  ASSUME RecordsInv, WriteInv, NEW w \in Workers, lock = w,
         h[w].pc \in Claimed, h[w].mode \in {"apply", "restore"},
         h[w].pc \notin Writing, h[w].pc # "await"
  PROVE  Quiet(h[w].op)
<1>1. SoleAt(w)
  BY DEF WriteInv
<1>2. \A r \in wire : r.w # w
  BY PolicyOperationAssumption DEF WriteInv, Awaited, AwaitedAt
<1> QED BY <1>1, <1>2 DEF SoleAt, Quiet

\* Of an operation a recovery has settled, nothing current is left.
LEMMA PassedQuiet ==
  ASSUME RecordsInv, WriteInv, NEW w \in Workers, lock = w, h[w].pc = "settle", h[w].mode = "recover"
  PROVE  Quiet(h[w].op)
<1>1. FencedAt(w) /\ PassedAt(w)
  BY DEF WriteInv
<1>2. /\ h[w].ctx.ver \in Nat /\ version \in Nat /\ \A r \in wire : r.ver \in Nat
      /\ \A v \in Workers : h[v].ctx.ver \in Nat
  BY HandlerFields, RequestFields DEF RecordsInv, TypeOK, HandlerTyped, RequestTyped
<1>3. h[w].pc \notin Unread /\ h[w].pc \notin Writing
  BY DEF Unread, Writing
<1> QED BY <1>1, <1>2, <1>3 DEF FencedAt, PassedAt, Quiet

-----------------------------------------------------------------------------
(* The steps keep the invariant of the writes.                             *)

WInv == RecordsInv /\ WriteInv

\* Admission.
LEMMA AdmitWrites ==
  ASSUME WInv, NEW w \in Workers, NEW call \in Calls, NEW o \in Ops,
         withProjectDataAccessMutationLock(w, call, o)
  PROVE  WriteInv'
<1> USE DEF WInv
<1>1. /\ Begins(w, call, o) /\ (UNCHANGED ops \/ Superseded)
  BY AdmitEffect DEF RecordsInv
<1>2. /\ h[w].pc = "idle" /\ lock = NoWorker /\ lock' = w
      /\ UNCHANGED <<base, version, perms, wire, resp, edited>>
  BY DEF withProjectDataAccessMutationLock, hasura, At
<1>3. HandlerMoves(w) /\ NoneNew(w)
  BY <1>1, <1>2, NoneSame DEF HandlerMoves, Begins
<1>4. StatusesMove /\ (BaseAgrees => BaseAgrees')
  <2>1. \A p \in Ops : /\ ops[p].status \in Begun => ops'[p].status \in Begun
                       /\ ops'[p].status \in InFlight <=> ops[p].status \in InFlight
                       /\ ops[p].status \in InFlight => ops'[p].src = ops[p].src
    BY <1>1 DEF Superseded, SamePlan, Begun, InFlight, Statuses
  <2> QED BY <1>2, <2>1, StatusesSame
<1>5. h'[w].pc = "load"
  BY <1>1 DEF Begins
<1>6. FencedAt(w)' /\ SoleAt(w)' /\ PassedAt(w)' /\ AgreesAt(w)' /\ h'[w].pc \notin Writing
  BY <1>5 DEF FencedAt, SoleAt, PassedAt, AgreesAt, Unwritten, Unread, Claimed, Writing
<1> QED BY <1>3, <1>4, <1>6, HandlerWrites DEF WriteInv

\* A read.
LEMMA ReadWrites ==
  ASSUME WInv, NEW w \in Workers, LoadContext(w) \/ LoadSecond(w) \/ RestoreLoad(w)
  PROVE  WriteInv'
<1> USE DEF WInv
<1>1. PICK p \in {"decide", "begin", "restoreBegin"}, m \in Modes :
         /\ Reads(w, p, m)
         /\ p = "decide" => h[w].pc = "load" /\ m = h[w].mode
         /\ p = "begin" => h[w].pc = "load2" /\ m = h[w].mode
         /\ p = "restoreBegin" => h[w].pc = "restoreLoad" /\ m = "restore"
  <2>1. h[w].pc # "idle" /\ "restore" \in Modes
    BY DEF LoadContext, LoadSecond, RestoreLoad, At, Modes
  <2>2. h[w].mode \in Modes
    BY <2>1, Worker DEF RecordsInv, HandlerTyped
  <2>3. /\ LoadContext(w) => Reads(w, "decide", h[w].mode) /\ h[w].pc = "load"
        /\ LoadSecond(w) => Reads(w, "begin", h[w].mode) /\ h[w].pc = "load2"
        /\ RestoreLoad(w) => Reads(w, "restoreBegin", "restore") /\ h[w].pc = "restoreLoad"
    BY ReadEffect DEF RecordsInv, LoadContext, LoadSecond, RestoreLoad, At
  <2> QED BY <2>1, <2>2, <2>3
<1>2. /\ h[w].pc # "idle" /\ h[w].pc # "await" /\ Now(w, p, m, h'[w].ctx, h[w].epoch)
      /\ h'[w].ctx.perms = perms /\ h'[w].ctx.ver = version
      /\ UNCHANGED <<ops, base, perms, version, lock, wire, resp, edited>>
  BY <1>1 DEF Reads
<1>3. NoneNew(w) /\ p \notin Writing /\ h'[w].pc = p
  BY <1>1, <1>2, NoneSame DEF Writing, Now
<1>4. \/ p \notin Claimed
      \/ h[w].pc \in Claimed /\ h[w].mode \in {"apply", "restore"}
  <2>1. CASE p = "restoreBegin"
    <3>1. h[w].mode \in Modes /\ PlacedAt(w)
      BY <1>2, Worker DEF RecordsInv, HandlersSound, HandlerTyped
    <3> QED BY <1>1, <2>1, <3>1
            DEF PlacedAt, Planning, Recovering, Sending, Claimed, Modes
  <2> QED BY <1>1, <2>1 DEF Claimed
<1>5. PassedAt(w)' /\ AgreesAt(w)'
  BY <1>1, <1>2, <1>3 DEF PassedAt, AgreesAt, Unwritten
<1> QED BY <1>2, <1>3, <1>4, <1>5, GoesWrites

\* A refusal, a replay or a confirmed commit.
LEMMA EndWrites ==
  ASSUME WInv, NEW w \in Workers, h[w].pc # "idle", h[w].pc # "await",
         Refuse(w) \/ ReplayCompleted(w) \/ ConfirmCommit(w)
  PROVE  WriteInv'
<1> USE DEF WInv
<1>1. Leaves(w) /\ UNCHANGED <<ops, base, perms, version, wire, resp, edited>>
  BY RefuseEffect, ReplayEffect DEF RecordsInv, Replays, Local, hasura
<1>2. NoneNew(w)
  BY <1>1, NoneSame
<1> QED BY <1>1, <1>2, EndsWrites

\* A handler that proceeds.
LEMMA ProceedWrites ==
  ASSUME WInv, NEW w \in Workers, h[w].pc \notin Unread, h[w].pc # "await",
         NEW p \in Pcs, Proceed(w, p),
         p \in Writing => lock = w /\ Op(w).status \in InFlight,
         \/ p \notin Claimed
         \/ h[w].mode \notin {"apply", "restore"}
         \/ h[w].pc \in Claimed,
         lock = w => PassedAt(w)', lock = w /\ ~edited => AgreesAt(w)'
  PROVE  WriteInv'
<1> USE DEF WInv
<1>1. h[w].pc # "idle"
  BY DEF Unread
<1>2. /\ Now(w, p, h[w].mode, h[w].ctx, h[w].epoch)
      /\ UNCHANGED <<ops, base, perms, version, lock, wire, resp, edited>>
  BY <1>1, ProceedEffect DEF RecordsInv, Local, hasura
<1>3. NoneNew(w)
  BY <1>2, NoneSame
<1> QED BY <1>1, <1>2, <1>3, GoesWrites

\* A decision.
LEMMA DecideWrites ==
  ASSUME WInv, NEW w \in Workers, Decides(w) PROVE WriteInv'
<1> USE DEF WInv
<1>1. h[w].pc = "decide"
  BY DEF Decides, UpdateExisting, ApplyReconcile, ApplyExtension, Deciding, At
<1>2. Refuse(w) \/ ReplayCompleted(w) \/ Proceed(w, "load2")
  BY DecideEffect DEF RecordsInv
<1>3. CASE Proceed(w, "load2")
  <2>1. "load2" \in Pcs /\ h'[w].pc = "load2"
    BY <1>1, <1>3, ProceedEffect, "load2" \in Pcs DEF RecordsInv, Now, Pcs
  <2> QED BY <1>1, <1>3, <2>1, ProceedWrites
          DEF PassedAt, AgreesAt, Unwritten, Unread, Writing, Claimed
<1> QED BY <1>1, <1>2, <1>3, EndWrites

\* A preview that is stored has nothing in flight, before or after.
LEMMA CreatesMove ==
  ASSUME NEW w \in Workers, NEW k, NEW t, Creates(w, k, t), Op(w).status = "absent"
  PROVE  /\ StatusesMove /\ (BaseAgrees /\ UNCHANGED <<base, perms>> => BaseAgrees')
<1>1. \A p \in Ops : /\ ops[p].status \in Begun => ops'[p].status \in Begun
                     /\ ops'[p].status \in InFlight <=> ops[p].status \in InFlight
                     /\ ops[p].status \in InFlight => ops'[p].src = ops[p].src
  BY DEF Creates, Op, Begun, InFlight, Statuses
<1> QED BY <1>1, StatusesSame

\* A new update.
LEMMA UpdateNewWrites ==
  ASSUME WInv, NEW w \in Workers, UpdateNew(w) PROVE WriteInv'
<1> USE DEF WInv
<1>1. h[w].pc = "decide" /\ conn[w] /\ Op(w).status = "absent"
  BY DEF UpdateNew, Deciding, At
<1>2. CASE Refuse(w)
  BY <1>1, <1>2, EndWrites
<1>3. CASE ~Refuse(w)
  <2>1. PICK t \in Policies, p \in {"noop", "load2"} :
          /\ Creates(w, "update", t) /\ Now(w, p, h[w].mode, h[w].ctx, h[w].epoch)
          /\ UNCHANGED <<lock, conn, acked, Local>>
    BY <1>3, UpdateNewEffect DEF RecordsInv
  <2>2. UNCHANGED <<base, perms, version, lock, wire, resp, edited>>
    BY <2>1 DEF Local, hasura
  <2>3. StatusesMove /\ (BaseAgrees => BaseAgrees')
    BY <1>1, <2>1, <2>2, CreatesMove
  <2>4. lock = w /\ NoneNew(w)
    BY <1>1, <2>2, SessionHeld, NoneSame DEF RecordsInv
  <2>5. p \notin Writing /\ p \notin Claimed /\ PassedAt(w)' /\ AgreesAt(w)'
    BY <2>1 DEF Now, Writing, Claimed, PassedAt, AgreesAt, Unwritten
  <2> QED BY <1>1, <2>1, <2>2, <2>3, <2>4, <2>5, NowWrites DEF Unread, WriteInv
<1> QED BY <1>2, <1>3

\* A completion without a write.
LEMMA NoopWrites ==
  ASSUME WInv, NEW w \in Workers, CompleteNoop(w) PROVE WriteInv'
<1> USE DEF WInv
<1>1. /\ h[w].pc = "noop" /\ conn[w] /\ Leaves(w) /\ Changes(h[w].op, "completed")
      /\ UNCHANGED <<base, perms, version, wire, resp, edited>>
  <2>1. h[w].pc = "noop" /\ conn[w]
    BY DEF CompleteNoop, At
  <2>2. Closes(w, "completed")
    BY NoopEffect DEF RecordsInv
  <2> QED BY <2>1, <2>2 DEF Closes, Local, hasura
<1>2. lock = w /\ NoneNew(w) /\ h[w].op \in Ops
  BY <1>1, SessionHeld, NoneSame, Worker DEF RecordsInv
<1>3. Op(w).status = "preview_ready"
  BY DEF CompleteNoop, transitionPolicyOperation, Op
<1>4. \A p \in Ops : /\ ops[p].status \in Begun => ops'[p].status \in Begun
                     /\ ops'[p].status \in InFlight <=> ops[p].status \in InFlight
                     /\ ops[p].status \in InFlight => ops'[p].src = ops[p].src
  BY <1>1, <1>2, <1>3 DEF Changes, Op, Begun, InFlight, Statuses
<1>5. StatusesMove /\ (BaseAgrees => BaseAgrees')
  BY <1>1, <1>4, StatusesSame
<1> QED BY <1>1, <1>2, <1>5, LeavesWrites DEF WriteInv

\* A preview.
LEMMA PreviewingWrites ==
  ASSUME WInv, NEW w \in Workers, Previewing(w) PROVE WriteInv'
<1> USE DEF WInv
<1>1. h[w].pc = "decide" /\ conn[w] /\ h[w].call \in Previews
  BY DEF Previewing, PreviewAdoption, PreviewReconcile, PreviewExtension, Deciding, At, Previews
<1>2. CASE Refuse(w)
  BY <1>1, <1>2, EndWrites
<1>3. CASE ~Refuse(w)
  <2>1. PICK k \in {"adoption", "reconcile", "extension"}, t \in Snapshots : Preview(w, k, t)
    BY <1>3, PreviewingEffect DEF RecordsInv, Previewed
  <2>2. /\ Creates(w, k, t) /\ Leaves(w)
        /\ UNCHANGED <<base, perms, version, wire, resp, edited>>
    BY <1>1, <2>1, PreviewEffect DEF RecordsInv, Kinds, Local, hasura
  <2>3. lock = w /\ HeldAt(w) /\ h[w].mode = "none" /\ NoneNew(w)
    BY <1>1, <2>2, SessionHeld, NoneSame, ModeOf DEF RecordsInv, Planning
  <2>4. Op(w).status = "absent"
    BY <1>1, <2>3 DEF HeldAt, PlansAt
  <2>5. StatusesMove /\ (BaseAgrees => BaseAgrees')
    BY <2>2, <2>4, CreatesMove
  <2> QED BY <2>2, <2>3, <2>5, LeavesWrites DEF WriteInv
<1> QED BY <1>2, <1>3

\* No operation is in flight when the one of the holder is not.
LEMMA HeldSettled ==
  ASSUME NEW w \in Workers, HeldAt(w), Op(w).status \notin InFlight PROVE Settled
BY DEF HeldAt, Op, Settled

\* An adoption takes what the metadata hold for the baseline, with nothing in flight.
LEMMA AdoptionMoves ==
  ASSUME WInv, NEW w \in Workers, h[w].pc = "decide", lock = w, h[w].op \in Ops,
         AdoptionReady(w), Changes(h[w].op, "completed"), base'.perms = h[w].ctx.perms,
         UNCHANGED <<perms, edited>>
  PROVE  StatusesMove /\ (~edited => BaseAgrees')
<1> USE DEF WInv
<1>1. Op(w).status = "preview_ready" /\ HeldAt(w)
  BY DEF AdoptionReady, RecordsInv, HandlersSound
<1>2. Settled
  BY <1>1, HeldSettled DEF InFlight
<1>3. \A p \in Ops : /\ ops[p].status \in Begun => ops'[p].status \in Begun
                     /\ ops'[p].status \in InFlight <=> ops[p].status \in InFlight
                     /\ ops[p].status \in InFlight => ops'[p].src = ops[p].src
  BY <1>1 DEF Changes, Op, Begun, InFlight, Statuses
<1>4. StatusesMove /\ Settled'
  BY <1>2, <1>3, StatusesSame
<1>5. ~edited => perms = h[w].ctx.perms
  BY <1>2 DEF WriteInv, AgreesAt
<1> QED BY <1>4, <1>5 DEF BaseAgrees, Settled

\* An adoption.
LEMMA ApplyAdoptionWrites ==
  ASSUME WInv, NEW w \in Workers, ApplyAdoption(w) PROVE WriteInv'
<1> USE DEF WInv
<1>1. h[w].pc = "decide" /\ conn[w]
  BY DEF ApplyAdoption, Deciding, At
<1>2. CASE Refuse(w) \/ ReplayCompleted(w)
  BY <1>1, <1>2, EndWrites
<1>3. CASE Adopts(w)
  <2>1. lock = w /\ NoneNew(w) /\ h[w].op \in Ops
    BY <1>1, <1>3, SessionHeld, NoneSame, Worker DEF RecordsInv, Adopts
  <2>2. StatusesMove /\ (~edited => BaseAgrees')
    BY <1>1, <1>3, <2>1, AdoptionMoves DEF Adopts, hasura
  <2> QED BY <1>3, <2>1, <2>2, LeavesWrites DEF Adopts, hasura
<1> QED BY <1>2, <1>3, ApplyAdoptionEffect DEF RecordsInv

\* A claim: for the first time of a row with no write, or of a row in flight.
LEMMA ClaimWrites ==
  ASSUME WInv, NEW w \in Workers, h[w].pc \notin Unread, h[w].pc # "await", conn[w],
         NEW s \in InFlight, NEW m \in Modes \ {"none"}, Claim(w, s, m),
         \/ /\ m = "apply" /\ Op(w).status \notin Begun /\ h[w].pc = "begin"
            /\ h[w].ctx.perms = Op(w).src
         \/ m = "recover" /\ Op(w).status \in InFlight
         \/ m = "restore" /\ Op(w).status \in InFlight /\ h[w].pc = "restoreBegin"
  PROVE  WriteInv'
<1> USE DEF WInv
<1>1. h[w].pc # "idle" /\ s \in Statuses /\ s \in Begun
  BY DEF Unread, InFlight, Statuses, Begun
<1>2. /\ Now(w, "renew", m, h[w].ctx, Op(w).epoch + 1) /\ Changes(h[w].op, s)
      /\ UNCHANGED <<base, perms, version, lock, wire, resp, edited>>
  BY <1>1, ClaimEffect DEF RecordsInv, Local, hasura
<1>3. h[w].op \in Ops /\ lock = w /\ HeldAt(w) /\ NoneNew(w)
  BY <1>1, <1>2, SessionHeld, NoneSame, Worker DEF RecordsInv
<1>4. StatusesMove
  BY <1>1, <1>2, <1>3, ChangesMove
<1>5. /\ h'[w].pc = "renew" /\ h'[w].mode = m /\ h'[w].op = h[w].op
      /\ Op(w)'.src = Op(w).src /\ Op(w)'.status \in InFlight
      /\ \A p \in Ops \ {h[w].op} : ops'[p] = ops[p] /\ ops[p].status \notin InFlight
  BY <1>2, <1>3 DEF Now, Changes, SamePlan, Op, HeldAt
<1>6. CASE /\ m = "apply" /\ Op(w).status \notin Begun /\ h[w].pc = "begin"
           /\ h[w].ctx.perms = Op(w).src
  <2>1. Settled
    BY <1>3, <1>6, HeldSettled DEF Begun, InFlight, Statuses
  <2>2. ~edited => perms = Op(w).src
    BY <1>3, <1>6, <2>1 DEF WriteInv, AgreesAt
  <2>3. ~edited => BaseAgrees'
    BY <1>2, <1>3, <1>5, <2>1, <2>2 DEF WriteInv, BaseAgrees, Settled, Op
  <2>4. ~edited => AgreesAt(w)'
    BY <1>2, <1>5, <2>2 DEF AgreesAt
  <2>5. PassedAt(w)' /\ "renew" \notin Writing
    BY <1>5 DEF PassedAt, Writing
  <2> QED BY <1>1, <1>2, <1>3, <1>4, <1>6, <2>3, <2>4, <2>5, NowWrites
<1>7. CASE m # "apply" /\ Op(w).status \in InFlight
  <2>1. BaseAgrees => BaseAgrees'
    BY <1>2, <1>3, <1>5, <1>7 DEF BaseAgrees, Settled, Op
  <2>2. AgreesAt(w)' /\ PassedAt(w)' /\ "renew" \notin Writing
    BY <1>5, <1>7 DEF AgreesAt, PassedAt, Writing
  <2>3. m = "restore" => h[w].pc \in Claimed /\ h[w].mode \in {"apply", "restore"}
    BY <1>1, <1>7, ModeOf DEF RecordsInv, Claimed
  <2> QED BY <1>1, <1>2, <1>3, <1>4, <1>7, <2>1, <2>2, <2>3, NowWrites DEF WriteInv
<1> QED BY <1>6, <1>7

\* A call that is not ready is not claimed: clients do not replay it, by the first premise.
LEMMA BeginApplyWrites ==
  ASSUME WInv, ~ReplayReconcile, NEW w \in Workers, BeginApply(w) PROVE WriteInv'
<1> USE DEF WInv
<1>1. h[w].pc = "begin" /\ conn[w]
  BY DEF BeginApply, At
<1>2. lock = w /\ HeldAt(w) /\ h[w].mode = "none" /\ h[w].op \in Ops
  BY <1>1, SessionHeld, ModeOf, Worker DEF RecordsInv, Planning
<1>3. Op(w).status = "preview_ready"
  BY <1>1, <1>2 DEF HeldAt, PlansAt
<1>4. CASE Refuse(w)
  BY <1>1, <1>4, EndWrites
<1>5. CASE Closes(w, "failed")
  <2>1. /\ Leaves(w) /\ Changes(h[w].op, "failed")
        /\ UNCHANGED <<base, perms, version, wire, resp, edited>>
    BY <1>5 DEF Closes, Local, hasura
  <2>2. \A p \in Ops : /\ ops[p].status \in Begun => ops'[p].status \in Begun
                       /\ ops'[p].status \in InFlight <=> ops[p].status \in InFlight
                       /\ ops[p].status \in InFlight => ops'[p].src = ops[p].src
    BY <1>2, <1>3, <2>1 DEF Changes, Op, Begun, InFlight, Statuses
  <2>3. StatusesMove /\ (BaseAgrees => BaseAgrees')
    BY <2>1, <2>2, StatusesSame
  <2>4. NoneNew(w)
    BY <1>1, <2>1, NoneSame
  <2> QED BY <1>2, <2>1, <2>3, <2>4, LeavesWrites DEF WriteInv
<1>6. CASE Unmoved(w) /\ Claim(w, "applying", "apply")
  <2>1. h[w].ctx.perms = Op(w).src
    BY <1>6 DEF Unmoved, SourceUnchanged
  <2>2. /\ "applying" \in InFlight /\ "apply" \in Modes \ {"none"}
        /\ "preview_ready" \notin Begun
    BY DEF InFlight, Modes, Begun
  <2> QED BY <1>1, <1>3, <1>6, <2>1, <2>2, ClaimWrites DEF Unread
<1> QED BY <1>4, <1>5, <1>6, BeginApplyEffect DEF RecordsInv

\* A claim for a recovery.
LEMMA BeginRecoverWrites ==
  ASSUME WInv, NEW w \in Workers, BeginRecover(w) PROVE WriteInv'
<1> USE DEF WInv
<1>1. h[w].pc = "decide" /\ conn[w] /\ h[w].call = "recover"
  BY DEF BeginRecover, Deciding, At
<1>2. HeldAt(w) /\ h[w].mode = "none"
  BY <1>1, SessionHeld, ModeOf DEF RecordsInv, Planning
<1>3. Op(w).status \in InFlight
  BY <1>1, <1>2 DEF HeldAt, PlansAt
<1>4. CASE Refuse(w)
  BY <1>1, <1>4, EndWrites
<1>5. CASE Claim(w, "recovering", "recover")
  <2>1. "recovering" \in InFlight /\ "recover" \in Modes \ {"none"}
    BY DEF InFlight, Modes
  <2> QED BY <1>1, <1>3, <1>5, <2>1, ClaimWrites DEF Unread
<1> QED BY <1>4, <1>5, BeginRecoverEffect DEF RecordsInv

\* A claim for a restore.
LEMMA RestoreBeginWrites ==
  ASSUME WInv, NEW w \in Workers, RestoreBegin(w) PROVE WriteInv'
<1> USE DEF WInv
<1>1. h[w].pc = "restoreBegin" /\ conn[w]
  BY DEF RestoreBegin, At
<1>2. CASE Op(w).status = "applying" /\ Claim(w, "recovering", "restore")
  <2>1. "recovering" \in InFlight /\ "restore" \in Modes \ {"none"} /\ "applying" \in InFlight
    BY DEF InFlight, Modes
  <2> QED BY <1>1, <1>2, <2>1, ClaimWrites DEF Unread
<1>3. CASE Proceed(w, "toRecovery")
  <2>1. "toRecovery" \in Pcs /\ h'[w].pc = "toRecovery"
    BY <1>1, <1>3, ProceedEffect, "toRecovery" \in Pcs DEF RecordsInv, Now, Pcs
  <2> QED BY <1>1, <1>3, <2>1, ProceedWrites
          DEF PassedAt, AgreesAt, Unwritten, Unread, Writing, Claimed
<1> QED BY <1>2, <1>3, RestoreBeginEffect DEF RecordsInv

\* A renewal.
LEMMA RenewWrites ==
  ASSUME WInv, NEW w \in Workers, Renew(w) PROVE WriteInv'
<1> USE DEF WInv
<1>1. h[w].pc \in {"renew", "renewFallback"} /\ conn[w]
  BY DEF Renew, At
<1>2. CASE Refuse(w)
  BY <1>1, <1>2, EndWrites
<1>3. CASE ~Refuse(w)
  <2>1. PICK p \in {"send", "sendFallback"} : Proceed(w, p)
    BY <1>3, RenewEffect DEF RecordsInv
  <2>2. p \in Pcs /\ h[w].pc \in Claimed /\ h[w].pc # "idle"
    BY <1>1 DEF Pcs, Claimed
  <2>3. lock = w /\ Op(w).status \in InFlight
    BY <1>1, <1>3, SessionHeld DEF Renew, RecordsInv, InFlight
  <2>4. UNCHANGED <<ops, perms>> /\ h'[w].pc = p /\ h'[w].mode = h[w].mode /\ h'[w].op = h[w].op
    BY <2>1, <2>2, ProceedEffect DEF RecordsInv, Now, Local, hasura
  <2>5. PassedAt(w)'
    BY <2>4 DEF PassedAt
  <2>6. ~edited => AgreesAt(w)'
    BY <1>1, <2>3, <2>4 DEF WriteInv, AgreesAt, Unwritten, Op
  <2> QED BY <1>1, <2>1, <2>2, <2>3, <2>5, <2>6, ProceedWrites DEF Unread
<1> QED BY <1>2, <1>3

\* A request that is sent is live, alone, and no newer than what the holder has read.
LEMMA SendRequestWrites ==
  ASSUME WInv, NEW w \in Workers, h[w].pc \in Writing, NEW k \in RequestKinds, SendRequest(w, k)
  PROVE  WriteInv'
<1> USE DEF WInv
<1>1. h[w].pc # "idle" /\ h[w].pc # "await" /\ h[w].pc \in Claimed
  BY DEF Writing, Claimed
<1>2. PICK r \in Request : IsRequest(r, w) /\ wire' = wire \cup {r}
  BY <1>1, SendRequestEffect DEF RecordsInv
<1>3. /\ resp'[w] = "none" /\ \A v \in Workers \ {w} : resp'[v] = resp[v]
      /\ Now(w, "await", h[w].mode, h[w].ctx, h[w].epoch)
      /\ UNCHANGED <<ops, base, perms, version, lock, edited>>
  BY <1>1, SendRequestEffect DEF RecordsInv, rows, hasura
<1>4. /\ r.w = w /\ r.op = h[w].op /\ r.ver = h[w].ctx.ver
      /\ h'[w].pc = "await" /\ h'[w].op = h[w].op /\ h'[w].ctx = h[w].ctx
      /\ h'[w].mode = h[w].mode /\ \A v \in Workers \ {w} : h'[v] = h[v]
  BY <1>2, <1>3 DEF IsRequest, Now, Others
<1>5. \A s \in wire : s.w # w /\ (s.w # NoWorker => s.w \in Workers)
  BY <1>1, PolicyOperationAssumption, RequestFields
     DEF WriteInv, Awaited, AwaitedAt, RecordsInv, TypeOK, RequestTyped
<1>6. Awaited'
  BY <1>2, <1>3, <1>4, <1>5 DEF WriteInv, Awaited, AwaitedAt
<1>7. AllLive'
  BY <1>2, <1>3, <1>4 DEF WriteInv, AllLive, Live, Writing
<1>8. ASSUME NEW u \in Workers, lock' = u
      PROVE  /\ FencedAt(u)' /\ SoleAt(u)' /\ PassedAt(u)'
             /\ ~edited => AgreesAt(u)'
  <2>1. /\ FencedAt(u) /\ SoleAt(u) /\ PassedAt(u) /\ (~edited => AgreesAt(u))
    BY <1>3, <1>8 DEF WriteInv
  <2>2. CASE u = w
    <3>1. h[w].ctx.ver \in Nat /\ h[w].pc \notin Unread
      BY Writer DEF RecordsInv, Writing, Unread
    <3>2. FencedAt(u)'
      BY <1>2, <1>4, <2>1, <2>2, <3>1 DEF FencedAt
    <3>3. SoleAt(u)'
      BY <1>1, <1>2, <1>4, <2>1, <2>2 DEF SoleAt
    <3>4. PassedAt(u)' /\ (~edited => AgreesAt(u)')
      BY <1>3, <1>4, <2>1, <2>2 DEF PassedAt, AgreesAt, Unwritten, Op, Writing
    <3> QED BY <3>2, <3>3, <3>4
  <2>3. CASE u # w
    <3>1. FencedAt(u)'
      BY <1>2, <1>4, <2>1, <2>3 DEF FencedAt, Writing
    <3>2. SoleAt(u)'
      BY <1>2, <1>4, <2>1, <2>3 DEF SoleAt, Writing
    <3>3. PassedAt(u)' /\ (~edited => AgreesAt(u)')
      BY <1>3, <1>4, <2>1, <2>3 DEF PassedAt, AgreesAt, Unwritten, Op, Settled
    <3> QED BY <3>1, <3>2, <3>3
  <2> QED BY <2>2, <2>3
<1>9. BaseAgrees => BaseAgrees'
  BY <1>3 DEF BaseAgrees, Settled
<1> QED BY <1>3, <1>6, <1>7, <1>8, <1>9 DEF WriteInv

\* A send.
LEMMA SendWrites ==
  ASSUME WInv, NEW w \in Workers, Send(w) \/ SendFallback(w) PROVE WriteInv'
<1> USE DEF WInv
<1>1. h[w].pc \in Writing
  BY DEF Send, SendFallback, At, Writing
<1>2. CASE Proceed(w, "verify")
  <2>1. /\ "verify" \in Pcs /\ h'[w].pc = "verify"
    BY <1>1, <1>2, ProceedEffect, "verify" \in Pcs DEF RecordsInv, Now, Pcs, Writing
  <2> QED BY <1>1, <1>2, <2>1, ProceedWrites
          DEF PassedAt, AgreesAt, Unwritten, Unread, Writing, Claimed
<1> QED BY <1>1, <1>2, SendRequestWrites, SendEffect DEF RecordsInv

\* An answer received.
LEMMA ReceiveWrites ==
  ASSUME WInv, NEW w \in Workers, Receive(w) PROVE WriteInv'
<1> USE DEF WInv
<1>1. h[w].pc = "await" /\ resp[w] # "none"
  BY DEF Receive, At
<1>2. PICK p \in Pcs \ {"idle"} :
         /\ Now(w, p, h[w].mode, h[w].ctx, h[w].epoch)
         /\ \/ resp[w] = "ok" /\ p = "verify"
            \/ resp[w] = "unsupported" /\ p = "renewFallback"
            \/ resp[w] = "rejected" /\ h[w].mode = "apply" /\ p = "toFailed"
            \/ p = "toRecovery"
  BY ReceiveEffect DEF RecordsInv
<1>3. /\ \A v \in Workers \ {w} : resp'[v] = resp[v]
      /\ UNCHANGED <<ops, base, perms, version, lock, wire, edited>>
  BY ReceiveEffect DEF RecordsInv, rows, hasura
<1>4. NoneNew(w)
  BY <1>1, <1>3, NoneSame
<1>5. /\ p \notin Writing
      /\ h'[w].pc = p /\ h'[w].mode = h[w].mode /\ h'[w].op = h[w].op
  BY <1>2 DEF Writing, Now
<1>6. PassedAt(w)'
  BY <1>2, <1>5 DEF PassedAt
<1>7. lock = w /\ ~edited => AgreesAt(w)'
  BY <1>1, <1>2, <1>3, <1>5 DEF WriteInv, AgreesAt, Unwritten, Op
<1>8. h[w].pc \notin Unread /\ h[w].pc # "idle" /\ h[w].pc \in Claimed
  BY <1>1 DEF Unread, Claimed
<1> QED BY <1>2, <1>3, <1>4, <1>5, <1>6, <1>7, <1>8, GoesWrites

\* A verification.
LEMMA VerifyWrites ==
  ASSUME WInv, NEW w \in Workers, VerifyTarget(w) \/ VerifySource(w) PROVE WriteInv'
<1> USE DEF WInv
<1>1. /\ h[w].pc = "verify" /\ h[w].pc # "idle" /\ h[w].pc # "await"
      /\ h[w].pc \notin Unread /\ h[w].pc \in Claimed
  BY DEF VerifyTarget, VerifySource, At, Unread, Claimed
<1>2. PICK p \in {"commit", "restoreLoad", "settle", "toRecovery"} :
         /\ Proceed(w, p)
         /\ p = "commit" => perms = Op(w).tgt
         /\ p = "settle" => /\ perms = Op(w).src
                            /\ h[w].mode = "recover" => version > h[w].ctx.ver
  BY VerifyEffect DEF RecordsInv
<1>3. p \in Pcs /\ p \notin Writing
  BY DEF Pcs, Writing
<1>4. /\ Now(w, p, h[w].mode, h[w].ctx, h[w].epoch) /\ UNCHANGED <<ops, perms, version>>
  BY <1>1, <1>2, <1>3, ProceedEffect DEF RecordsInv, Local, hasura
<1>5. PassedAt(w)'
  BY <1>2, <1>4 DEF PassedAt, Now
<1>6. AgreesAt(w)'
  BY <1>2, <1>4 DEF AgreesAt, Unwritten, Now, Op
<1> QED BY <1>1, <1>2, <1>3, <1>5, <1>6, ProceedWrites

\* A commit takes the target for the baseline, which the metadata hold.
LEMMA CommitMoves ==
  ASSUME WInv, NEW w \in Workers, h[w].pc = "commit", lock = w, Commits(w),
         UNCHANGED <<perms, edited>>
  PROVE  StatusesMove /\ (~edited => BaseAgrees')
<1> USE DEF WInv
<1>1. /\ h[w].mode = "apply" /\ HeldAt(w) /\ h[w].op \in Ops
  BY ModeOf, Worker DEF RecordsInv, HandlersSound
<1>2. Quiet(h[w].op)
  BY <1>1, SoleQuiet DEF Claimed, Writing
<1>3. Changes(h[w].op, "completed") /\ base'.perms = Op(w).tgt
  BY DEF Commits
<1>4. StatusesMove
  BY <1>1, <1>2, <1>3, ChangesMove, "completed" \in Begun DEF Begun, Statuses
<1>5. \A o \in Ops : ops'[o].status \notin InFlight
  BY <1>1, <1>3 DEF Changes, HeldAt, InFlight
<1>6. ~edited => perms = Op(w).tgt
  BY DEF WriteInv, AgreesAt
<1> QED BY <1>3, <1>4, <1>5, <1>6 DEF BaseAgrees

\* A commit.
LEMMA CommitWrites ==
  ASSUME WInv, NEW w \in Workers, Commit(w) PROVE WriteInv'
<1> USE DEF WInv
<1>1. h[w].pc = "commit" /\ conn[w] /\ h[w].pc \notin Unread /\ h[w].pc \in Claimed
  BY DEF Commit, At, Unread, Claimed
<1>2. CASE /\ Commits(w) /\ Leaves(w)
           /\ UNCHANGED <<hasura, caps, depOk, wire, resp, edited, bounds>>
  <2>1. UNCHANGED <<perms, version, wire, resp, edited>>
    BY <1>2 DEF hasura
  <2>2. lock = w /\ NoneNew(w)
    BY <1>1, <2>1, SessionHeld, NoneSame DEF RecordsInv
  <2>3. StatusesMove /\ (~edited => BaseAgrees')
    BY <1>1, <1>2, <2>1, <2>2, CommitMoves
  <2> QED BY <1>2, <2>1, <2>2, <2>3, LeavesWrites
<1>3. CASE Proceed(w, "restoreLoad")
  <2>1. "restoreLoad" \in Pcs /\ h'[w].pc = "restoreLoad"
    BY <1>1, <1>3, ProceedEffect, "restoreLoad" \in Pcs DEF RecordsInv, Now, Pcs
  <2> QED BY <1>1, <1>3, <2>1, ProceedWrites DEF PassedAt, AgreesAt, Unwritten, Writing
<1> QED BY <1>2, <1>3, CommitsEffect DEF RecordsInv

\* A last transition.
LEMMA MarkWrites ==
  ASSUME WInv, NEW w \in Workers, Marks(w) PROVE WriteInv'
<1> USE DEF WInv
<1>1. /\ h[w].pc \in {"toFailed", "toRecovery", "settle"} /\ conn[w] /\ Leaves(w)
      /\ UNCHANGED <<base, perms, version, wire, resp, edited>>
  BY MarkEffect DEF RecordsInv, Marks, MarkFailed, MarkRecoveryRequired, MarkRestored, At,
                    Local, hasura
<1>2. lock = w /\ HeldAt(w) /\ h[w].op \in Ops /\ NoneNew(w)
  BY <1>1, SessionHeld, NoneSame, Worker DEF RecordsInv
<1>3. CASE UNCHANGED ops
  BY <1>1, <1>2, <1>3, EndsWrites
<1>4. CASE /\ h[w].pc \in {"toFailed", "settle"} /\ Op(w).status \in InFlight
           /\ Changes(h[w].op, "failed")
  <2>1. Quiet(h[w].op)
    <3>1. CASE h[w].pc = "settle" /\ h[w].mode = "recover"
      BY <1>2, <3>1, PassedQuiet
    <3>2. CASE ~(h[w].pc = "settle" /\ h[w].mode = "recover")
      <4>1. h[w].mode \in {"apply", "restore"} /\ h[w].pc \in Claimed /\ h[w].pc \notin Writing
        BY <1>4, <3>2, ModeOf DEF RecordsInv, Claimed, Writing
      <4> QED BY <1>2, <1>4, <4>1, SoleQuiet
    <3> QED BY <3>1, <3>2
  <2>2. StatusesMove
    BY <1>2, <1>4, <2>1, ChangesMove, "failed" \in Begun DEF Begun, Statuses
  <2>3. \A o \in Ops : ops'[o].status \notin InFlight
    BY <1>2, <1>4 DEF Changes, HeldAt, InFlight
  <2>4. ~edited => perms = Op(w).src
    <3>1. h[w].pc = "toFailed" => h[w].mode = "apply"
      BY <1>1, ModeOf DEF RecordsInv
    <3> QED BY <1>2, <1>4, <3>1 DEF WriteInv, AgreesAt, Unwritten
  <2>5. ~edited => BaseAgrees'
    BY <1>1, <1>2, <1>4, <2>3, <2>4 DEF WriteInv, BaseAgrees, Op
  <2> QED BY <1>1, <1>2, <2>2, <2>5, LeavesWrites
<1>5. CASE Op(w).status \in InFlight /\ Changes(h[w].op, "recovery_required")
  <2>1. \A p \in Ops : /\ ops[p].status \in Begun => ops'[p].status \in Begun
                       /\ ops'[p].status \in InFlight <=> ops[p].status \in InFlight
                       /\ ops[p].status \in InFlight => ops'[p].src = ops[p].src
    BY <1>2, <1>5 DEF Changes, SamePlan, Op, Begun, InFlight, Statuses
  <2>2. StatusesMove /\ (BaseAgrees => BaseAgrees')
    BY <1>1, <2>1, StatusesSame
  <2> QED BY <1>1, <1>2, <2>2, LeavesWrites DEF WriteInv
<1>6. {"applying", "recovering"} \subseteq InFlight
  BY DEF InFlight
<1> QED BY <1>3, <1>4, <1>5, <1>6, MarkEffect DEF RecordsInv, Closes, At

\* A timeout.
LEMMA TimeoutWrites ==
  ASSUME WInv, NEW w \in Workers, Timeout(w) PROVE WriteInv'
<1> USE DEF WInv
<1>1. /\ h[w].pc = "await" /\ Orphans(w)
      /\ Now(w, "toRecovery", h[w].mode, h[w].ctx, h[w].epoch)
      /\ UNCHANGED <<ops, base, perms, version, lock, edited>>
  BY TimeoutEffect DEF RecordsInv, At, rows, hasura
<1>2. NoneNew(w) /\ \A v \in Workers \ {w} : resp'[v] = resp[v]
  BY <1>1, NoneOrphaned DEF Orphans
<1>3. h'[w].pc = "toRecovery"
  BY <1>1 DEF Now
<1>4. PassedAt(w)' /\ AgreesAt(w)'
  BY <1>3 DEF PassedAt, AgreesAt, Unwritten
<1>5. /\ "toRecovery" \notin Writing /\ "toRecovery" \notin Claimed
      /\ h[w].pc # "idle" /\ h[w].pc \notin Unread
  BY <1>1 DEF Writing, Claimed, Unread
<1> QED BY <1>1, <1>2, <1>4, <1>5, GoesWrites

\* A crash.
LEMMA CrashWrites ==
  ASSUME WInv, NEW w \in Workers, Crash(w) PROVE WriteInv'
<1> USE DEF WInv
<1>1. /\ Orphans(w) /\ Leaves(w) /\ UNCHANGED <<ops, base, perms, version, edited>>
  BY CrashEffect DEF RecordsInv, rows, hasura
<1>2. NoneNew(w) /\ \A v \in Workers \ {w} : resp'[v] = resp[v]
  BY <1>1, NoneOrphaned DEF Orphans
<1> QED BY <1>1, <1>2, EndsWrites

\* A lost session.
LEMMA DropWrites ==
  ASSUME WInv, NEW w \in Workers, DropSession(w) PROVE WriteInv'
<1> USE DEF WInv
<1>1. /\ lock' = IF lock = w THEN NoWorker ELSE lock
      /\ UNCHANGED <<ops, base, perms, version, h, wire, resp, edited>>
  BY DropEffect DEF RecordsInv, rows, hasura
<1>2. \A u \in Workers : lock' = u => lock = u
  BY <1>1, PolicyOperationAssumption
<1>3. Awaited' /\ AllLive' /\ (BaseAgrees => BaseAgrees')
  BY <1>1 DEF WriteInv, Awaited, AwaitedAt, AllLive, Live, BaseAgrees, Settled
<1>4. ASSUME NEW u \in Workers
      PROVE  /\ FencedAt(u) => FencedAt(u)'
             /\ SoleAt(u) => SoleAt(u)'
             /\ PassedAt(u) => PassedAt(u)'
             /\ AgreesAt(u) => AgreesAt(u)'
  BY <1>1 DEF FencedAt, SoleAt, PassedAt, AgreesAt, Unwritten, Op, Settled
<1> QED BY <1>1, <1>2, <1>3, <1>4 DEF WriteInv

\* A statement on a dead session.
LEMMA DeadWrites ==
  ASSUME WInv, NEW w \in Workers, DeadSession(w) PROVE WriteInv'
BY EndWrites DEF DeadSession

\* A failed export.
LEMMA ExportWrites ==
  ASSUME WInv, NEW w \in Workers, ExportFails(w) PROVE WriteInv'
<1> USE DEF WInv
<1>1. UNCHANGED <<ops, base, perms, version, wire, resp, edited>>
  BY ExportEffect DEF RecordsInv, rows, hasura
<1>2. CASE (At(w, "load") \/ At(w, "load2")) /\ Leaves(w)
  BY <1>1, <1>2, EndsWrites, NoneSame DEF At
<1>3. CASE /\ UNCHANGED lock /\ h[w].pc \in {"verify", "restoreLoad"}
           /\ \E p \in {"restoreLoad", "toRecovery"}, m \in Modes :
                /\ Now(w, p, m, h[w].ctx, h[w].epoch)
                /\ p = "restoreLoad" => h[w].mode = "apply"
  <2>1. PICK p \in {"restoreLoad", "toRecovery"}, m \in Modes :
          /\ Now(w, p, m, h[w].ctx, h[w].epoch)
          /\ p = "restoreLoad" => h[w].mode = "apply"
    BY <1>3
  <2>2. NoneNew(w)
    BY <1>1, <1>3, NoneSame
  <2>3. /\ h'[w].pc = p /\ p \notin Writing /\ (p = "toRecovery" => p \notin Claimed)
        /\ h[w].pc \in Claimed /\ h[w].pc \notin Unread /\ h[w].pc # "idle"
    BY <1>3, <2>1 DEF Now, Writing, Claimed, Unread
  <2>4. PassedAt(w)' /\ AgreesAt(w)'
    BY <2>1, <2>3 DEF PassedAt, AgreesAt, Unwritten
  <2> QED BY <1>1, <1>3, <2>1, <2>2, <2>3, <2>4, GoesWrites
<1>4. h[w].pc = "verify" => h[w].mode \in Modes
  BY Worker DEF RecordsInv, HandlerTyped
<1> QED BY <1>2, <1>3, <1>4, ExportEffect DEF RecordsInv, At, Modes

\* A lost commit.
LEMMA CommitLostWrites ==
  ASSUME WInv, NEW w \in Workers, CommitLost(w) PROVE WriteInv'
<1> USE DEF WInv
<1>1. /\ conn[w] /\ lock' = NoWorker /\ \A v \in Workers \ {w} : conn'[v] = conn[v]
      /\ UNCHANGED <<perms, version, wire, resp, edited>>
  BY CommitLostEffect DEF RecordsInv, hasura
<1>2. h[w].pc \in {"commit", "decide"} /\ h[w].pc # "idle"
  BY DEF CommitLost, At, Deciding
<1>3. lock = w /\ NoneNew(w) /\ h[w].op \in Ops
  BY <1>1, <1>2, SessionHeld, NoneSame, Worker DEF RecordsInv
<1>4. UNCHANGED rows => StatusesMove /\ (~edited => BaseAgrees')
  BY <1>1, StatusesSame DEF rows, WriteInv
<1>5. CASE /\ At(w, "commit") /\ Now(w, "confirm", h[w].mode, h[w].ctx, h[w].epoch)
           /\ Commits(w) \/ UNCHANGED rows
  <2>1. StatusesMove /\ (~edited => BaseAgrees')
    BY <1>1, <1>3, <1>4, <1>5, CommitMoves DEF At
  <2>2. HandlerMoves(w) /\ h'[w].pc \notin Writing
    BY <1>1, <1>3, <1>5 DEF HandlerMoves, Now, Writing
  <2>3. lock' # w
    BY <1>1, PolicyOperationAssumption
  <2> QED BY <1>3, <2>1, <2>2, <2>3, HandlerWrites
<1>6. CASE /\ Deciding(w, "applyAdoption") /\ AdoptionReady(w) /\ conn'[w] = TRUE
           /\ h' \in [Workers -> Handler] /\ h'[w] = Idle /\ Others(w)
           /\ \/ /\ Changes(h[w].op, "completed") /\ ops'[h[w].op].wrote = Op(w).wrote
                 /\ base'.rev = 1 /\ base'.perms = h[w].ctx.perms
              \/ UNCHANGED rows
  <2>1. StatusesMove /\ (~edited => BaseAgrees')
    BY <1>1, <1>3, <1>4, <1>6, AdoptionMoves DEF Deciding, At
  <2>2. HandlerMoves(w) /\ h'[w].pc \notin Writing
    BY <1>1, <1>3, <1>6, IdleTyped DEF HandlerMoves, Writing
  <2>3. lock' # w
    BY <1>1, PolicyOperationAssumption
  <2> QED BY <1>3, <2>1, <2>2, <2>3, HandlerWrites
<1> QED BY <1>5, <1>6, CommitLostEffect DEF RecordsInv

-----------------------------------------------------------------------------
(* Hasura, and what happens beside policy operations.                      *)

\* A request that Hasura takes is the only one its worker waits for.
LEMMA TakenAwaited ==
  ASSUME WInv, NEW r \in wire, Taken(r) PROVE Awaited'
<1> USE DEF WInv
<1>1. /\ wire' = wire \ {r} /\ UNCHANGED h /\ \A v \in Workers \ {r.w} : resp'[v] = resp[v]
  BY DEF Taken
<1>2. \A s \in wire' : s.w # NoWorker => s.w \in Workers \ {r.w}
  BY <1>1, RequestFields DEF WriteInv, Awaited, RecordsInv, TypeOK, RequestTyped
<1> QED BY <1>1, <1>2 DEF WriteInv, Awaited, AwaitedAt

\* A request that reaches Hasura: what it changes, its own operation is waiting to hear
\* of.
LEMMA HasuraWrites ==
  ASSUME WInv, NEW r \in wire,
         \/ HasuraRejects(r) \/ HasuraUnsupported(r) \/ HasuraApplies(r) \/ HasuraStopsMidway(r)
  PROVE  WriteInv'
<1> USE DEF WInv
<1>1. Declined(r) \/ Performed(r)
  BY HasuraEffect DEF RecordsInv
<1>2. /\ Taken(r) /\ wire' \subseteq wire /\ UNCHANGED <<ops, base, lock, h, edited>>
      /\ \A v \in Workers \ {r.w} : resp'[v] = resp[v]
  BY <1>1 DEF Declined, Performed, Taken, rows
<1>3. Awaited'
  BY <1>2, TakenAwaited
<1>4. /\ \A s \in wire : s.ver \in Nat /\ s.ver <= version
      /\ \A v \in Workers : h[v].ctx.ver \in Nat /\ h[v].ctx.ver <= version
      /\ version \in Nat
  BY RequestFields, HandlerFields
     DEF RecordsInv, RequestsSound, HandlersSound, VersionAt, TypeOK, RequestTyped, HandlerTyped
<1>5. version' = version \/ version' = version + 1
  BY <1>1 DEF Declined, Performed, hasura
<1>6. AllLive'
  BY <1>2, <1>4, <1>5 DEF WriteInv, AllLive, Live
<1>7. ASSUME NEW u \in Workers, lock = u PROVE FencedAt(u)' /\ SoleAt(u)' /\ PassedAt(u)'
  <2>1. FencedAt(u) /\ SoleAt(u) /\ PassedAt(u)
    BY <1>7 DEF WriteInv
  <2> QED BY <1>2, <1>4, <1>5, <2>1 DEF FencedAt, SoleAt, PassedAt
<1>8. CASE Declined(r)
  <2>1. UNCHANGED perms
    BY <1>8 DEF Declined, hasura
  <2>2. BaseAgrees => BaseAgrees'
    BY <1>2, <2>1 DEF BaseAgrees, Settled
  <2>3. ASSUME NEW u \in Workers, lock = u, ~edited PROVE AgreesAt(u)'
    <3>1. AgreesAt(u)
      BY <2>3 DEF WriteInv
    <3>2. u = r.w => h[u].pc = "await" /\ resp[u] = "none"
      BY PolicyOperationAssumption DEF WriteInv, Awaited, AwaitedAt
    <3>3. Unwritten(u)' => Unwritten(u)
      BY <1>2, <3>2 DEF Unwritten
    <3> QED BY <1>2, <2>1, <3>1, <3>3 DEF AgreesAt, Op, Settled
  <2> QED BY <1>2, <1>3, <1>6, <1>7, <2>2, <2>3 DEF WriteInv
<1>9. CASE Performed(r)
  <2>1. r.ver = version /\ (r.w \in Workers => resp'[r.w] \in {"ok", "uncertain"})
    BY <1>9, PerformedIsCurrent DEF Performed, RecordsInv
  <2>2. ops[r.op].status \in InFlight /\ r.op \in Ops
    BY <2>1, RequestFields DEF WriteInv, AllLive, Live, RecordsInv, TypeOK, RequestTyped
  <2>3. ~Settled /\ ~Settled'
    BY <1>2, <2>2 DEF Settled
  <2>4. BaseAgrees => BaseAgrees'
    BY <1>2, <2>3 DEF BaseAgrees
  <2>5. ASSUME NEW u \in Workers, lock = u PROVE AgreesAt(u)'
    <3>1. r.op = h[u].op
      BY <2>2, <2>5 DEF RecordsInv, HandlersSound, HeldAt
    <3>2. h[u].pc \in Claimed /\ h[u].mode \in {"apply", "restore"}
            => h[u].pc = "await" /\ resp'[u] \in {"ok", "uncertain"}
      BY <2>1, <2>5, <3>1, PolicyOperationAssumption DEF WriteInv, SoleAt, Awaited, AwaitedAt
    <3>3. ~(h[u].mode = "apply" /\ Unwritten(u)')
      BY <1>2, <3>2 DEF Unwritten, Claimed
    <3>4. h[u].pc # "commit"
      BY <3>2, ModeOf DEF Claimed, RecordsInv
    <3>5. h[u].pc # "settle"
      <4>1. ASSUME h[u].pc = "settle" PROVE FALSE
        <5>1. h[u].mode = "recover"
          BY <3>2, <4>1, ModeOf DEF Claimed, RecordsInv
        <5> QED BY <1>4, <2>1, <2>5, <4>1, <5>1 DEF WriteInv, FencedAt, PassedAt, Unread
      <4> QED BY <4>1
    <3> QED BY <1>2, <2>3, <3>3, <3>4, <3>5 DEF AgreesAt
  <2> QED BY <1>2, <1>3, <1>6, <1>7, <2>4, <2>5 DEF WriteInv
<1> QED BY <1>1, <1>8, <1>9

\* What happens beside policy operations leaves their writes as they are.
LEMMA OutsideWrites ==
  ASSUME WInv, UNCHANGED <<base, lock, h, wire, resp>>,
         version' = version \/ version' = version + 1,
         UNCHANGED <<perms, edited>> \/ edited' = TRUE,
         \A o \in Ops : /\ SamePlan(ops'[o], ops[o])
                        /\ ops[o].status \in Begun => ops'[o].status \in Begun
                        /\ ops'[o].status \in InFlight <=> ops[o].status \in InFlight
  PROVE  WriteInv'
<1> USE DEF WInv
<1>1. /\ \A s \in wire : s.op \in Ops /\ s.ver \in Nat /\ s.ver <= version
      /\ \A v \in Workers : h[v].ctx.ver \in Nat /\ h[v].ctx.ver <= version
      /\ version \in Nat
  BY RequestFields, HandlerFields
     DEF RecordsInv, RequestsSound, HandlersSound, VersionAt, TypeOK, RequestTyped, HandlerTyped
<1>2. Awaited'
  BY DEF WriteInv, Awaited, AwaitedAt
<1>3. AllLive'
  BY <1>1, Writer DEF WriteInv, AllLive, Live, RecordsInv
<1>4. ASSUME NEW u \in Workers, lock = u PROVE FencedAt(u)' /\ SoleAt(u)' /\ PassedAt(u)'
  <2>1. FencedAt(u) /\ SoleAt(u) /\ PassedAt(u)
    BY <1>4 DEF WriteInv
  <2> QED BY <1>1, <2>1 DEF FencedAt, SoleAt, PassedAt
<1>5. Settled' <=> Settled
  BY DEF Settled
<1>6. UNCHANGED perms /\ BaseAgrees => BaseAgrees'
  BY <1>5 DEF BaseAgrees, SamePlan
<1>7. ASSUME NEW u \in Workers, UNCHANGED perms, AgreesAt(u) PROVE AgreesAt(u)'
  <2>1. CASE h[u].pc = "idle"
    BY <2>1 DEF AgreesAt, Unwritten
  <2>2. CASE h[u].pc # "idle"
    <3>1. h[u].op \in Ops
      BY <2>2 DEF RecordsInv, TypeOK
    <3>2. Op(u)'.src = Op(u).src /\ Op(u)'.tgt = Op(u).tgt
      BY <3>1 DEF Op, SamePlan
    <3> QED BY <1>5, <1>7, <3>2 DEF AgreesAt, Unwritten
  <2> QED BY <2>1, <2>2
<1> QED BY <1>2, <1>3, <1>4, <1>6, <1>7 DEF WriteInv

\* A change beside policy operations.
LEMMA EnvironmentWrites ==
  ASSUME WInv, \/ \E o \in Ops : LeaseAges(o)
               \/ MetadataChange \/ OrdinaryMutation \/ DependencyChange
  PROVE  WriteInv'
<1> USE DEF WInv
<1>1. UNCHANGED ops => \A o \in Ops : SamePlan(ops'[o], ops[o])
  BY DEF SamePlan
<1>2. ASSUME NEW o \in Ops, LeaseAges(o) PROVE WriteInv'
  <2>1. Changes(o, ops[o].status) /\ UNCHANGED <<base, perms, version, lock, h, wire, resp, edited>>
    BY <1>2, LeaseEffect DEF RecordsInv, hasura
  <2>2. \A p \in Ops : SamePlan(ops'[p], ops[p]) /\ ops'[p].status = ops[p].status
    BY <2>1 DEF Changes, SamePlan
  <2> QED BY <2>1, <2>2, OutsideWrites
<1>3. CASE MetadataChange
  <2>1. /\ version' = version + 1 /\ UNCHANGED <<ops, base, lock, h, wire, resp>>
        /\ UNCHANGED <<perms, edited>> \/ edited' = TRUE
    BY <1>3, MetadataEffect DEF RecordsInv, rows, MetadataChange
  <2> QED BY <1>1, <2>1, OutsideWrites
<1>4. CASE OrdinaryMutation
  <2>1. Superseded /\ UNCHANGED <<base, perms, version, lock, h, wire, resp, edited>>
    BY <1>4, OrdinaryEffect DEF RecordsInv, hasura
  <2>2. \A o \in Ops : /\ SamePlan(ops'[o], ops[o])
                       /\ ops[o].status \in Begun => ops'[o].status \in Begun
                       /\ ops'[o].status \in InFlight <=> ops[o].status \in InFlight
    BY <2>1 DEF Superseded, SamePlan, Begun, InFlight, Statuses
  <2> QED BY <2>1, <2>2, OutsideWrites
<1>5. CASE DependencyChange
  <2>1. UNCHANGED <<ops, base, perms, version, lock, h, wire, resp, edited>>
    BY <1>5, DependencyEffect DEF RecordsInv, rows, hasura
  <2> QED BY <1>1, <2>1, OutsideWrites
<1> QED BY <1>2, <1>3, <1>4, <1>5

-----------------------------------------------------------------------------
(* The theorems about writes.                                              *)

\* The invariant holds initially.
LEMMA WriteInit == ASSUME Init PROVE WriteInv
<1>1. /\ wire = {} /\ lock = NoWorker /\ perms = base.perms
      /\ \A w \in Workers : h[w] = Idle /\ lock # w
      /\ \A o \in Ops : ops[o] = NoOp
  BY PolicyOperationAssumption DEF Init
<1>2. NoOp.status \notin InFlight /\ Idle.pc \notin Writing
  BY DEF NoOp, InFlight, Idle, Writing
<1> QED BY <1>1, <1>2 DEF WriteInv, Awaited, AllLive, BaseAgrees

\* Every step keeps it, if clients do not replay reconcile previews.
LEMMA WriteStep ==
  ASSUME RecordsInv, WriteInv, ~ReplayReconcile, [Next]_vars PROVE WriteInv'
<1> USE DEF WInv
<1>1. ASSUME NEW w \in Workers, NEW call \in Calls, NEW o \in Ops,
             withProjectDataAccessMutationLock(w, call, o)
      PROVE  WriteInv'
  BY <1>1, AdmitWrites
<1>2. ASSUME NEW w \in Workers, LoadContext(w) \/ LoadSecond(w) \/ RestoreLoad(w) PROVE WriteInv'
  BY <1>2, ReadWrites
<1>3. ASSUME NEW w \in Workers,
             UpdateNew(w) \/ Decides(w) \/ CompleteNoop(w) \/ Previewing(w) \/ ApplyAdoption(w)
      PROVE  WriteInv'
  BY <1>3, UpdateNewWrites, DecideWrites, NoopWrites, PreviewingWrites, ApplyAdoptionWrites
<1>4. ASSUME NEW w \in Workers,
             \/ BeginRecover(w) \/ BeginApply(w) \/ RestoreBegin(w) \/ Renew(w)
             \/ (Send(w) \/ SendFallback(w)) \/ Receive(w)
      PROVE  WriteInv'
  BY <1>4, BeginRecoverWrites, BeginApplyWrites, RestoreBeginWrites, RenewWrites, SendWrites,
     ReceiveWrites
<1>5. ASSUME NEW w \in Workers,
             \/ (VerifyTarget(w) \/ VerifySource(w)) \/ Commit(w) \/ Marks(w) \/ DeadSession(w)
      PROVE  WriteInv'
  BY <1>5, VerifyWrites, CommitWrites, MarkWrites, DeadWrites
<1>6. ASSUME NEW w \in Workers, ConfirmCommit(w) PROVE WriteInv'
  BY <1>6, EndWrites DEF ConfirmCommit, At
<1>7. ASSUME NEW w \in Workers,
             \/ Timeout(w) \/ CommitLost(w) \/ DropSession(w) \/ Crash(w) \/ ExportFails(w)
      PROVE  WriteInv'
  BY <1>7, TimeoutWrites, CommitLostWrites, DropWrites, CrashWrites, ExportWrites
<1>8. ASSUME NEW r \in wire, \/ HasuraRejects(r) \/ HasuraUnsupported(r)
                             \/ HasuraApplies(r) \/ HasuraStopsMidway(r)
      PROVE  WriteInv'
  BY <1>8, HasuraWrites
<1>9. ASSUME \/ \E o \in Ops : LeaseAges(o)
             \/ MetadataChange \/ OrdinaryMutation \/ DependencyChange
      PROVE  WriteInv'
  BY <1>9, EnvironmentWrites
<1>10. ASSUME UNCHANGED vars PROVE WriteInv'
  BY <1>10 DEF vars, WriteInv, Awaited, AwaitedAt, AllLive, Live, FencedAt, SoleAt, PassedAt,
               AgreesAt, Unwritten, BaseAgrees, Settled, Op
<1> QED BY <1>1, <1>2, <1>3, <1>4, <1>5, <1>6, <1>7, <1>8, <1>9, <1>10, StepCases

\* It holds of every behaviour in which they do not.
LEMMA WritesAlways == ASSUME ~ReplayReconcile PROVE Spec => [](RecordsInv /\ WriteInv)
<1>1. Init => RecordsInv /\ WriteInv
  BY RecordsInit, WriteInit
<1>2. RecordsInv /\ WriteInv /\ [Next]_vars => RecordsInv' /\ WriteInv'
  BY RecordsStep, WriteStep
<1> QED BY <1>1, <1>2, PTL DEF Spec

\* If clients apply a reconcile preview only while it is one, the permissions Hasura
\* enforces are those of the baseline whenever no operation is in flight and nobody has
\* edited them outside, whatever crashed, timed out or arrived late.
THEOREM PermissionsAgree == ASSUME ~ReplayReconcile PROVE Spec => []SettledAgrees
<1>1. RecordsInv /\ WriteInv => SettledAgrees
  BY DEF WriteInv, BaseAgrees, SettledAgrees
<1> QED BY <1>1, WritesAlways, PTL

\* Under the same premise a request that is still under way cannot change anything once
\* its operation has settled: the version it is conditional on is past.
THEOREM LateWritesAreHarmless == ASSUME ~ReplayReconcile PROVE Spec => []LateWriteHarmless
<1>1. RecordsInv /\ WriteInv => LateWriteHarmless
  BY DEF RecordsInv, RequestsSound, WriteInv, AllLive, Live, LateWriteHarmless
<1> QED BY <1>1, WritesAlways, PTL

-----------------------------------------------------------------------------
(* The register the baseline row implements.                               *)

\* What a row was planned for: a noop completes without a write over a baseline there is.
RowPlanned(row) ==
  /\ row.kind # "none" => row.status # "absent"
  /\ row.kind = "adoption" => row.tgt = row.src
  /\ row.status = "completed" /\ ~row.wrote /\ row.kind # "adoption" => row.baseRev # 0

\* A handler past its claim works on a row that was claimed, and completes by a write.
ClaimedAt(w) ==
  h[w].pc \notin Planning => /\ Op(w).status \in Begun
                             /\ Op(w).status = "completed" => Op(w).wrote
\* A handler about to claim a row has one.
NamedAt(w) ==
  (\/ h[w].pc \in {"noop", "load2", "begin"}
   \/ h[w].pc \in {"load", "decide"} /\ h[w].call \in {"applyReconcile", "applyExtension"})
    => Op(w).status # "absent"
\* Nobody moves the baseline between the plan of a noop and its completion.
NoopAt(w) ==
  lock = w /\ h[w].pc = "noop"
    => base.rev # 0 /\ Op(w).baseRev = base.rev /\ Op(w).tgt = base.perms
PartsAt(w) == ClaimedAt(w) /\ NamedAt(w) /\ NoopAt(w)

RowsPlanned == \A o \in Ops : RowPlanned(ops[o])
RegisterInv == RowsPlanned /\ \A w \in Workers : PartsAt(w)

\* What becomes of a row, whatever the step.
Follows(new, row) ==
  /\ SamePlan(new, row) /\ new.status # "absent"
  /\ row.status \in Begun =>
       /\ new.status \in Begun
       /\ new.status = "completed" => new.wrote \/ (row.status = "completed" /\ new.wrote = row.wrote)
RowsFollow == \A o \in Ops : ops[o].status # "absent" => Follows(ops'[o], ops[o])

\* The rows in a step that neither plans an operation nor completes one.
Still(new, row) ==
  /\ SamePlan(new, row) /\ new.wrote = row.wrote
  /\ new.status = "absent" <=> row.status = "absent"
  /\ new.status = "completed" <=> row.status = "completed"
  /\ row.status \in Begun => new.status \in Begun
RowsStill == \A o \in Ops : Still(ops'[o], ops[o])

\* A still row follows.
LEMMA StillFollows == ASSUME RowsStill PROVE RowsFollow
BY DEF RowsStill, Still, RowsFollow, Follows

\* Rows nobody touches are still.
LEMMA SameStill == ASSUME UNCHANGED ops PROVE RowsStill
BY DEF RowsStill, Still, SamePlan

\* Superseding completes nothing.
LEMMA SupersededStill == ASSUME Superseded PROVE RowsStill
BY DEF Superseded, RowsStill, Still, SamePlan, Begun

\* Setting the status of a row in flight, or of one to be claimed, completes nothing.
LEMMA ChangesStill ==
  ASSUME NEW o \in Ops, NEW s \in Begun \ {"completed"}, Changes(o, s),
         ops'[o].wrote = ops[o].wrote, ops[o].status \notin {"absent", "completed"}
  PROVE  RowsStill
BY DEF Changes, RowsStill, Still, SamePlan, Begun

\* A plan, as the register has it.
PlanOf(o) == [op |-> o, revision |-> ops[o].baseRev, value |-> ops[o].tgt]

\* The plans are those of the rows there are.
LEMMA PlansMember ==
  /\ \A o \in Ops : ops[o].status # "absent" => PlanOf(o) \in Plans
  /\ \A p \in Plans : \E o \in Ops : ops[o].status # "absent" /\ p = PlanOf(o)
BY DEF Plans, PlanOf

\* Plans that stay.
LEMMA PlansKept ==
  ASSUME \A o \in Ops : /\ ops'[o].status = "absent" <=> ops[o].status = "absent"
                        /\ SamePlan(ops'[o], ops[o])
  PROVE  Plans' = Plans
<1>1. \A o \in Ops : PlanOf(o)' = PlanOf(o)
  BY DEF PlanOf, SamePlan
<1>2. Plans = {PlanOf(o) : o \in {p \in Ops : ops[p].status # "absent"}}
  BY DEF Plans, PlanOf
<1>3. Plans' = {PlanOf(o)' : o \in {p \in Ops : ops'[p].status # "absent"}}
  BY DEF Plans, PlanOf
<1>4. {p \in Ops : ops'[p].status # "absent"} = {p \in Ops : ops[p].status # "absent"}
  OBVIOUS
<1> DEFINE S == {p \in Ops : ops[p].status # "absent"}
<1>5. /\ \A p \in Plans : \E o \in S : p = PlanOf(o)
      /\ \A o \in S : PlanOf(o) \in Plans
  BY <1>2
<1>6. /\ \A p \in Plans' : \E o \in S : p = PlanOf(o)'
      /\ \A o \in S : PlanOf(o)' \in Plans'
  BY <1>3, <1>4
<1>7. \A o \in S : PlanOf(o)' = PlanOf(o)
  BY <1>1
<1> QED
  <2> HIDE DEF S
  <2> QED BY <1>5, <1>6, <1>7

\* The register stutters when no row completes and the baseline stays.
LEMMA RegisterStutters ==
  ASSUME RowsStill, UNCHANGED <<base, acked>>
  PROVE  UNCHANGED Register!registerVars /\ (RowsPlanned => RowsPlanned')
<1>1. Plans' = Plans
  BY PlansKept DEF RowsStill, Still
<1>2. Tracked' = Tracked
  BY DEF Tracked, RowsStill, Still, SamePlan
<1>3. RowsPlanned => RowsPlanned'
  BY DEF RowsPlanned, RowPlanned, RowsStill, Still, SamePlan
<1> QED BY <1>1, <1>2, <1>3 DEF Register!registerVars

\* A handler that does not move keeps its part, as long as the baseline does not move
\* under its lock.
LEMMA PartsKept ==
  ASSUME TypeOK, NEW v \in Workers, PartsAt(v), RowsFollow, h'[v] = h[v],
         lock' = v => lock = v /\ base' = base
  PROVE  PartsAt(v)'
<1>1. h[v].pc # "idle" => h[v].op \in Ops
  BY DEF TypeOK
<1>2. h[v].pc \notin Planning => h[v].op \in Ops
  BY <1>1 DEF Planning
<1>3. ClaimedAt(v)'
  BY <1>2 DEF PartsAt, ClaimedAt, RowsFollow, Follows, Op, Begun
<1>4. NamedAt(v)'
  BY <1>1 DEF PartsAt, NamedAt, RowsFollow, Follows, Op
<1>5. NoopAt(v)'
  BY <1>1 DEF PartsAt, NoopAt, NamedAt, RowsFollow, Follows, SamePlan, Op
<1> QED BY <1>3, <1>4, <1>5 DEF PartsAt

\* Everybody keeps it, in a step of w that moves the baseline only under its own lock.
LEMMA HandlersFollow ==
  ASSUME TypeOK, RegisterInv, RowsFollow, NEW w \in Workers, Others(w),
         lock' \in {lock, NoWorker, w}, base' = base \/ lock = w, PartsAt(w)'
  PROVE  \A v \in Workers : PartsAt(v)'
<1> SUFFICES ASSUME NEW v \in Workers \ {w} PROVE PartsAt(v)'
  OBVIOUS
<1>1. h'[v] = h[v] /\ v # NoWorker
  BY PolicyOperationAssumption DEF Others
<1> QED BY <1>1, PartsKept DEF RegisterInv

\* A step of no handler.
LEMMA NobodyMoves ==
  ASSUME TypeOK, RegisterInv, RowsStill, UNCHANGED <<h, base, acked>>, lock' \in {lock, NoWorker}
  PROVE  RegisterInv' /\ UNCHANGED Register!registerVars
<1>1. RowsPlanned' /\ UNCHANGED Register!registerVars
  BY RegisterStutters DEF RegisterInv
<1>2. ASSUME NEW v \in Workers PROVE PartsAt(v)'
  <2>1. v # NoWorker
    BY PolicyOperationAssumption
  <2> QED BY <2>1, StillFollows, PartsKept DEF RegisterInv
<1> QED BY <1>1, <1>2 DEF RegisterInv

\* A step of w on rows that stay still.
LEMMA HandlerStill ==
  ASSUME TypeOK, RegisterInv, RowsStill, UNCHANGED <<base, acked>>, NEW w \in Workers, Others(w),
         lock' \in {lock, NoWorker, w}, PartsAt(w)'
  PROVE  RegisterInv' /\ UNCHANGED Register!registerVars
<1>1. RowsPlanned' /\ UNCHANGED Register!registerVars
  BY RegisterStutters DEF RegisterInv
<1> QED BY <1>1, StillFollows, HandlersFollow DEF RegisterInv

\* A handler that has left has no part.
LEMMA LeftParts ==
  ASSUME NEW w \in Workers, h'[w] = Idle PROVE PartsAt(w)'
BY IdleTyped DEF PartsAt, ClaimedAt, NamedAt, NoopAt, Planning

\* A handler that leaves, on rows that stay still.
LEMMA LeavesStill ==
  ASSUME TypeOK, RegisterInv, RowsStill, UNCHANGED <<base, acked>>, NEW w \in Workers, Leaves(w)
  PROVE  RegisterInv' /\ UNCHANGED Register!registerVars
BY LeftParts, HandlerStill DEF Leaves

\* A handler that goes on after its claim.
LEMMA WritesStill ==
  ASSUME TypeOK, RegisterInv, UNCHANGED <<ops, base, acked, lock>>, NEW w \in Workers,
         NEW p, NEW m, NEW c, NEW e, Now(w, p, m, c, e), h[w].pc \notin Planning, p \notin Planning
  PROVE  RegisterInv' /\ UNCHANGED Register!registerVars
<1>1. h'[w].pc = p /\ h'[w].op = h[w].op /\ Others(w)
  BY DEF Now
<1>2. ClaimedAt(w)'
  BY <1>1 DEF RegisterInv, PartsAt, ClaimedAt, Op
<1>3. NamedAt(w)' /\ NoopAt(w)'
  BY <1>1 DEF NamedAt, NoopAt, Planning
<1> QED BY <1>1, <1>2, <1>3, SameStill, HandlerStill DEF PartsAt

\* A handler that claims its row.
LEMMA ClaimStill ==
  ASSUME TypeOK, RegisterInv, NEW w \in Workers, h[w].pc # "idle", NEW s \in InFlight,
         NEW m \in Modes, Claim(w, s, m), Op(w).status \notin {"absent", "completed"}
  PROVE  RegisterInv' /\ UNCHANGED Register!registerVars
<1>1. s \in Statuses /\ s \in Begun \ {"completed"} /\ h[w].op \in Ops
  BY Worker DEF InFlight, Begun, Statuses
<1>2. /\ Now(w, "renew", m, h[w].ctx, Op(w).epoch + 1)
      /\ Changes(h[w].op, s) /\ ops'[h[w].op].wrote = Op(w).wrote
      /\ UNCHANGED <<lock, acked, base>>
  BY <1>1, ClaimEffect DEF Local
<1>3. RowsStill
  BY <1>1, <1>2, ChangesStill DEF Op
<1>4. h'[w].pc = "renew" /\ h'[w].op = h[w].op /\ Others(w)
  BY <1>2 DEF Now
<1>5. ClaimedAt(w)' /\ NamedAt(w)' /\ NoopAt(w)'
  BY <1>1, <1>2, <1>4 DEF ClaimedAt, NamedAt, NoopAt, Op, Changes
<1> QED BY <1>2, <1>3, <1>4, <1>5, HandlerStill DEF PartsAt

-----------------------------------------------------------------------------
(* The steps of the register.                                              *)

\* A new row is a plan for the baseline of the moment.
LEMMA CreatesPlans ==
  ASSUME TypeOK, RegisterInv, NEW w \in Workers, h[w].pc # "idle", Op(w).status = "absent",
         NEW k \in {"update", "adoption", "reconcile", "extension"}, NEW t \in Snapshots,
         Creates(w, k, t), k = "adoption" => t = h[w].ctx.perms, UNCHANGED <<base, acked>>
  PROVE  Register!RegisterNext /\ RowsFollow /\ RowsPlanned'
<1>0. PICK o \in Ops : o = h[w].op
  BY Worker
<1>1. /\ ops[o].status = "absent"
      /\ \A p \in Ops \ {o} : ops'[p] = ops[p]
      /\ ops'[o].kind = k /\ ops'[o].status = "preview_ready" /\ ops'[o].baseRev = base.rev
      /\ ops'[o].src = h[w].ctx.perms /\ ops'[o].tgt = t
  BY <1>0 DEF Creates, Op
<1>2. RowsFollow
  BY <1>1 DEF RowsFollow, Follows, SamePlan
<1>3. RowsPlanned'
  BY <1>1 DEF RegisterInv, RowsPlanned, RowPlanned
<1>4. Tracked' = Tracked
  BY <1>1 DEF Tracked
<1> DEFINE new == [op |-> o, revision |-> base.rev, value |-> t]
<1>5. Plans' = Plans \cup {new}
  <2>1. PlanOf(o)' = new /\ \A p \in Ops \ {o} : PlanOf(p)' = PlanOf(p)
    BY <1>1 DEF PlanOf
  <2>2. /\ \A p \in Plans' : \E q \in Ops : ops'[q].status # "absent" /\ p = PlanOf(q)'
        /\ \A q \in Ops : ops'[q].status # "absent" => PlanOf(q)' \in Plans'
    BY PlansMember DEF Plans, PlanOf
  <2>3. \A p \in Plans' : p \in Plans \cup {new}
    BY <1>1, <2>1, <2>2, PlansMember
  <2>4. \A p \in Plans : p \in Plans'
    BY <1>1, <2>1, <2>2, PlansMember
  <2>5. new \in Plans'
    BY <1>1, <2>1, <2>2
  <2> QED BY <2>3, <2>4, <2>5
<1>6. \A p \in Plans : p.op # o
  BY <1>1, PlansMember DEF PlanOf
<1>7. Register!Plan(o, t)
  BY <1>4, <1>5, <1>6 DEF Register!Plan
<1> QED BY <1>1, <1>2, <1>3, <1>7 DEF Register!RegisterNext

\* An operation that completes by a write moves the register, once.
LEMMA CompletionMoves ==
  ASSUME RecordsInv, RegisterInv, NEW w \in Workers, h[w].pc # "idle",
         Op(w).status \notin {"absent", "completed"}, Op(w).baseRev = base.rev,
         Changes(h[w].op, "completed"),
         ops'[h[w].op].wrote \/ (Op(w).kind = "adoption" /\ Op(w).status = "preview_ready"),
         base'.rev = base.rev + 1, base'.perms = Op(w).tgt,
         acked' \in {acked, acked \cup {h[w].op}}
  PROVE  Register!RegisterNext /\ RowsFollow /\ RowsPlanned'
<1>0. PICK o \in Ops : o = h[w].op
  BY Worker DEF RecordsInv
<1>1. /\ ops[o].status \notin {"absent", "completed"} /\ ops[o].baseRev = base.rev
      /\ \A p \in Ops \ {o} : ops'[p] = ops[p]
      /\ SamePlan(ops'[o], ops[o]) /\ ops'[o].status = "completed"
      /\ ops'[o].wrote \/ (ops[o].kind = "adoption" /\ ops[o].status = "preview_ready")
      /\ base'.perms = ops[o].tgt /\ acked' \in {acked, acked \cup {o}}
  BY <1>0 DEF Changes, Op
<1>2. RowsFollow
  BY <1>1 DEF RowsFollow, Follows, SamePlan, Begun, Statuses
<1>3. RowsPlanned'
  BY <1>1 DEF RegisterInv, RowsPlanned, RowPlanned, SamePlan
<1>4. Plans' = Plans
  BY <1>1, PlansKept DEF SamePlan
<1>5. Tracked' = Tracked \cup {o}
  BY <1>1 DEF Tracked, SamePlan
<1>6. o \notin Tracked \cup acked
  BY <1>1 DEF Tracked, RecordsInv, RowsSound, AckedIsCompleted
<1>7. PlanOf(o) \in Plans
  BY <1>1, PlansMember
<1>8. PlanOf(o).op = o /\ PlanOf(o).revision = base.rev /\ PlanOf(o).value = ops[o].tgt
  BY <1>1 DEF PlanOf
<1>9. Register!Move(PlanOf(o))
  BY <1>1, <1>4, <1>5, <1>6, <1>8 DEF Register!Move
<1> QED BY <1>2, <1>3, <1>7, <1>9 DEF Register!RegisterNext

\* A client is told of an operation whose target the baseline holds.
LEMMA Acknowledges ==
  ASSUME NEW o \in Ops, ops[o].status # "absent", base.perms = ops[o].tgt,
         base.rev = IF o \in Tracked THEN ops[o].baseRev + 1 ELSE ops[o].baseRev,
         acked' = acked \cup {o}, Plans' = Plans, Tracked' = Tracked, base' = base
  PROVE  Register!RegisterNext
<1>1. PlanOf(o) \in Plans
  BY PlansMember
<1>2. PlanOf(o).op = o /\ PlanOf(o).revision = ops[o].baseRev /\ PlanOf(o).value = ops[o].tgt
  BY DEF PlanOf
<1>3. Register!Acknowledge(PlanOf(o))
  BY <1>2 DEF Register!Acknowledge
<1> QED BY <1>1, <1>3 DEF Register!RegisterNext

\* A completed operation is acknowledged again, or found to have been committed.
LEMMA ReplayRegister ==
  ASSUME RecordsInv, RegisterInv, NEW w \in Workers, h[w].pc # "idle",
         ReplayCompleted(w) \/ ConfirmCommit(w)
  PROVE  RegisterInv' /\ (Register!RegisterNext \/ UNCHANGED Register!registerVars)
<1>0. PICK o \in Ops : o = h[w].op
  BY Worker DEF RecordsInv
<1>1. /\ Leaves(w) /\ UNCHANGED <<ops, base>>
      /\ RowSound(ops[o]) /\ RowPlanned(ops[o])
  BY ReplayEffect DEF Replays, Local, RecordsInv, RowsSound, RegisterInv, RowsPlanned
<1>2. RegisterInv'
  <2>1. RowsPlanned'
    BY <1>1 DEF RegisterInv, RowsPlanned
  <2>2. lock' \in {lock, NoWorker, w} /\ Others(w) /\ PartsAt(w)' /\ RowsFollow
    BY <1>1, LeftParts, SameStill, StillFollows DEF Leaves
  <2> QED BY <1>1, <2>1, <2>2, HandlersFollow DEF RegisterInv, RecordsInv
<1>3. Plans' = Plans /\ Tracked' = Tracked
  BY <1>1 DEF Plans, Tracked
<1>4. CASE acked' = acked
  BY <1>1, <1>2, <1>3, <1>4 DEF Register!registerVars
<1>5. CASE acked' # acked
  <2>1. /\ acked' = acked \cup {o} /\ ops[o].status = "completed" /\ base.perms = ops[o].tgt
        /\ ReplayCompleted(w) => CompletedOperationCurrent(o)
        /\ ConfirmCommit(w) => CommitConfirmed(o)
    BY <1>0, <1>5 DEF ReplayCompleted, ConfirmCommit, CompletedOperationCurrent, CommitConfirmed, Op
  <2>2. base.rev = IF o \in Tracked THEN ops[o].baseRev + 1 ELSE ops[o].baseRev
    <3>1. CASE ReplayCompleted(w)
      BY <1>1, <2>1, <3>1 DEF CompletedOperationCurrent, Tracked, RowSound, RowPlanned
    <3>2. CASE ConfirmCommit(w)
      <4>1. h[w].pc = "confirm" /\ h[w].pc \notin Planning
        BY <3>2 DEF ConfirmCommit, At, Planning
      <4>2. ops[o].wrote
        BY <1>0, <2>1, <4>1 DEF RegisterInv, PartsAt, ClaimedAt, Op
      <4> QED BY <1>1, <2>1, <3>2, <4>2 DEF CommitConfirmed, Tracked
    <3> QED BY <3>1, <3>2
  <2> QED BY <1>1, <1>2, <1>3, <2>1, <2>2, Acknowledges
<1> QED BY <1>2, <1>4, <1>5

\* An update that changes nothing is acknowledged without a move.
LEMMA NoopRegister ==
  ASSUME RecordsInv, RegisterInv, NEW w \in Workers, CompleteNoop(w)
  PROVE  RegisterInv' /\ Register!RegisterNext
<1>1. h[w].pc = "noop" /\ conn[w] /\ h[w].pc # "idle" /\ h[w].pc \in Planning
  BY DEF CompleteNoop, At, Planning
<1>0. PICK o \in Ops : o = h[w].op
  BY <1>1, Worker DEF RecordsInv
<1>2. lock = w /\ HeldAt(w) /\ h[w].mode = "none"
  BY <1>1, SessionHeld, ModeOf DEF RecordsInv
<1>3. ops[o].kind = "update" /\ ops[o].status = "preview_ready" /\ ~ops[o].wrote
  BY <1>0, <1>1, <1>2 DEF HeldAt, PlansAt, Op, RecordsInv, RowsSound, RowSound, TypeOK, OpRow
<1>4. base.rev # 0 /\ ops[o].baseRev = base.rev /\ ops[o].tgt = base.perms
  BY <1>0, <1>1, <1>2 DEF RegisterInv, PartsAt, NoopAt, Op
<1>5. /\ Leaves(w) /\ UNCHANGED base /\ acked' = acked \cup {o}
      /\ Changes(o, "completed") /\ ops'[o].wrote = ops[o].wrote
  BY <1>0, NoopEffect DEF Closes, Local, Op, RecordsInv
<1>6. /\ \A p \in Ops \ {o} : ops'[p] = ops[p]
      /\ SamePlan(ops'[o], ops[o]) /\ ops'[o].status = "completed"
  BY <1>5 DEF Changes
<1>7. RowsFollow
  BY <1>3, <1>6 DEF RowsFollow, Follows, SamePlan, Begun
<1>8. RowsPlanned'
  BY <1>3, <1>4, <1>6 DEF RegisterInv, RowsPlanned, RowPlanned, SamePlan
<1>9. Plans' = Plans
  BY <1>3, <1>6, PlansKept DEF SamePlan
<1>10. Tracked' = Tracked /\ o \notin Tracked
  BY <1>3, <1>5, <1>6 DEF Tracked, SamePlan
<1>11. Register!RegisterNext
  BY <1>2, <1>3, <1>4, <1>5, <1>9, <1>10, Acknowledges
<1>12. lock' \in {lock, NoWorker, w} /\ Others(w) /\ PartsAt(w)'
  BY <1>5, LeftParts DEF Leaves
<1> QED BY <1>2, <1>5, <1>7, <1>8, <1>11, <1>12, HandlersFollow DEF RegisterInv, RecordsInv

\* An operation is planned by a new update.
LEMMA UpdateNewRegister ==
  ASSUME RecordsInv, RegisterInv, NEW w \in Workers, UpdateNew(w)
  PROVE  RegisterInv' /\ (Register!RegisterNext \/ UNCHANGED Register!registerVars)
<1>1. h[w].pc # "idle" /\ h[w].op \in Ops /\ Op(w).status = "absent"
  BY Worker DEF UpdateNew, Deciding, At, RecordsInv
<1>2. CASE Refuse(w)
  BY <1>2, RefuseEffect, SameStill, LeavesStill DEF Local, RecordsInv
<1>3. CASE ~Refuse(w)
  <2>1. PICK t \in Policies, p \in {"noop", "load2"} :
          /\ p = "noop" => base.rev # 0 /\ t = base.perms
          /\ Creates(w, "update", t)
          /\ Now(w, p, h[w].mode, h[w].ctx, h[w].epoch)
          /\ UNCHANGED <<lock, conn, acked, Local>>
    BY <1>3, UpdateNewEffect DEF RecordsInv
  <2>2. Register!RegisterNext /\ RowsFollow /\ RowsPlanned'
    BY <1>1, <2>1, PolicyOperationAssumption, CreatesPlans DEF Local, RecordsInv
  <2>3. /\ h'[w].pc = p /\ h'[w].op = h[w].op /\ Others(w)
        /\ ops'[h[w].op].status = "preview_ready" /\ ops'[h[w].op].baseRev = base.rev
        /\ ops'[h[w].op].tgt = t /\ UNCHANGED <<base, lock>>
    BY <2>1 DEF Now, Creates, Local
  <2>4. PartsAt(w)'
    BY <2>1, <2>3 DEF PartsAt, ClaimedAt, NamedAt, NoopAt, Planning, Op
  <2> QED BY <2>2, <2>3, <2>4, HandlersFollow DEF RegisterInv, RecordsInv
<1> QED BY <1>2, <1>3

\* An operation is planned by a preview.
LEMMA PreviewingRegister ==
  ASSUME RecordsInv, RegisterInv, NEW w \in Workers, Previewing(w)
  PROVE  RegisterInv' /\ (Register!RegisterNext \/ UNCHANGED Register!registerVars)
<1>1. /\ h[w].pc = "decide" /\ conn[w] /\ h[w].pc # "idle" /\ h[w].pc \in Planning
      /\ h[w].call \in Previews
  BY DEF Previewing, PreviewAdoption, PreviewReconcile, PreviewExtension, Deciding, At, Planning,
         Previews
<1>2. lock = w /\ HeldAt(w) /\ h[w].mode = "none"
  BY <1>1, SessionHeld, ModeOf DEF RecordsInv
<1>3. Op(w).status = "absent"
  BY <1>1, <1>2 DEF HeldAt, PlansAt
<1>4. CASE Refuse(w)
  BY <1>4, RefuseEffect, SameStill, LeavesStill DEF Local, RecordsInv
<1>5. ASSUME NEW k \in {"adoption", "reconcile", "extension"}, Previewed(w, k)
      PROVE  RegisterInv' /\ Register!RegisterNext
  <2>1. PICK t \in Snapshots : /\ k = "adoption" => t = h[w].ctx.perms
                               /\ Preview(w, k, t)
    BY <1>5 DEF Previewed
  <2>2. Creates(w, k, t) /\ Leaves(w) /\ UNCHANGED <<acked, base>>
    BY <1>1, <2>1, PreviewEffect DEF Local, Kinds, RecordsInv
  <2>3. Register!RegisterNext /\ RowsFollow /\ RowsPlanned'
    BY <1>1, <1>3, <2>1, <2>2, CreatesPlans DEF RecordsInv
  <2>4. lock' \in {lock, NoWorker, w} /\ Others(w) /\ PartsAt(w)'
    BY <2>2, LeftParts DEF Leaves
  <2> QED BY <2>2, <2>3, <2>4, HandlersFollow DEF RegisterInv, RecordsInv
<1> QED BY <1>4, <1>5, PreviewingEffect DEF RecordsInv

\* Adoption moves the register for the first time.
LEMMA AdoptionAdvances ==
  ASSUME RecordsInv, RegisterInv, NEW w \in Workers, Deciding(w, "applyAdoption"),
         AdoptionReady(w), Changes(h[w].op, "completed"),
         base'.rev = 1, base'.perms = h[w].ctx.perms, acked' \in {acked, acked \cup {h[w].op}}
  PROVE  Register!RegisterNext /\ RowsFollow /\ RowsPlanned' /\ lock = w
<1>1. /\ h[w].pc = "decide" /\ conn[w] /\ h[w].pc # "idle" /\ h[w].pc \in Planning
      /\ h[w].call = "applyAdoption"
  BY DEF Deciding, At, Planning
<1>2. lock = w /\ HeldAt(w) /\ h[w].mode = "none" /\ h[w].op \in Ops
  BY <1>1, SessionHeld, ModeOf, Worker DEF RecordsInv
<1>3. Op(w).kind = "adoption" /\ Op(w).status = "preview_ready"
  BY <1>1, <1>2 DEF HeldAt, PlansAt, AdoptionReady
<1>4. Op(w).baseRev = 0 /\ base.rev = 0 /\ h[w].ctx.perms = Op(w).tgt
  BY <1>2, <1>3 DEF AdoptionReady, SourceUnchanged, RecordsInv, RowsSound, RowSound, Op,
                    RegisterInv, RowsPlanned, RowPlanned
<1>5. /\ Op(w).status \notin {"absent", "completed"} /\ Op(w).baseRev = base.rev
      /\ base'.rev = base.rev + 1 /\ base'.perms = Op(w).tgt
  BY <1>3, <1>4
<1>6. ops'[h[w].op].wrote \/ (Op(w).kind = "adoption" /\ Op(w).status = "preview_ready")
  BY <1>3
<1>7. Register!RegisterNext /\ RowsFollow /\ RowsPlanned'
  BY <1>1, <1>5, <1>6, CompletionMoves
<1> QED BY <1>2, <1>7

\* An adoption is replayed, applied or refused.
LEMMA AdoptionRegister ==
  ASSUME RecordsInv, RegisterInv, NEW w \in Workers, ApplyAdoption(w)
  PROVE  RegisterInv' /\ (Register!RegisterNext \/ UNCHANGED Register!registerVars)
<1>1. Deciding(w, "applyAdoption") /\ h[w].pc # "idle"
  BY DEF ApplyAdoption, Deciding, At
<1>2. CASE Refuse(w)
  BY <1>2, RefuseEffect, SameStill, LeavesStill DEF Local, RecordsInv
<1>3. CASE ReplayCompleted(w)
  BY <1>1, <1>3, ReplayRegister
<1>4. CASE Adopts(w)
  <2>1. /\ Register!RegisterNext /\ RowsFollow /\ RowsPlanned' /\ lock = w
        /\ Leaves(w)
    BY <1>1, <1>4, AdoptionAdvances DEF Adopts
  <2>2. lock' \in {lock, NoWorker, w} /\ Others(w) /\ PartsAt(w)'
    BY <2>1, LeftParts DEF Leaves
  <2> QED BY <2>1, <2>2, HandlersFollow DEF RegisterInv, RecordsInv
<1> QED BY <1>2, <1>3, <1>4, ApplyAdoptionEffect DEF RecordsInv

\* The other calls refuse, replay, or go on with a row there is.
LEMMA DecideRegister ==
  ASSUME RecordsInv, RegisterInv, NEW w \in Workers, Decides(w)
  PROVE  RegisterInv' /\ (Register!RegisterNext \/ UNCHANGED Register!registerVars)
<1>1. h[w].pc = "decide" /\ h[w].pc # "idle"
  BY DEF Decides, UpdateExisting, ApplyReconcile, ApplyExtension, Deciding, At
<1>2. CASE Refuse(w)
  BY <1>2, RefuseEffect, SameStill, LeavesStill DEF Local, RecordsInv
<1>3. CASE ReplayCompleted(w)
  BY <1>1, <1>3, ReplayRegister
<1>4. CASE Proceed(w, "load2") /\ ~Refuse(w) /\ ~ReplayCompleted(w)
  <2>1. Op(w).status # "absent"
    <3>1. CASE UpdateExisting(w)
      BY <1>4, <3>1 DEF UpdateExisting
    <3>2. CASE ApplyReconcile(w) \/ ApplyExtension(w)
      BY <1>1, <3>2 DEF ApplyReconcile, ApplyExtension, Deciding, RegisterInv, PartsAt, NamedAt
    <3> QED BY <3>1, <3>2 DEF Decides
  <2>2. /\ Now(w, "load2", h[w].mode, h[w].ctx, h[w].epoch)
        /\ UNCHANGED <<ops, base, acked, lock>>
    BY <1>1, <1>4, ProceedEffect, "load2" \in Pcs DEF Pcs, Local, RecordsInv
  <2>3. PartsAt(w)' /\ Others(w)
    BY <2>1, <2>2 DEF Now, PartsAt, ClaimedAt, NamedAt, NoopAt, Planning, Op
  <2> QED BY <2>2, <2>3, SameStill, HandlerStill DEF RecordsInv
<1> QED BY <1>2, <1>3, <1>4, DecideEffect DEF RecordsInv

\* A call is admitted; the call that applies a preview has a row.
LEMMA AdmitRegister ==
  ASSUME RecordsInv, RegisterInv, NEW w \in Workers, NEW call \in Calls, NEW o \in Ops,
         withProjectDataAccessMutationLock(w, call, o)
  PROVE  RegisterInv' /\ UNCHANGED Register!registerVars
<1>1. Begins(w, call, o) /\ (UNCHANGED ops \/ Superseded)
  BY AdmitEffect DEF RecordsInv
<1>2. RowsStill
  BY <1>1, SameStill, SupersededStill
<1>3. /\ lock' = w /\ Names(call, o) /\ UNCHANGED <<base, acked>>
  BY DEF withProjectDataAccessMutationLock
<1>4. call \in {"applyReconcile", "applyExtension"} => ops[o].kind # "none"
  BY <1>3 DEF Names, Previews
<1>5. ops[o].kind # "none" => ops'[o].status # "absent"
  BY <1>2 DEF RegisterInv, RowsPlanned, RowPlanned, RowsStill, Still
<1>6. PartsAt(w)' /\ Others(w)
  BY <1>1, <1>4, <1>5 DEF Begins, PartsAt, ClaimedAt, NamedAt, NoopAt, Planning, Op
<1> QED BY <1>2, <1>3, <1>6, HandlerStill DEF RecordsInv

\* A handler reads its context.
LEMMA ReadRegister ==
  ASSUME RecordsInv, RegisterInv, NEW w \in Workers, LoadContext(w) \/ LoadSecond(w) \/ RestoreLoad(w)
  PROVE  RegisterInv' /\ UNCHANGED Register!registerVars
<1>1. PICK p, m : /\ Reads(w, p, m)
                  /\ \/ h[w].pc = "load" /\ p = "decide"
                     \/ h[w].pc = "load2" /\ p = "begin"
                     \/ h[w].pc = "restoreLoad" /\ p = "restoreBegin"
  BY ReadEffect DEF RecordsInv, LoadContext, LoadSecond, RestoreLoad, At
<1>2. /\ Now(w, p, m, h'[w].ctx, h[w].epoch) /\ UNCHANGED <<ops, base, acked, lock>>
  BY <1>1 DEF Reads
<1>3. /\ h'[w].pc = p /\ h'[w].op = h[w].op /\ h'[w].call = h[w].call /\ Others(w)
  BY <1>2 DEF Now
<1>4. PartsAt(w)
  BY DEF RegisterInv
<1>5. PartsAt(w)'
  BY <1>1, <1>2, <1>3, <1>4 DEF PartsAt, ClaimedAt, NamedAt, NoopAt, Planning, Op
<1> QED BY <1>2, <1>3, <1>5, SameStill, HandlerStill DEF RecordsInv

\* A handler claims its row, or gives it up.
LEMMA BeginRegister ==
  ASSUME RecordsInv, RegisterInv, NEW w \in Workers,
         BeginApply(w) \/ BeginRecover(w) \/ RestoreBegin(w)
  PROVE  RegisterInv' /\ UNCHANGED Register!registerVars
<1>1. h[w].pc # "idle" /\ conn[w]
  BY DEF BeginApply, BeginRecover, RestoreBegin, Deciding, At
<1>2. lock = w /\ HeldAt(w) /\ h[w].op \in Ops
  BY <1>1, SessionHeld, Worker DEF RecordsInv
<1>3. CASE Refuse(w)
  BY <1>3, RefuseEffect, SameStill, LeavesStill DEF Local, RecordsInv
<1>4. CASE BeginApply(w) /\ ~Refuse(w)
  <2>1. h[w].pc = "begin" /\ h[w].pc \in Planning
    BY <1>4 DEF BeginApply, At, Planning
  <2>2. h[w].mode = "none"
    BY <1>1, <2>1, ModeOf
  <2>3. Op(w).status \notin {"absent", "completed"}
    BY <1>2, <2>1, <2>2 DEF HeldAt, PlansAt, RegisterInv, PartsAt, NamedAt
  <2>4. CASE Claim(w, "applying", "apply")
    BY <1>1, <2>3, <2>4, ClaimStill DEF InFlight, Modes, RecordsInv
  <2>5. CASE Closes(w, "failed") /\ UNCHANGED acked
    <3>1. RowsStill
      BY <1>2, <2>3, <2>5, ChangesStill DEF Closes, Op, Begun, Statuses
    <3> QED BY <2>5, <3>1, LeavesStill DEF Closes, Local, RecordsInv
  <2> QED BY <1>4, <2>4, <2>5, BeginApplyEffect DEF RecordsInv
<1>5. CASE BeginRecover(w) /\ ~Refuse(w)
  <2>1. h[w].pc = "decide" /\ h[w].call = "recover" /\ h[w].pc \in Planning
    BY <1>5 DEF BeginRecover, Deciding, At, Planning
  <2>2. h[w].mode = "none"
    BY <1>1, <2>1, ModeOf
  <2>3. Op(w).status \notin {"absent", "completed"}
    BY <1>2, <2>1, <2>2 DEF HeldAt, PlansAt, InFlight
  <2> QED BY <1>1, <1>5, <2>3, BeginRecoverEffect, ClaimStill DEF InFlight, Modes, RecordsInv
<1>6. CASE RestoreBegin(w)
  <2>1. h[w].pc = "restoreBegin" /\ h[w].pc \notin Planning
    BY <1>6 DEF RestoreBegin, At, Planning
  <2>2. CASE Op(w).status = "applying" /\ Claim(w, "recovering", "restore")
    BY <1>1, <2>2, ClaimStill DEF InFlight, Modes, RecordsInv
  <2>3. CASE Proceed(w, "toRecovery")
    <3>1. /\ Now(w, "toRecovery", h[w].mode, h[w].ctx, h[w].epoch)
          /\ UNCHANGED <<ops, base, acked, lock>>
      BY <1>1, <2>3, ProceedEffect, "toRecovery" \in Pcs DEF Pcs, Local, RecordsInv
    <3> QED BY <2>1, <3>1, WritesStill, "toRecovery" \notin Planning DEF Planning, RecordsInv
  <2> QED BY <1>6, <2>2, <2>3, RestoreBeginEffect DEF RecordsInv
<1> QED BY <1>3, <1>4, <1>5, <1>6

\* A handler past its claim goes on from place to place.
LEMMA WriteRegister ==
  ASSUME RecordsInv, RegisterInv, NEW w \in Workers,
         \/ Renew(w) \/ (Send(w) \/ SendFallback(w)) \/ Receive(w)
         \/ (VerifyTarget(w) \/ VerifySource(w)) \/ Timeout(w)
  PROVE  RegisterInv' /\ UNCHANGED Register!registerVars
<1>1. h[w].pc # "idle" /\ h[w].pc \notin Planning
  BY DEF Renew, Send, SendFallback, Receive, VerifyTarget, VerifySource, Timeout, At, Planning
<1>2. CASE Refuse(w)
  BY <1>2, RefuseEffect, SameStill, LeavesStill DEF Local, RecordsInv
<1>3. ASSUME NEW p \in Pcs \ Planning, Proceed(w, p)
      PROVE  RegisterInv' /\ UNCHANGED Register!registerVars
  <2>1. /\ Now(w, p, h[w].mode, h[w].ctx, h[w].epoch) /\ UNCHANGED <<ops, base, acked, lock>>
    BY <1>1, <1>3, ProceedEffect DEF Local, RecordsInv
  <2> QED BY <1>1, <2>1, WritesStill DEF RecordsInv
<1>4. {"send", "sendFallback", "verify", "commit", "restoreLoad", "settle", "toRecovery"}
        \subseteq Pcs \ Planning
  BY DEF Pcs, Planning
<1>5. CASE Renew(w)
  BY <1>2, <1>3, <1>4, <1>5, RenewEffect DEF RecordsInv
<1>6. CASE Send(w) \/ SendFallback(w)
  <2>1. ASSUME NEW k \in RequestKinds, SendRequest(w, k)
        PROVE  RegisterInv' /\ UNCHANGED Register!registerVars
    <3>1. /\ Now(w, "await", h[w].mode, h[w].ctx, h[w].epoch)
          /\ UNCHANGED <<ops, base, acked, lock>>
      BY <1>1, <2>1, SendRequestEffect DEF rows, RecordsInv
    <3> QED BY <1>1, <3>1, WritesStill, "await" \notin Planning DEF Planning, RecordsInv
  <2> QED BY <1>3, <1>4, <1>6, <2>1, SendEffect DEF RecordsInv
<1>7. CASE Receive(w)
  <2>1. PICK p \in {"verify", "renewFallback", "toFailed", "toRecovery"} :
          Now(w, p, h[w].mode, h[w].ctx, h[w].epoch)
    BY <1>7, ReceiveEffect DEF RecordsInv
  <2>2. UNCHANGED <<ops, base, acked, lock>>
    BY <1>7, ReceiveEffect DEF rows, RecordsInv
  <2> QED BY <1>1, <2>1, <2>2, WritesStill DEF Planning, RecordsInv
<1>8. CASE VerifyTarget(w) \/ VerifySource(w)
  BY <1>3, <1>4, <1>8, VerifyEffect DEF RecordsInv
<1>9. CASE Timeout(w)
  <2>1. /\ Now(w, "toRecovery", h[w].mode, h[w].ctx, h[w].epoch)
        /\ UNCHANGED <<ops, base, acked, lock>>
    BY <1>9, TimeoutEffect DEF rows, RecordsInv
  <2> QED BY <1>1, <2>1, WritesStill, "toRecovery" \notin Planning DEF Planning, RecordsInv
<1> QED BY <1>5, <1>6, <1>7, <1>8, <1>9

\* A commit moves the register.
LEMMA CommitAdvances ==
  ASSUME RecordsInv, RegisterInv, NEW w \in Workers, At(w, "commit"), Commits(w),
         acked' \in {acked, acked \cup {h[w].op}}
  PROVE  Register!RegisterNext /\ RowsFollow /\ RowsPlanned'
<1>1. h[w].pc # "idle"
  BY DEF At
<1>2. /\ Op(w).status = "applying" /\ Op(w).baseRev = base.rev
      /\ Changes(h[w].op, "completed") /\ ops'[h[w].op].wrote
      /\ base'.rev = base.rev + 1 /\ base'.perms = Op(w).tgt
  BY DEF Commits, MayCommit
<1> QED BY <1>1, <1>2, CompletionMoves

\* A commit whose answer arrives.
LEMMA CommitRegister ==
  ASSUME RecordsInv, RegisterInv, NEW w \in Workers, Commit(w)
  PROVE  RegisterInv' /\ (Register!RegisterNext \/ UNCHANGED Register!registerVars)
<1>1. /\ At(w, "commit") /\ h[w].pc # "idle" /\ h[w].pc \notin Planning /\ conn[w]
  BY DEF Commit, At, Planning
<1>2. CASE Proceed(w, "restoreLoad")
  <2>1. /\ Now(w, "restoreLoad", h[w].mode, h[w].ctx, h[w].epoch)
        /\ UNCHANGED <<ops, base, acked, lock>>
    BY <1>1, <1>2, ProceedEffect, "restoreLoad" \in Pcs DEF Pcs, Local, RecordsInv
  <2> QED BY <1>1, <2>1, WritesStill, "restoreLoad" \notin Planning DEF Planning, RecordsInv
<1>3. CASE Commits(w) /\ Leaves(w) /\ acked' = acked \cup {h[w].op}
  <2>1. Register!RegisterNext /\ RowsFollow /\ RowsPlanned'
    BY <1>1, <1>3, CommitAdvances
  <2>2. lock' \in {lock, NoWorker, w} /\ Others(w) /\ PartsAt(w)' /\ lock = w
    BY <1>1, <1>3, LeftParts, SessionHeld DEF Leaves, RecordsInv
  <2> QED BY <2>1, <2>2, HandlersFollow DEF RegisterInv, RecordsInv
<1> QED BY <1>2, <1>3, CommitsEffect DEF RecordsInv

\* A commit whose answer is lost moves the register or not.
LEMMA CommitLostRegister ==
  ASSUME RecordsInv, RegisterInv, NEW w \in Workers, CommitLost(w)
  PROVE  RegisterInv' /\ (Register!RegisterNext \/ UNCHANGED Register!registerVars)
<1>1. h[w].pc # "idle" /\ conn[w] /\ lock' = NoWorker /\ acked' = acked
  BY CommitLostEffect DEF CommitLost, At, Deciding, RecordsInv
<1>2. lock = w
  BY <1>1, SessionHeld DEF RecordsInv
<1>3. CASE /\ At(w, "commit") /\ Now(w, "confirm", h[w].mode, h[w].ctx, h[w].epoch)
           /\ Commits(w) \/ UNCHANGED rows
  <2>1. /\ h'[w].pc = "confirm" /\ h'[w].op = h[w].op /\ Others(w)
        /\ h[w].pc \notin Planning /\ h[w].op \in Ops
    BY <1>1, <1>3, Worker DEF Now, At, Planning, RecordsInv
  <2>2. RowsFollow => PartsAt(w)'
    BY <2>1 DEF RegisterInv, PartsAt, ClaimedAt, NamedAt, NoopAt, RowsFollow, Follows, Op, Begun
  <2>3. CASE Commits(w)
    BY <1>1, <1>2, <1>3, <2>1, <2>2, <2>3, CommitAdvances, HandlersFollow DEF RegisterInv, RecordsInv
  <2>4. CASE UNCHANGED rows
    BY <1>1, <2>1, <2>2, <2>4, SameStill, StillFollows, HandlerStill DEF rows, RecordsInv
  <2> QED BY <1>3, <2>3, <2>4
<1>4. CASE /\ Deciding(w, "applyAdoption") /\ AdoptionReady(w)
           /\ h'[w] = Idle /\ Others(w)
           /\ \/ /\ Changes(h[w].op, "completed")
                 /\ base'.rev = 1 /\ base'.perms = h[w].ctx.perms
              \/ UNCHANGED rows
  <2>1. PartsAt(w)'
    BY <1>4, LeftParts
  <2>2. CASE UNCHANGED rows
    BY <1>1, <1>4, <2>1, <2>2, SameStill, HandlerStill DEF rows, RecordsInv
  <2>3. CASE ~UNCHANGED rows
    <3>1. Register!RegisterNext /\ RowsFollow /\ RowsPlanned'
      BY <1>1, <1>4, <2>3, AdoptionAdvances
    <3> QED BY <1>1, <1>2, <1>4, <2>1, <3>1, HandlersFollow DEF RegisterInv, RecordsInv
  <2> QED BY <2>2, <2>3
<1> QED BY <1>3, <1>4, CommitLostEffect DEF RecordsInv

\* A handler gives its row its last status.
LEMMA MarkRegister ==
  ASSUME RecordsInv, RegisterInv, NEW w \in Workers, Marks(w)
  PROVE  RegisterInv' /\ UNCHANGED Register!registerVars
<1>1. Leaves(w) /\ UNCHANGED <<base, acked>> /\ h[w].pc # "idle"
  BY MarkEffect DEF RecordsInv, Local, Marks, MarkFailed, MarkRecoveryRequired, MarkRestored, At
<1>2. h[w].op \in Ops
  BY <1>1, Worker DEF RecordsInv
<1>3. ASSUME NEW s \in {"failed", "recovery_required"}, Closes(w, s),
             Op(w).status \in {"applying", "recovering"}
      PROVE  RowsStill
  BY <1>2, <1>3, ChangesStill DEF Closes, Op, Begun, Statuses
<1>4. RowsStill
  BY <1>3, MarkEffect, SameStill DEF RecordsInv
<1> QED BY <1>1, <1>4, LeavesStill DEF RecordsInv

\* A crash, a lost session, a failed export.
LEMMA FaultRegister ==
  ASSUME RecordsInv, RegisterInv, NEW w \in Workers,
         Crash(w) \/ DropSession(w) \/ ExportFails(w)
  PROVE  RegisterInv' /\ UNCHANGED Register!registerVars
<1>1. CASE Crash(w)
  BY <1>1, CrashEffect, SameStill, LeavesStill DEF RecordsInv, rows
<1>2. CASE DropSession(w)
  <2>1. UNCHANGED <<ops, base, acked, h>> /\ lock' \in {lock, NoWorker}
    BY <1>2, DropEffect DEF RecordsInv, rows
  <2> QED BY <2>1, SameStill, NobodyMoves DEF RecordsInv
<1>3. CASE ExportFails(w)
  <2>1. UNCHANGED <<ops, base, acked>>
    BY <1>3, ExportEffect DEF RecordsInv, rows
  <2>2. CASE Leaves(w)
    BY <2>1, <2>2, SameStill, LeavesStill DEF RecordsInv
  <2>3. CASE ~Leaves(w)
    <3>1. /\ At(w, "verify") \/ At(w, "restoreLoad")
          /\ \E p \in {"restoreLoad", "toRecovery"}, m \in {"apply", "restore", h[w].mode} :
               Now(w, p, m, h[w].ctx, h[w].epoch)
          /\ UNCHANGED lock
      BY <1>3, <2>3, ExportEffect DEF RecordsInv
    <3>2. h[w].pc \notin Planning
      BY <3>1 DEF At, Planning
    <3> QED BY <2>1, <3>1, <3>2, WritesStill DEF RecordsInv, Planning
  <2> QED BY <2>2, <2>3
<1> QED BY <1>1, <1>2, <1>3

\* Hasura and what happens beside policy operations leave the register alone.
LEMMA WorldRegister ==
  ASSUME RecordsInv, RegisterInv,
         \/ \E r \in wire : \/ HasuraRejects(r) \/ HasuraUnsupported(r)
                            \/ HasuraApplies(r) \/ HasuraStopsMidway(r)
         \/ \E o \in Ops : LeaseAges(o)
         \/ MetadataChange \/ OrdinaryMutation \/ DependencyChange \/ UNCHANGED vars
  PROVE  RegisterInv' /\ UNCHANGED Register!registerVars
<1>1. ASSUME NEW r \in wire, \/ HasuraRejects(r) \/ HasuraUnsupported(r)
                             \/ HasuraApplies(r) \/ HasuraStopsMidway(r)
      PROVE  RowsStill /\ UNCHANGED <<h, base, acked, lock>>
  BY <1>1, HasuraEffect, SameStill DEF RecordsInv, Declined, Performed, Taken, rows
<1>2. ASSUME NEW o \in Ops, LeaseAges(o)
      PROVE  RowsStill /\ UNCHANGED <<h, base, acked, lock>>
  <2>1. /\ Changes(o, ops[o].status) /\ ops'[o].wrote = ops[o].wrote
        /\ UNCHANGED <<h, base, acked, lock>> /\ ops[o].status \in InFlight
    BY <1>2, LeaseEffect DEF RecordsInv, LeaseAges
  <2> QED BY <2>1, ChangesStill DEF InFlight, Begun, Statuses
<1>3. ASSUME MetadataChange \/ OrdinaryMutation \/ DependencyChange \/ UNCHANGED vars
      PROVE  RowsStill /\ UNCHANGED <<h, base, acked, lock>>
  BY <1>3, MetadataEffect, OrdinaryEffect, DependencyEffect, SameStill, SupersededStill
     DEF RecordsInv, rows, vars
<1> QED BY <1>1, <1>2, <1>3, NobodyMoves DEF RecordsInv

\* The invariant holds initially, and the register is as it may begin.
LEMMA RegisterStarts == ASSUME Init PROVE RegisterInv /\ Register!RegisterInit
<1>1. \A o \in Ops : ops[o].status = "absent" /\ ops[o].kind = "none"
  BY DEF Init, NoOp
<1>2. RowsPlanned
  BY <1>1 DEF RowsPlanned, RowPlanned
<1>3. \A w \in Workers : PartsAt(w)
  BY IdleTyped DEF Init, PartsAt, ClaimedAt, NamedAt, NoopAt, Planning
<1>4. Plans = {} /\ Tracked = {}
  BY <1>1 DEF Plans, Tracked
<1>5. base.rev \in {0, 1} /\ base.perms \in Snapshots /\ acked = {}
  BY TypeOKInit DEF Init, TypeOK, Baseline
<1> QED BY <1>2, <1>3, <1>4, <1>5 DEF RegisterInv, Register!RegisterInit

\* Every step keeps the invariant, and is a step of the register or none.
LEMMA RegisterStep ==
  ASSUME RecordsInv, RegisterInv, [Next]_vars
  PROVE  RegisterInv' /\ (Register!RegisterNext \/ UNCHANGED Register!registerVars)
<1> DEFINE G == RegisterInv' /\ (Register!RegisterNext \/ UNCHANGED Register!registerVars)
<1>1. ASSUME NEW w \in Workers, NEW call \in Calls, NEW o \in Ops,
             withProjectDataAccessMutationLock(w, call, o)
      PROVE  G
  BY <1>1, AdmitRegister
<1>2. ASSUME NEW w \in Workers, LoadContext(w) \/ LoadSecond(w) \/ RestoreLoad(w) PROVE G
  BY <1>2, ReadRegister
<1>3. ASSUME NEW w \in Workers,
             UpdateNew(w) \/ Decides(w) \/ CompleteNoop(w) \/ Previewing(w) \/ ApplyAdoption(w)
      PROVE  G
  BY <1>3, UpdateNewRegister, DecideRegister, NoopRegister, PreviewingRegister, AdoptionRegister
<1>4. ASSUME NEW w \in Workers, BeginRecover(w) \/ BeginApply(w) \/ RestoreBegin(w) PROVE G
  BY <1>4, BeginRegister
<1>5. ASSUME NEW w \in Workers,
             \/ Renew(w) \/ (Send(w) \/ SendFallback(w)) \/ Receive(w)
             \/ (VerifyTarget(w) \/ VerifySource(w)) \/ Timeout(w)
      PROVE  G
  BY <1>5, WriteRegister
<1>6. ASSUME NEW w \in Workers, Commit(w) \/ ConfirmCommit(w) \/ Marks(w) \/ DeadSession(w)
      PROVE  G
  <2>1. DeadSession(w) => Refuse(w)
    BY DEF DeadSession
  <2>2. Refuse(w) => G
    BY RefuseEffect, SameStill, LeavesStill DEF Local, RecordsInv
  <2>3. ConfirmCommit(w) => h[w].pc # "idle"
    BY DEF ConfirmCommit, At
  <2> QED BY <1>6, <2>1, <2>2, <2>3, CommitRegister, ReplayRegister, MarkRegister
<1>7. ASSUME NEW w \in Workers, CommitLost(w) \/ DropSession(w) \/ Crash(w) \/ ExportFails(w)
      PROVE  G
  BY <1>7, CommitLostRegister, FaultRegister
<1>8. ASSUME \/ \E r \in wire : \/ HasuraRejects(r) \/ HasuraUnsupported(r)
                                \/ HasuraApplies(r) \/ HasuraStopsMidway(r)
             \/ \E o \in Ops : LeaseAges(o)
             \/ MetadataChange \/ OrdinaryMutation \/ DependencyChange \/ UNCHANGED vars
      PROVE  G
  BY <1>8, WorldRegister
<1> HIDE DEF G
<1> QED BY <1>1, <1>2, <1>3, <1>4, <1>5, <1>6, <1>7, <1>8, StepCases DEF G

\* Managed policies implement the register: an operation writes the baseline once, over
\* the revision it was planned for, or never, and a client is told only of what the
\* baseline holds and its operation has written, whatever crashed, was lost or replayed
\* (saveManagedPolicy, confirmUnknownPolicyCommit, assertCompletedOperationCurrent).
THEOREM PoliciesImplementRegister == Spec => ImplementsRegister
<1>1. RecordsInv /\ RegisterInv /\ [Next]_vars
        => RegisterInv' /\ [Register!RegisterNext]_(Register!registerVars)
  BY RegisterStep
<1>2. Init => RegisterInv /\ Register!RegisterInit
  BY RegisterStarts
<1> QED BY <1>1, <1>2, RecordsAlways, PTL DEF Spec, ImplementsRegister, Register!RegisterSpec
=============================================================================
