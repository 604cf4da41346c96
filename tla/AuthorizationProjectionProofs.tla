------------------- MODULE AuthorizationProjectionProofs --------------------
(***************************************************************************)
(* What holds of the authorization projection for every set of tables,     *)
(* contracts and workers and every number of operations and faults.        *)
(***************************************************************************)
EXTENDS AuthorizationProjection, TLAPS, SequenceTheorems

-----------------------------------------------------------------------------
(* The inductive invariant.                                                *)

\* The handler runs and its session, which holds the project lock, is alive.
Live(w) == conn[w] /\ h[w].pc # "idle"
\* The operation is in flight.
InFlightOp(o) == ops[o].status \in InFlight

\* An operation that never wrote a baseline and may still do so.
Fresh(o) == ops[o].status = "preview_ready" \/ (InFlightOp(o) /\ ~ops[o].wrote)

\* The lock belongs to the one live handler; a dead session has lost it.
LockOfLive ==
  \A w \in Workers : (lock = w <=> Live(w)) /\ (h[w].pc = "idle" => conn[w])

\* The steps of an apply and of a recovery.
ApplyPcs == {"check", "send", "await", "verify", "persist", "toFailed", "toRecovery"}
RecoverPcs == {"inspect", "decide", "send", "await", "verify", "persist", "closed",
               "toRecovery"}

\* Where a handler can be, and that it works on the contract of its row.
StepOf ==
  \A w \in Workers :
    \/ h[w].mode = "none" /\ h[w].pc = "idle"
    \/ h[w].mode = "preview" /\ h[w].pc = "insert"
    \/ /\ h[w].mode = "apply" /\ h[w].pc \in ApplyPcs
       /\ h[w].op \in Ids /\ h[w].con = ops[h[w].op].con
    \/ /\ h[w].mode = "recover" /\ h[w].pc \in RecoverPcs
       /\ h[w].op \in Ids /\ h[w].con = ops[h[w].op].con

\* A baseline has an owner select or a projection, never a closed one, and its
\* grants are those that Hasura enforces.
Baselines ==
  \A t \in Tables : /\ base[t].perms.sel \in {"owner"} \cup Constraints
                    /\ base[t].perms.grants <= outside
                    /\ base[t].perms.grants = meta.perms[t].grants

\* An operation that has still to write is the newest one.
Newest == \A o \in Ids : Fresh(o) => \A p \in Ids : p <= o
\* No operation newer than an open one ever wrote.
NoNewerWrote == \A o \in Ids : ops[o].status \in Active => LatestCompleted(o)
\* A preview never wrote; a completed batch did.
PreviewUnwritten == \A o \in Ids : ops[o].status = "preview_ready" => ~ops[o].wrote
CompletedWrote == \A o \in Ids : ops[o].status = "completed" => ops[o].wrote
\* The tables of a batch that wrote are under a projection.
WroteV2 == \A o \in Ids : ops[o].wrote => \A t \in ops[o].con.tables : IsV2(t)
\* An open operation covers every table under a projection.
ActiveCovers ==
  \A o \in Ids : ops[o].status \in Active => CoversExistingBaselines(ops[o].con)
\* The newest batch that wrote is what the baselines record.
LatestRecorded ==
  \A o \in Ids : ops[o].wrote /\ LatestCompleted(o) =>
    /\ CoversExistingBaselines(ops[o].con)
    /\ \A t \in ops[o].con.tables : /\ base[t].perms.sel = ops[o].con.sel
                                    /\ base[t].dep = ops[o].dep
\* A batch that failed closed ended so.
ClosedFailed == \A o \in Ids : ops[o].error = "failed_closed" => ops[o].status = "failed"
\* It covers every table under a projection until a newer batch writes.
ClosedCovers ==
  \A o \in Ids :
    /\ ops[o].error = "failed_closed"
    /\ \A p \in Ids : p > o => ~ops[p].wrote
    => CoversExistingBaselines(ops[o].con)
\* There is a newest one if there is any.
ClosedLast ==
  \A o \in Ids : ops[o].error = "failed_closed" =>
    \E e \in Ids : /\ ops[e].error = "failed_closed"
                   /\ \A p \in Ids : p > e => ops[p].error # "failed_closed"
\* A batch that wrote completed, is in flight or failed closed.
WroteEnds ==
  \A o \in Ids : ops[o].wrote => \/ ops[o].status \in InFlight \cup {"completed"}
                                 \/ ops[o].error = "failed_closed"
\* Every row has the dependency snapshot it was made with.
Dependent == \A o \in Ids : ops[o].dep # NoDigest

\* The operation rows.
OpsInv == /\ OneActive /\ Leased /\ Newest /\ NoNewerWrote /\ PreviewUnwritten
          /\ CompletedWrote /\ WroteV2 /\ ActiveCovers /\ LatestRecorded
          /\ ClosedFailed /\ ClosedCovers /\ ClosedLast /\ WroteEnds /\ Dependent

\* What a live handler knows of the operations.
Claims ==
  \A w \in Workers : Live(w) =>
    /\ h[w].pc = "insert" => Settled /\ CoversExistingBaselines(h[w].con)
    /\ h[w].pc = "check" => Settled /\ ops[h[w].op].status = "preview_ready"
    /\ h[w].mode \in {"apply", "recover"} /\ h[w].pc # "check" => InFlightOp(h[w].op)
    /\ h[w].mode = "apply" => ~ops[h[w].op].wrote

\* A copy of the metadata at the current version is the metadata.
Copies ==
  /\ version > 0
  /\ \A w \in Workers : h[w].ver <= version /\ (h[w].ver = version => h[w].meta = meta)
  /\ \A o \in Ids : ops[o].ver <= version /\ (ops[o].ver = version => ops[o].src = meta)
  /\ \A w \in Workers : h[w].mode = "apply" /\ h[w].pc # "check"
       => h[w].ver = ops[h[w].op].ver
\* A request at the current version rewrites the metadata of the moment.
WireCopies ==
  \A r \in wire :
    /\ r.ver <= version
    /\ r.ver = version => r.meta \in {TargetMetadata(meta, ops[r.op].con),
                                      FailClosed(meta, ops[r.op].con)}

\* A row that a request is under way for is in flight, its lease not drained.
RequestRows ==
  /\ \A r \in wire : r.op \in Ids
  /\ \A o \in Ids : Writing(o) => InFlightOp(o) /\ ops[o].lease \in {"live", "expired"}

\* A request with a sender is the one that its sender waits for.
RequestOwners ==
  /\ \A r \in wire : r.w # NoWorker =>
       /\ h[r.w].pc = "await" /\ h[r.w].op = r.op /\ resp[r.w] = "none"
       /\ \A q \in wire : q.w = r.w => q = r
  /\ \A w \in Workers : resp[w] # "none" => h[w].pc = "await"

\* While a handler is live no other one waits, and the requests under way are its
\* own, none before it sends one and none after it was answered.
LiveAlone ==
  \A w \in Workers : Live(w) =>
    /\ \A v \in Workers \ {w} : h[v].pc # "await"
    /\ h[w].pc \notin {"await", "toRecovery"} => wire = {}
    /\ h[w].pc = "await" => \A r \in wire : r.w = w

\* The requests under way.
Requests == RequestRows /\ RequestOwners /\ LiveAlone

\* An environment-scoped select, recorded, enforced or under way, has a
\* context, unless it is that of a batch misjudged as failed.
Contexts ==
  /\ \A t \in Tables : /\ base[t].perms.sel \in EnvSels => context
                       /\ meta.perms[t].sel \in EnvSels => t \in misjudged \/ context
                       /\ meta.perms[t].sel \in EnvSels =>
                            \/ t \in misjudged
                            \/ base[t].perms.sel \in EnvSels
                            \/ \E o \in Ids : InFlightOp(o) /\ ops[o].con.sel \in EnvSels
  /\ \A o \in Ids : InFlightOp(o) /\ ops[o].con.sel \in EnvSels => context
  /\ \A w \in Workers : Live(w) /\ h[w].pc = "check" /\ h[w].con.sel \in EnvSels => context

\* The batch failed the table closed, and no newer batch over it completed.
ClosedBy(o, t) ==
  /\ ops[o].error = "failed_closed" /\ t \in ops[o].con.tables
  /\ \A p \in Ids : p > o /\ ops[p].status = "completed" => t \notin ops[p].con.tables
\* The table enforces what is recorded, or is closed by a batch that says so.
Agrees(t) ==
  \/ meta.perms[t].sel = base[t].perms.sel
  \/ meta.perms[t].sel = "closed" /\ \E o \in Ids : ClosedBy(o, t)
\* It does, but for a console edit or a batch misjudged as failed, and only the
\* latter puts it ahead of what is recorded.
Kept(t) ==
  /\ t \in astray \/ Agrees(t)
  /\ meta.perms[t].sel \in EnvSels => t \in misjudged \/ base[t].perms.sel \in EnvSels
\* Only a batch in flight leaves a table in any other way.
KeptUnlessInFlight ==
  \A t \in Tables : Kept(t) \/ \E o \in Ids : InFlightOp(o) /\ t \in ops[o].con.tables
\* A batch that has still to write, at the version it was made from, was made
\* over tables that agree.
FreshSource ==
  \A o \in Ids : Fresh(o) /\ ops[o].ver = version
    => \A t \in ops[o].con.tables : Agrees(t)

\* What a live handler knows of the tables, after each of its steps.
AllKept == \A t \in Tables : Kept(t)
Shows(w, t, sel) == /\ meta.perms[t].sel \in {sel, "owner"}
                    /\ t \notin astray => meta.perms[t].sel = sel
Progress ==
  \A w \in Workers : Live(w) =>
    /\ h[w].mode = "apply" /\ (h[w].pc \in {"send", "toFailed"}
                               \/ (h[w].pc = "await" /\ resp[w] # "ok")) => AllKept
    /\ h[w].pc = "persist" => \A t \in h[w].con.tables : Shows(w, t, h[w].con.sel)
    /\ h[w].pc = "closed" => \A t \in h[w].con.tables : Shows(w, t, "closed")
    /\ h[w].pc = "decide" => \A t \in Tables : Shows(w, t, h[w].meta.perms[t].sel)
    /\ h[w].pc = "decide" /\ SourceActive(w) => AllKept
-----------------------------------------------------------------------------
(* Operators.                                                              *)

\* The operation rows are numbered from one.
LEMMA Rows ==
  ASSUME TypeOK
  PROVE  /\ Len(ops) \in Nat
         /\ Ids = 1..Len(ops)
         /\ Ids \subseteq Nat
         /\ ops \in [Ids -> OpRow]
         /\ \A o \in Ids : ops[o] \in OpRow
  <1>1. ops \in Seq(OpRow)
    BY DEF TypeOK
  <1>2. Len(ops) \in Nat /\ ops \in [1..Len(ops) -> OpRow] /\ DOMAIN ops = 1..Len(ops)
    BY <1>1, LenProperties
  <1> QED
    BY <1>2 DEF Ids

\* Updating one row leaves the others.
LEMMA RowUpdate ==
  ASSUME TypeOK, NEW o \in Ids, NEW r \in OpRow, ops' = [ops EXCEPT ![o] = r]
  PROVE  /\ ops' \in Seq(OpRow)
         /\ Ids' = Ids
         /\ ops'[o] = r
         /\ \A p \in Ids \ {o} : ops'[p] = ops[p]
  <1>1. ops \in Seq(OpRow) /\ o \in 1..Len(ops)
    BY Rows DEF TypeOK
  <1>2. ops' \in Seq(OpRow)
    BY <1>1, ExceptSeq
  <1>3. ops \in [Ids -> OpRow]
    BY Rows
  <1> QED
    BY <1>2, <1>3 DEF Ids

\* Superseding the previews changes the status of the previews only.
LEMMA Supersede ==
  ASSUME TypeOK, NEW x
  PROVE  /\ supersedeProjectionPreviews(x) \in Seq(OpRow)
         /\ DOMAIN supersedeProjectionPreviews(x) = Ids
         /\ Len(supersedeProjectionPreviews(x)) = Len(ops)
         /\ \A o \in Ids :
              /\ supersedeProjectionPreviews(x)[o] \in OpRow
              /\ supersedeProjectionPreviews(x)[o].status =
                   IF ops[o].status = "preview_ready" /\ o # x
                   THEN "superseded" ELSE ops[o].status
              /\ supersedeProjectionPreviews(x)[o].con = ops[o].con
              /\ supersedeProjectionPreviews(x)[o].revs = ops[o].revs
              /\ supersedeProjectionPreviews(x)[o].src = ops[o].src
              /\ supersedeProjectionPreviews(x)[o].dep = ops[o].dep
              /\ supersedeProjectionPreviews(x)[o].ver = ops[o].ver
              /\ supersedeProjectionPreviews(x)[o].wrote = ops[o].wrote
              /\ supersedeProjectionPreviews(x)[o].epoch = ops[o].epoch
              /\ supersedeProjectionPreviews(x)[o].lease = ops[o].lease
              /\ supersedeProjectionPreviews(x)[o].error = ops[o].error
  <1> DEFINE s == supersedeProjectionPreviews(x)
  <1>1. Len(ops) \in Nat /\ Ids = 1..Len(ops) /\ \A o \in Ids : ops[o] \in OpRow
    BY Rows
  <1>2. "superseded" \in Statuses
    BY DEF Statuses
  <1>3. \A o \in Ids : s[o] = IF ops[o].status = "preview_ready" /\ o # x
                              THEN [ops[o] EXCEPT !.status = "superseded"] ELSE ops[o]
    BY DEF supersedeProjectionPreviews
  <1>4. ASSUME NEW o \in Ids
        PROVE  /\ s[o] \in OpRow
               /\ s[o].status = IF ops[o].status = "preview_ready" /\ o # x
                                THEN "superseded" ELSE ops[o].status
               /\ s[o].con = ops[o].con /\ s[o].revs = ops[o].revs
               /\ s[o].src = ops[o].src /\ s[o].dep = ops[o].dep
               /\ s[o].ver = ops[o].ver /\ s[o].wrote = ops[o].wrote
               /\ s[o].epoch = ops[o].epoch /\ s[o].lease = ops[o].lease
               /\ s[o].error = ops[o].error
    <2> HIDE DEF s
    <2>1. ops[o] \in OpRow
      BY <1>1
    <2>2. CASE ops[o].status = "preview_ready" /\ o # x
      <3>1. s[o] = [ops[o] EXCEPT !.status = "superseded"]
        BY <1>3, <2>2
      <3> QED
        BY <3>1, <2>1, <2>2, <1>2 DEF OpRow
    <2>3. CASE ~(ops[o].status = "preview_ready" /\ o # x)
      <3>1. s[o] = ops[o]
        BY <1>3, <2>3
      <3> QED
        BY <3>1, <2>1, <2>3
    <2> QED
      BY <2>2, <2>3
  <1>5. DOMAIN s = 1..Len(ops) /\ s = [o \in 1..Len(ops) |-> s[o]]
    BY <1>1 DEF supersedeProjectionPreviews
  <1>6. s \in [1..Len(ops) -> OpRow]
    <2> HIDE DEF s
    <2> QED
      BY <1>1, <1>4, <1>5
  <1>7. s \in Seq(OpRow)
    <2> HIDE DEF s
    <2> QED
      BY <1>1, <1>6, SeqDef
  <1>8. Len(s) = Len(ops)
    <2> HIDE DEF s
    <2>1. Len(s) \in Nat /\ DOMAIN s = 1..Len(s)
      BY <1>7, LenProperties
    <2> QED
      BY <2>1, <1>1, <1>5
  <1> QED
    BY <1>1, <1>4, <1>5, <1>7, <1>8

\* A row appended to rows of the same number comes after all of them.
LEMMA AppendRow ==
  ASSUME TypeOK, NEW s \in Seq(OpRow), Len(s) = Len(ops), NEW r \in OpRow,
         ops' = Append(s, r)
  PROVE  /\ ops' \in Seq(OpRow)
         /\ Ids' = Ids \cup {Len(ops) + 1}
         /\ ops'[Len(ops) + 1] = r
         /\ \A o \in Ids : ops'[o] = s[o] /\ o < Len(ops) + 1
         /\ Len(ops) + 1 \notin Ids /\ Len(ops) + 1 \in Nat
  <1>1. Len(ops) \in Nat /\ Ids = 1..Len(ops)
    BY Rows
  <1>2. ops' \in Seq(OpRow) /\ Len(ops') = Len(s) + 1
        /\ \A i \in 1..Len(s) : ops'[i] = s[i]
    BY AppendProperties
  <1>3. ops'[Len(s) + 1] = r
    BY AppendProperties
  <1>4. Ids' = 1..Len(ops')
    BY <1>2, LenProperties DEF Ids
  <1>5. 1..(Len(ops) + 1) = (1..Len(ops)) \cup {Len(ops) + 1}
    BY <1>1
  <1> QED
    BY <1>1, <1>2, <1>3, <1>4, <1>5

-----------------------------------------------------------------------------
(* Type correctness.                                                       *)

\* Every value an action writes into a row or a handler is one of its type's.
LEMMA Members ==
  /\ \A s \in {"preview_ready", "applying", "recovering", "completed", "failed",
               "recovery_required", "superseded"} : s \in Statuses
  /\ \A e \in {"none", "rejected", "recovery_required", "not_applied",
               "failed_closed"} : e \in Errors
  /\ \A l \in {"none", "live", "expired", "drained"} : l \in Leases
  /\ \A m \in {"none", "preview", "apply", "recover"} : m \in Modes
  /\ \A p \in {"idle", "insert", "check", "send", "await", "verify", "persist",
               "inspect", "decide", "closed", "toFailed", "toRecovery"} : p \in Pcs
  BY DEF Statuses, Errors, Leases, Modes, Pcs

\* The empty handler is well typed.
LEMMA IdleType ==
  /\ Idle \in Handler
  /\ Idle.pc = "idle" /\ Idle.mode = "none" /\ Idle.op = 0 /\ Idle.ver = 0
  <1>1. AnyContract \in Contracts
    BY ProjectionAssumption DEF AnyContract
  <1>2. NoMetadata \in Metadata
    BY ProjectionAssumption DEF NoMetadata, Metadata, Permission, Sels
  <1>3. NoRevs \in [Tables -> Nat]
    BY DEF NoRevs
  <1> QED
    BY <1>1, <1>2, <1>3, Members DEF Idle, Handler

\* What a target and a closed metadata hold.
LEMMA Rewritten ==
  ASSUME NEW m \in Metadata, NEW c \in Contracts
  PROVE  /\ TargetMetadata(m, c) \in Metadata
         /\ FailClosed(m, c) \in Metadata
         /\ TargetMetadata(m, c).foreign = m.foreign
         /\ FailClosed(m, c).foreign = m.foreign
         /\ \A t \in Tables :
              /\ TargetMetadata(m, c).perms[t].grants = m.perms[t].grants
              /\ FailClosed(m, c).perms[t].grants = m.perms[t].grants
              /\ TargetMetadata(m, c).perms[t].sel =
                   IF t \in c.tables THEN c.sel ELSE m.perms[t].sel
              /\ FailClosed(m, c).perms[t].sel =
                   IF t \in c.tables THEN "closed" ELSE m.perms[t].sel
  <1>1. c.sel \in Sels /\ "closed" \in Sels
    BY DEF Sels, Constraints
  <1>2. m.perms \in [Tables -> Permission] /\ m.foreign \in Nat
        /\ m = [perms |-> m.perms, foreign |-> m.foreign]
    BY DEF Metadata
  <1>3. \A s \in Sels, t \in Tables :
          /\ [m.perms[t] EXCEPT !.sel = s] \in Permission
          /\ [m.perms[t] EXCEPT !.sel = s].sel = s
          /\ [m.perms[t] EXCEPT !.sel = s].grants = m.perms[t].grants
    BY <1>2 DEF Permission
  <1>4. \A s \in Sels :
          [t \in Tables |-> IF t \in c.tables THEN [m.perms[t] EXCEPT !.sel = s]
                            ELSE m.perms[t]] \in [Tables -> Permission]
    BY <1>2, <1>3
  <1>5. \A f \in [Tables -> Permission] :
          /\ [m EXCEPT !.perms = f] \in Metadata
          /\ [m EXCEPT !.perms = f].perms = f
          /\ [m EXCEPT !.perms = f].foreign = m.foreign
    BY <1>2 DEF Metadata
  <1>6. /\ TargetMetadata(m, c) \in Metadata
        /\ TargetMetadata(m, c).foreign = m.foreign
        /\ TargetMetadata(m, c).perms =
             [t \in Tables |-> IF t \in c.tables THEN [m.perms[t] EXCEPT !.sel = c.sel]
                               ELSE m.perms[t]]
    BY <1>1, <1>4, <1>5 DEF TargetMetadata
  <1>7. /\ FailClosed(m, c) \in Metadata
        /\ FailClosed(m, c).foreign = m.foreign
        /\ FailClosed(m, c).perms =
             [t \in Tables |-> IF t \in c.tables THEN [m.perms[t] EXCEPT !.sel = "closed"]
                               ELSE m.perms[t]]
    BY <1>1, <1>4, <1>5 DEF FailClosed
  <1> QED
    BY <1>1, <1>3, <1>6, <1>7

\* A step of a handler that writes no row keeps the types.
LEMMA Frame ==
  ASSUME TypeOK
  PROVE  /\ UNCHANGED ops => (ops \in Seq(OpRow))'
         /\ UNCHANGED base => (base \in [Tables -> Baseline])'
         /\ UNCHANGED hasura => (meta \in Metadata /\ version \in Nat)'
         /\ UNCHANGED database => (view \in {1, 2} /\ caps \subseteq Tables
                                   /\ context \in BOOLEAN)'
         /\ UNCHANGED bounds => (/\ reopened \in 0..MaxReopened
                                 /\ faults \in 0..MaxFaults
                                 /\ outside \in 0..MaxOutside)'
         /\ Fault => faults' \in 0..MaxFaults
         /\ Outside => outside' \in 0..MaxOutside
         /\ UNCHANGED wire => (wire \subseteq Request)'
         /\ \A w \in Workers : Exit(w) => (/\ h \in [Workers -> Handler]
                                           /\ lock \in Workers \cup {NoWorker}
                                           /\ conn \in [Workers -> BOOLEAN])'
  <1> USE ProjectionAssumption DEF TypeOK
  <1>1. UNCHANGED ops => (ops \in Seq(OpRow))'
    OBVIOUS
  <1>2. Fault => faults' \in 0..MaxFaults
    BY DEF Fault
  <1>3. Outside => outside' \in 0..MaxOutside
    BY DEF Outside
  <1>4. ASSUME NEW w \in Workers, Exit(w)
        PROVE  (/\ h \in [Workers -> Handler]
                /\ lock \in Workers \cup {NoWorker}
                /\ conn \in [Workers -> BOOLEAN])'
    BY <1>4, IdleType DEF Exit
  <1> QED
    BY <1>1, <1>2, <1>3, <1>4 DEF hasura, database, bounds

\* Moving a handler changes its program counter only.
LEMMA GotoShape ==
  ASSUME TypeOK, NEW w \in Workers, NEW p \in Pcs, Goto(w, p)
  PROVE  /\ h' \in [Workers -> Handler]
         /\ h'[w].pc = p
         /\ h'[w].mode = h[w].mode /\ h'[w].op = h[w].op /\ h'[w].con = h[w].con
         /\ h'[w].meta = h[w].meta /\ h'[w].ver = h[w].ver
         /\ h'[w].revs = h[w].revs /\ h'[w].epoch = h[w].epoch
         /\ \A v \in Workers \ {w} : h'[v] = h[v]
  <1>1. h \in [Workers -> Handler] /\ h' = [h EXCEPT ![w].pc = p]
    BY DEF TypeOK, Goto
  <1>2. h[w] \in Handler
    BY <1>1
  <1>3. [h[w] EXCEPT !.pc = p] \in Handler
    BY <1>2 DEF Handler
  <1> QED
    BY <1>1, <1>2, <1>3 DEF Handler

\* A handler that leaves forgets its call, gives back the lock and its session.
LEMMA ExitShape ==
  ASSUME TypeOK, NEW w \in Workers, Exit(w)
  PROVE  /\ h' \in [Workers -> Handler]
         /\ conn' \in [Workers -> BOOLEAN]
         /\ lock' \in Workers \cup {NoWorker}
         /\ h'[w] = Idle /\ conn'[w]
         /\ lock' = IF lock = w THEN NoWorker ELSE lock
         /\ \A v \in Workers \ {w} : h'[v] = h[v] /\ conn'[v] = conn[v]
  BY IdleType DEF TypeOK, Exit

\* A call starts with what was exported.
LEMMA ExportShape ==
  ASSUME TypeOK, NEW w \in Workers, NEW call \in Handler, Exported(w, call)
  PROVE  /\ h' \in [Workers -> Handler]
         /\ h'[w].pc = call.pc
         /\ h'[w].mode = call.mode /\ h'[w].op = call.op /\ h'[w].con = call.con
         /\ h'[w].meta = meta /\ h'[w].ver = version
         /\ h'[w].revs = call.revs /\ h'[w].epoch = call.epoch
         /\ \A v \in Workers \ {w} : h'[v] = h[v]
  <1>1. h \in [Workers -> Handler] /\ meta \in Metadata /\ version \in Nat
    BY DEF TypeOK
  <1> DEFINE r == [call EXCEPT !.meta = meta, !.ver = version]
  <1>2. /\ r \in Handler /\ r.pc = call.pc /\ r.mode = call.mode /\ r.op = call.op
        /\ r.con = call.con /\ r.meta = meta /\ r.ver = version /\ r.revs = call.revs
        /\ r.epoch = call.epoch
    BY <1>1 DEF Handler
  <1>3. h' = [h EXCEPT ![w] = r]
    BY DEF Exported
  <1> HIDE DEF r
  <1> QED
    BY <1>1, <1>2, <1>3

\* Rows with one of them replaced.
LEMMA ExceptRow ==
  ASSUME NEW s \in Seq(OpRow), NEW o \in DOMAIN s, NEW r \in OpRow
  PROVE  [s EXCEPT ![o] = r] \in Seq(OpRow)
  <1>1. DOMAIN s = 1..Len(s)
    BY LenProperties
  <1> QED
    BY <1>1, ExceptSeq

\* What every update of one row may change.
SameRow(r, q) ==
  /\ r.con = q.con /\ r.revs = q.revs /\ r.src = q.src /\ r.dep = q.dep
  /\ r.ver = q.ver

\* The last UPDATE of a handler: its row is closed, the other rows stay.
LEMMA ClosingShape ==
  ASSUME TypeOK, NEW w \in Workers, h[w].op \in Ids, NEW status \in Statuses,
         NEW error \in Errors, Closing(w, status, error)
  PROVE  /\ ops' \in Seq(OpRow)
         /\ Ids' = Ids
         /\ SameRow(ops'[h[w].op], ops[h[w].op])
         /\ ops'[h[w].op].status = status
         /\ ops'[h[w].op].error = error
         /\ ops'[h[w].op].wrote = ops[h[w].op].wrote
         /\ ops'[h[w].op].lease =
              IF status = "failed" THEN "none" ELSE ops[h[w].op].lease
         /\ \A p \in Ids \ {h[w].op} : ops'[p] = ops[p]
  <1> DEFINE q == ops[h[w].op]
             r == [q EXCEPT !.status = status, !.error = error,
                            !.lease = IF status = "failed" THEN "none" ELSE q.lease]
  <1>1. q \in OpRow
    BY Rows
  <1>2. /\ r \in OpRow /\ SameRow(r, q) /\ r.status = status /\ r.error = error
        /\ r.wrote = q.wrote
        /\ r.lease = IF status = "failed" THEN "none" ELSE q.lease
    BY <1>1, Members DEF OpRow, SameRow
  <1>3. ops' = [ops EXCEPT ![h[w].op] = r]
    BY DEF Closing, Op
  <1> HIDE DEF r
  <1> QED
    BY <1>2, <1>3, RowUpdate

\* Claiming a row gives it a new epoch and a live lease.
LEMMA ClaimShape ==
  ASSUME TypeOK, NEW o \in Ids, NEW status \in Statuses
  PROVE  /\ Claimed(o, status) \in OpRow
         /\ SameRow(Claimed(o, status), ops[o])
         /\ Claimed(o, status).status = status
         /\ Claimed(o, status).lease = "live"
         /\ Claimed(o, status).wrote = ops[o].wrote
         /\ Claimed(o, status).error = ops[o].error
         /\ Claimed(o, status).epoch = ops[o].epoch + 1
  <1>1. ops[o] \in OpRow
    BY Rows
  <1>2. ops[o].epoch + 1 \in Nat
    BY <1>1 DEF OpRow
  <1>3. Claimed(o, status) = [ops[o] EXCEPT !.status = status,
                                 !.epoch = ops[o].epoch + 1, !.lease = "live"]
    BY <1>1 DEF Claimed
  <1> QED
    BY <1>1, <1>2, <1>3, Members DEF OpRow, SameRow

\* Reopening a completed row supersedes the previews and claims the row.
LEMMA ReopenShape ==
  ASSUME TypeOK, NEW o \in Ids, ops[o].status = "completed",
         ops' = [supersedeProjectionPreviews(o) EXCEPT ![o] = Claimed(o, "recovering")]
  PROVE  /\ ops' \in Seq(OpRow)
         /\ Ids' = Ids
         /\ ops'[o] = Claimed(o, "recovering")
         /\ \A p \in Ids \ {o} :
              /\ SameRow(ops'[p], ops[p])
              /\ ops'[p].status = IF ops[p].status = "preview_ready"
                                  THEN "superseded" ELSE ops[p].status
              /\ ops'[p].wrote = ops[p].wrote /\ ops'[p].error = ops[p].error
              /\ ops'[p].lease = ops[p].lease
  <1> DEFINE s == supersedeProjectionPreviews(o)
             r == Claimed(o, "recovering")
  <1>1. s \in Seq(OpRow) /\ DOMAIN s = Ids /\ Len(s) = Len(ops) /\ Ids = 1..Len(ops)
    BY Supersede, Rows
  <1>2. r \in OpRow
    BY ClaimShape, Members
  <1>3. \A p \in Ids \ {o} :
              /\ SameRow(s[p], ops[p])
              /\ s[p].status = IF ops[p].status = "preview_ready"
                               THEN "superseded" ELSE ops[p].status
              /\ s[p].wrote = ops[p].wrote /\ s[p].error = ops[p].error
              /\ s[p].lease = ops[p].lease
    BY Supersede DEF SameRow
  <1>4. ops' = [s EXCEPT ![o] = r]
    OBVIOUS
  <1> HIDE DEF s, r
  <1>5. ops' \in Seq(OpRow)
    <2>1. s \in Seq(OpRow) /\ o \in DOMAIN s /\ r \in OpRow
      BY <1>1, <1>2
    <2>2. [s EXCEPT ![o] = r] \in Seq(OpRow)
      BY <2>1, ExceptRow, Zenon
    <2> QED
      BY <1>4, <2>2
  <1>6. s \in [Ids -> OpRow]
    BY <1>1, LenProperties
  <1>7. Ids' = Ids /\ ops'[o] = r /\ \A p \in Ids \ {o} : ops'[p] = s[p]
    BY <1>4, <1>6 DEF Ids
  <1> QED
    BY <1>3, <1>5, <1>7 DEF r

\* The rows after the previews were superseded.
LEMMA SupersededShape ==
  ASSUME TypeOK, NEW x, ops' = supersedeProjectionPreviews(x)
  PROVE  /\ ops' \in Seq(OpRow)
         /\ Ids' = Ids
         /\ \A p \in Ids :
              /\ SameRow(ops'[p], ops[p])
              /\ ops'[p].status = IF ops[p].status = "preview_ready" /\ p # x
                                  THEN "superseded" ELSE ops[p].status
              /\ ops'[p].wrote = ops[p].wrote /\ ops'[p].error = ops[p].error
              /\ ops'[p].lease = ops[p].lease
  <1> DEFINE s == supersedeProjectionPreviews(x)
  <1>1. /\ s \in Seq(OpRow) /\ DOMAIN s = Ids
        /\ \A p \in Ids :
              /\ SameRow(s[p], ops[p])
              /\ s[p].status = IF ops[p].status = "preview_ready" /\ p # x
                               THEN "superseded" ELSE ops[p].status
              /\ s[p].wrote = ops[p].wrote /\ s[p].error = ops[p].error
              /\ s[p].lease = ops[p].lease
    BY Supersede DEF SameRow
  <1> HIDE DEF s
  <1> QED
    BY <1>1 DEF s, Ids

\* A preview's row comes after all others, which are no previews any more.
LEMMA InsertShape ==
  ASSUME TypeOK, NEW w \in Workers,
         ops' = Append(supersedeProjectionPreviews(0), NewRow(w))
  PROVE  /\ ops' \in Seq(OpRow)
         /\ \E n \in Nat :
              /\ n \notin Ids /\ Ids' = Ids \cup {n} /\ \A p \in Ids : p < n
              /\ ops'[n].status = "preview_ready" /\ ops'[n].con = h[w].con
              /\ ops'[n].src = h[w].meta /\ ops'[n].ver = h[w].ver
              /\ ops'[n].dep # NoDigest /\ ~ops'[n].wrote
              /\ ops'[n].lease = "none" /\ ops'[n].error = "none"
              /\ \A p \in Ids :
                   /\ SameRow(ops'[p], ops[p])
                   /\ ops'[p].status = IF ops[p].status = "preview_ready"
                                       THEN "superseded" ELSE ops[p].status
                   /\ ops'[p].wrote = ops[p].wrote /\ ops'[p].error = ops[p].error
                   /\ ops'[p].lease = ops[p].lease
  <1> DEFINE s == supersedeProjectionPreviews(0)
             r == NewRow(w)
             n == Len(ops) + 1
  <1>1. Ids \subseteq Nat /\ 0 \notin Ids
    BY Rows
  <1>2. /\ s \in Seq(OpRow) /\ Len(s) = Len(ops)
        /\ \A p \in Ids :
              /\ SameRow(s[p], ops[p])
              /\ s[p].status = IF ops[p].status = "preview_ready"
                               THEN "superseded" ELSE ops[p].status
              /\ s[p].wrote = ops[p].wrote /\ s[p].error = ops[p].error
              /\ s[p].lease = ops[p].lease
    BY <1>1, Supersede DEF SameRow
  <1>3. h[w] \in Handler /\ view \in {1, 2} /\ base \in [Tables -> Baseline]
    BY DEF TypeOK
  <1>4. <<h[w].con, view>> \in Digests /\ <<h[w].con, view>> # NoDigest
    BY <1>3 DEF Digests, NoDigest, Handler
  <1>5. [t \in Tables |-> IF t \in h[w].con.tables THEN base[t].rev ELSE 0]
          \in [Tables -> Nat]
    BY <1>3 DEF Baseline
  <1>6. r \in OpRow
    BY <1>3, <1>4, <1>5, Members DEF NewRow, OpRow, DependencyDigest, Handler
  <1>7. /\ r.status = "preview_ready" /\ r.con = h[w].con /\ r.src = h[w].meta
        /\ r.ver = h[w].ver /\ r.dep # NoDigest /\ ~r.wrote /\ r.lease = "none"
        /\ r.error = "none"
    BY <1>4 DEF NewRow, DependencyDigest
  <1>8. ops' = Append(s, r)
    OBVIOUS
  <1> HIDE DEF s, r
  <1>9. /\ ops' \in Seq(OpRow) /\ Ids' = Ids \cup {n} /\ ops'[n] = r
        /\ \A p \in Ids : ops'[p] = s[p] /\ p < n
        /\ n \notin Ids /\ n \in Nat
    BY <1>2, <1>6, <1>8, AppendRow
  <1> HIDE DEF n
  <1> QED
    BY <1>2, <1>7, <1>9

\* Recording a batch: every table of it has the target and the dependencies.
LEMMA PersistShape ==
  ASSUME TypeOK, NEW w \in Workers, h[w].op \in Ids, PersistedRows(w)
  PROVE  /\ ops' \in Seq(OpRow)
         /\ base' \in [Tables -> Baseline]
         /\ Ids' = Ids
         /\ SameRow(ops'[h[w].op], ops[h[w].op])
         /\ ops'[h[w].op].status = "completed"
         /\ ops'[h[w].op].wrote
         /\ ops'[h[w].op].error = ops[h[w].op].error
         /\ \A p \in Ids \ {h[w].op} : ops'[p] = ops[p]
         /\ \A t \in Tables :
              /\ base'[t].perms.grants = base[t].perms.grants
              /\ t \in h[w].con.tables =>
                   base'[t].perms.sel = h[w].con.sel /\ base'[t].dep = ops[h[w].op].dep
              /\ t \notin h[w].con.tables => base'[t] = base[t]
  <1> DEFINE q == ops[h[w].op]
             r == [q EXCEPT !.status = "completed", !.lease = "none", !.wrote = TRUE]
  <1>1. q \in OpRow /\ h[w] \in Handler /\ base \in [Tables -> Baseline]
    BY Rows DEF TypeOK
  <1>2. /\ r \in OpRow /\ SameRow(r, q) /\ r.status = "completed" /\ r.wrote
        /\ r.error = q.error
    BY <1>1, Members DEF OpRow, SameRow
  <1>3. ops' = [ops EXCEPT ![h[w].op] = r]
    BY Rows DEF PersistedRows, Ids
  <1> DEFINE c == h[w].con
             new(t) == [rev |-> base[t].rev + 1, dep |-> q.dep,
                        perms |-> TargetPermission(t, c)]
  <1>4. c \in Contracts /\ c.sel \in Sels /\ q.dep \in Digests
    BY <1>1 DEF Handler, Sels, Constraints, OpRow
  <1>5. ASSUME NEW t \in Tables
        PROVE  /\ TargetPermission(t, c) \in Permission
               /\ TargetPermission(t, c).sel = c.sel
               /\ TargetPermission(t, c).grants = base[t].perms.grants
               /\ new(t) \in Baseline /\ base[t] \in Baseline
               /\ new(t).dep = q.dep /\ new(t).perms = TargetPermission(t, c)
    <2>1. base[t] \in Baseline /\ base[t].perms \in Permission /\ base[t].rev \in Nat
      BY <1>1 DEF Baseline
    <2>2. /\ TargetPermission(t, c) \in Permission
          /\ TargetPermission(t, c).sel = c.sel
          /\ TargetPermission(t, c).grants = base[t].perms.grants
      BY <1>4, <2>1 DEF TargetPermission, Permission
    <2> HIDE DEF c
    <2> QED
      BY <1>4, <2>1, <2>2 DEF Baseline
  <1>6. base' = [t \in Tables |-> IF t \in c.tables
                                     /\ ~(base[t].dep = q.dep
                                          /\ base[t].perms = TargetPermission(t, c))
                                  THEN new(t) ELSE base[t]]
    BY DEF PersistedRows, Persisted, Op
  <1> HIDE DEF new, c, r, q
  <1>7. base' \in [Tables -> Baseline]
    BY <1>5, <1>6
  <1>8. ASSUME NEW t \in Tables
        PROVE  /\ base'[t].perms.grants = base[t].perms.grants
               /\ t \in c.tables => base'[t].perms.sel = c.sel /\ base'[t].dep = q.dep
               /\ t \notin c.tables => base'[t] = base[t]
    BY <1>5, <1>6
  <1>9. /\ ops' \in Seq(OpRow) /\ Ids' = Ids /\ ops'[h[w].op] = r
        /\ \A p \in Ids \ {h[w].op} : ops'[p] = ops[p]
    BY <1>2, <1>3, RowUpdate
  <1> QED
    BY <1>2, <1>7, <1>8, <1>9 DEF q, c

\* A lease that ages changes nothing else of its row.
LEMMA AgeShape ==
  ASSUME TypeOK, NEW o \in Ids, LeaseAges(o)
  PROVE  /\ ops' \in Seq(OpRow)
         /\ Ids' = Ids
         /\ SameRow(ops'[o], ops[o])
         /\ ops'[o].status = ops[o].status /\ ops'[o].wrote = ops[o].wrote
         /\ ops'[o].error = ops[o].error
         /\ \/ ops[o].lease = "live" /\ ops'[o].lease = "expired"
            \/ ops[o].lease = "expired" /\ ops'[o].lease = "drained" /\ ~Writing(o)
         /\ \A p \in Ids \ {o} : ops'[p] = ops[p]
  <1>1. ASSUME NEW l \in Leases, ops' = [ops EXCEPT ![o].lease = l]
        PROVE  /\ ops' \in Seq(OpRow)
               /\ Ids' = Ids
               /\ SameRow(ops'[o], ops[o])
               /\ ops'[o].status = ops[o].status /\ ops'[o].wrote = ops[o].wrote
               /\ ops'[o].error = ops[o].error /\ ops'[o].lease = l
               /\ \A p \in Ids \ {o} : ops'[p] = ops[p]
    <2> DEFINE r == [ops[o] EXCEPT !.lease = l]
    <2>1. ops[o] \in OpRow
      BY Rows
    <2>2. /\ r \in OpRow /\ SameRow(r, ops[o]) /\ r.status = ops[o].status
          /\ r.wrote = ops[o].wrote /\ r.error = ops[o].error /\ r.lease = l
      BY <2>1 DEF OpRow, SameRow
    <2>3. ops' = [ops EXCEPT ![o] = r]
      BY <1>1, Rows DEF Ids
    <2> HIDE DEF r
    <2> QED
      BY <2>2, <2>3, RowUpdate
  <1> QED
    BY <1>1, Members DEF LeaseAges

\* What the calls put into their handler.
LEMMA PreviewCall ==
  ASSUME TypeOK, NEW w \in Workers, NEW c \in Contracts, PreviewBegin(w, c)
  PROVE  /\ h' \in [Workers -> Handler]
         /\ h'[w].pc = "insert" /\ h'[w].mode = "preview" /\ h'[w].op = 0
         /\ h'[w].con = c /\ h'[w].meta = meta /\ h'[w].ver = version
         /\ \A v \in Workers \ {w} : h'[v] = h[v]
  <1> DEFINE call == [Idle EXCEPT !.pc = "insert", !.mode = "preview", !.con = c]
  <1>1. /\ call \in Handler /\ call.pc = "insert" /\ call.mode = "preview"
        /\ call.op = 0 /\ call.con = c
    BY IdleType, Members DEF Handler
  <1>2. Exported(w, call)
    BY DEF PreviewBegin
  <1> HIDE DEF call
  <1> QED
    BY <1>1, <1>2, ExportShape

\* The same of an apply.
LEMMA ApplyCall ==
  ASSUME TypeOK, NEW w \in Workers, NEW o \in Ids, ApplyBegin(w, o)
  PROVE  /\ h' \in [Workers -> Handler]
         /\ h'[w].pc = "check" /\ h'[w].mode = "apply" /\ h'[w].op = o
         /\ h'[w].con = ops[o].con /\ h'[w].meta = meta /\ h'[w].ver = version
         /\ \A v \in Workers \ {w} : h'[v] = h[v]
  <1> DEFINE call == [Idle EXCEPT !.pc = "check", !.mode = "apply", !.op = o,
                                  !.con = ops[o].con]
  <1>1. ops[o].con \in Contracts /\ o \in Nat
    BY Rows DEF OpRow
  <1>2. /\ call \in Handler /\ call.pc = "check" /\ call.mode = "apply"
        /\ call.op = o /\ call.con = ops[o].con
    BY <1>1, IdleType, Members DEF Handler
  <1>3. Exported(w, call)
    BY DEF ApplyBegin
  <1> HIDE DEF call
  <1> QED
    BY <1>2, <1>3, ExportShape

\* The same of a recovery.
LEMMA RecoverCall ==
  ASSUME TypeOK, NEW w \in Workers, NEW o \in Ids, RecoverBegin(w, o)
  PROVE  /\ h' \in [Workers -> Handler]
         /\ h'[w].pc = "inspect" /\ h'[w].mode = "recover" /\ h'[w].op = o
         /\ h'[w].con = ops[o].con /\ h'[w].ver = 0
         /\ \A v \in Workers \ {w} : h'[v] = h[v]
  <1> DEFINE call == [Idle EXCEPT !.pc = "inspect", !.mode = "recover", !.op = o,
                                  !.con = ops[o].con, !.epoch = ops[o].epoch + 1]
  <1>1. ops[o].con \in Contracts /\ o \in Nat /\ ops[o].epoch + 1 \in Nat
    BY Rows DEF OpRow
  <1>2. /\ call \in Handler /\ call.pc = "inspect" /\ call.mode = "recover"
        /\ call.op = o /\ call.con = ops[o].con /\ call.ver = 0
    BY <1>1, IdleType, Members DEF Handler
  <1>3. h' = [h EXCEPT ![w] = call] /\ h \in [Workers -> Handler]
    BY DEF RecoverBegin, TypeOK
  <1> HIDE DEF call
  <1> QED
    BY <1>2, <1>3

\* The rows a recovery claims.
LEMMA RecoverRows ==
  ASSUME TypeOK, NEW w \in Workers, NEW o \in Ids, RecoverBegin(w, o)
  PROVE  /\ ops' \in Seq(OpRow)
         /\ Ids' = Ids
         /\ SameRow(ops'[o], ops[o])
         /\ ops'[o].status = "recovering" /\ ops'[o].lease = "live"
         /\ ops'[o].wrote = ops[o].wrote /\ ops'[o].error = ops[o].error
         /\ \A p \in Ids \ {o} :
              /\ SameRow(ops'[p], ops[p])
              /\ \/ ops'[p].status = ops[p].status
                 \/ /\ ops[p].status = "preview_ready" /\ ops'[p].status = "superseded"
                    /\ ops[o].status = "completed"
              /\ ops[o].status = "completed" => ops'[p].status # "preview_ready"
              /\ ops'[p].wrote = ops[p].wrote /\ ops'[p].error = ops[p].error
              /\ ops'[p].lease = ops[p].lease
  <1> DEFINE r == Claimed(o, "recovering")
  <1>1. /\ r \in OpRow /\ SameRow(r, ops[o]) /\ r.status = "recovering"
        /\ r.lease = "live" /\ r.wrote = ops[o].wrote /\ r.error = ops[o].error
    BY ClaimShape, Members
  <1>2. CASE ops[o].status = "completed"
    <2>1. ops' = [supersedeProjectionPreviews(o) EXCEPT ![o] = r]
      BY <1>2 DEF RecoverBegin, InFlight
    <2>2. /\ ops' \in Seq(OpRow) /\ Ids' = Ids /\ ops'[o] = r
          /\ \A p \in Ids \ {o} :
               /\ SameRow(ops'[p], ops[p])
               /\ ops'[p].status = IF ops[p].status = "preview_ready"
                                   THEN "superseded" ELSE ops[p].status
               /\ ops'[p].wrote = ops[p].wrote /\ ops'[p].error = ops[p].error
               /\ ops'[p].lease = ops[p].lease
      BY <1>2, <2>1, ReopenShape
    <2> HIDE DEF r
    <2> QED
      BY <1>1, <1>2, <2>2
  <1>3. CASE ops[o].status # "completed"
    <2>1. ops' = [ops EXCEPT ![o] = r]
      BY <1>3 DEF RecoverBegin
    <2> HIDE DEF r
    <2> QED
      BY <1>1, <1>3, <2>1, RowUpdate DEF SameRow
  <1> QED
    BY <1>2, <1>3

\* A recovery takes a copy of the metadata.
LEMMA InspectShape ==
  ASSUME TypeOK, NEW w \in Workers, RecoverInspect(w)
  PROVE  /\ h' \in [Workers -> Handler]
         /\ h'[w].mode = h[w].mode /\ h'[w].op = h[w].op /\ h'[w].con = h[w].con
         /\ \/ h'[w].pc = "decide" /\ h'[w].meta = meta /\ h'[w].ver = version
               /\ HoldsLease(w)
            \/ h'[w].pc = "toRecovery" /\ h'[w].meta = h[w].meta
               /\ h'[w].ver = h[w].ver
         /\ \A v \in Workers \ {w} : h'[v] = h[v]
  <1> DEFINE call == [h[w] EXCEPT !.pc = "decide"]
  <1>1. CASE Exported(w, call) /\ HoldsLease(w)
    <2>1. h[w] \in Handler
      BY DEF TypeOK
    <2>2. /\ call \in Handler /\ call.pc = "decide" /\ call.mode = h[w].mode
          /\ call.op = h[w].op /\ call.con = h[w].con
      BY <2>1, Members DEF Handler
    <2> HIDE DEF call
    <2> QED
      BY <1>1, <2>2, ExportShape
  <1>2. CASE Goto(w, "toRecovery")
    BY <1>2, GotoShape, Members
  <1> QED
    BY <1>1, <1>2 DEF RecoverInspect, Proceed

\* An apply that is admitted claims its row.
LEMMA CheckShape ==
  ASSUME TypeOK, NEW w \in Workers, ApplyCheck(w), ApplyAdmits(w), h[w].op \in Ids
  PROVE  /\ h' \in [Workers -> Handler]
         /\ h'[w].pc = "send" /\ h'[w].mode = h[w].mode /\ h'[w].op = h[w].op
         /\ h'[w].con = h[w].con /\ h'[w].meta = h[w].meta /\ h'[w].ver = h[w].ver
         /\ \A v \in Workers \ {w} : h'[v] = h[v]
         /\ UNCHANGED <<lock, conn, Local>>
         /\ ops' \in Seq(OpRow)
         /\ Ids' = Ids
         /\ SameRow(ops'[h[w].op], ops[h[w].op])
         /\ ops'[h[w].op].status = "applying" /\ ops'[h[w].op].lease = "live"
         /\ ops'[h[w].op].wrote = ops[h[w].op].wrote
         /\ ops'[h[w].op].error = ops[h[w].op].error
         /\ \A p \in Ids \ {h[w].op} : ops'[p] = ops[p]
  <1> DEFINE r == Claimed(h[w].op, "applying")
             e == Op(w).epoch + 1
             f == Op(w).revs
  <1>1. /\ r \in OpRow /\ SameRow(r, ops[h[w].op]) /\ r.status = "applying"
        /\ r.lease = "live" /\ r.wrote = ops[h[w].op].wrote
        /\ r.error = ops[h[w].op].error
    BY ClaimShape, Members
  <1>2. /\ ops' = [ops EXCEPT ![h[w].op] = r]
        /\ h' = [h EXCEPT ![w].pc = "send", ![w].epoch = e, ![w].revs = f]
        /\ UNCHANGED <<lock, conn, Local>>
    BY DEF ApplyCheck
  <1>3. h[w] \in Handler /\ h \in [Workers -> Handler]
    BY DEF TypeOK
  <1>4. e \in Nat /\ f \in [Tables -> Nat]
    BY Rows DEF Op, OpRow
  <1> HIDE DEF r, e, f
  <1>5. /\ ops' \in Seq(OpRow) /\ Ids' = Ids /\ ops'[h[w].op] = r
        /\ \A p \in Ids \ {h[w].op} : ops'[p] = ops[p]
    BY <1>1, <1>2, RowUpdate
  <1>6. /\ h' \in [Workers -> Handler]
        /\ h'[w].pc = "send" /\ h'[w].mode = h[w].mode /\ h'[w].op = h[w].op
        /\ h'[w].con = h[w].con /\ h'[w].meta = h[w].meta /\ h'[w].ver = h[w].ver
        /\ \A v \in Workers \ {w} : h'[v] = h[v]
    BY <1>2, <1>3, <1>4, Members DEF Handler
  <1> QED
    BY <1>1, <1>2, <1>5, <1>6

\* A recovery that finds the target in force goes on to record it.
LEMMA DecideShape ==
  ASSUME TypeOK, NEW w \in Workers, NEW f \in [Tables -> Nat],
         h' = [h EXCEPT ![w].pc = "persist", ![w].revs = f]
  PROVE  /\ h' \in [Workers -> Handler]
         /\ h'[w].pc = "persist" /\ h'[w].mode = h[w].mode /\ h'[w].op = h[w].op
         /\ h'[w].con = h[w].con /\ h'[w].meta = h[w].meta /\ h'[w].ver = h[w].ver
         /\ \A v \in Workers \ {w} : h'[v] = h[v]
  <1>1. h[w] \in Handler /\ h \in [Workers -> Handler]
    BY DEF TypeOK
  <1> QED
    BY <1>1, Members DEF Handler

\* The revisions of the baselines.
LEMMA RevsType ==
  ASSUME TypeOK
  PROVE  [t \in Tables |-> base[t].rev] \in [Tables -> Nat]
  BY DEF TypeOK, Baseline

\* A request whose sender is gone is still a request.
LEMMA OrphanedType ==
  ASSUME TypeOK, NEW w \in Workers
  PROVE  /\ Orphaned(w) \subseteq Request
         /\ \A q \in Orphaned(w) : \E r \in wire :
              /\ q.op = r.op /\ q.ver = r.ver /\ q.meta = r.meta
              /\ q.w = IF r.w = w THEN NoWorker ELSE r.w
  <1> SUFFICES ASSUME NEW q \in Orphaned(w)
               PROVE  /\ q \in Request
                      /\ \E r \in wire :
                           /\ q.op = r.op /\ q.ver = r.ver /\ q.meta = r.meta
                           /\ q.w = IF r.w = w THEN NoWorker ELSE r.w
    OBVIOUS
  <1>1. PICK r \in wire : q = [r EXCEPT !.w = IF r.w = w THEN NoWorker ELSE r.w]
    BY DEF Orphaned
  <1>2. r \in Request
    BY DEF TypeOK
  <1> QED
    BY <1>1, <1>2 DEF Request

\* A console edit changes the select of one table.
LEMMA EditShape ==
  ASSUME TypeOK, NEW t \in Tables, meta' = [meta EXCEPT !.perms[t].sel = "owner"]
  PROVE  /\ meta' \in Metadata
         /\ meta'.foreign = meta.foreign
         /\ meta'.perms[t].sel = "owner"
         /\ meta'.perms[t].grants = meta.perms[t].grants
         /\ \A u \in Tables \ {t} : meta'.perms[u] = meta.perms[u]
  <1>1. meta \in Metadata /\ meta.perms \in [Tables -> Permission]
        /\ meta.perms[t] \in Permission
    BY DEF TypeOK, Metadata
  <1>2. "owner" \in Sels
    BY DEF Sels
  <1> QED
    BY <1>1, <1>2 DEF Metadata, Permission

\* A policy operation grants one table more, in its baseline and in Hasura.
LEMMA ChangeShape ==
  ASSUME TypeOK, Baselines, NEW t \in Tables, PolicyChange(t)
  PROVE  /\ meta' \in Metadata
         /\ base' \in [Tables -> Baseline]
         /\ meta'.foreign = meta.foreign
         /\ base'[t].perms.grants = base[t].perms.grants + 1
         /\ meta'.perms[t].grants = base[t].perms.grants + 1
         /\ base'[t].perms.sel = base[t].perms.sel
         /\ meta'.perms[t].sel = meta.perms[t].sel
         /\ meta'.perms[t].sel = base[t].perms.sel
         /\ base'[t].dep = base[t].dep
         /\ \A u \in Tables \ {t} : meta'.perms[u] = meta.perms[u] /\ base'[u] = base[u]
  <1> DEFINE g == base[t].perms.grants + 1
  <1>1. /\ meta \in Metadata /\ meta.perms \in [Tables -> Permission]
        /\ meta.perms[t] \in Permission /\ base \in [Tables -> Baseline]
        /\ base[t] \in Baseline /\ base[t].perms \in Permission /\ base[t].rev \in Nat
        /\ outside \in 0..MaxOutside
    BY DEF TypeOK, Metadata, Baseline
  <1>2. g \in 0..MaxOutside
    BY <1>1, ProjectionAssumption DEF Baselines, Permission, PolicyChange, Outside
  <1>3. /\ meta' = [meta EXCEPT !.perms[t].grants = g]
        /\ base' = [base EXCEPT ![t].rev = @ + 1, ![t].perms.grants = g]
        /\ meta.perms[t] = base[t].perms
    BY DEF PolicyChange
  <1>4. g = base[t].perms.grants + 1
    OBVIOUS
  <1> HIDE DEF g
  <1>5. /\ meta' \in Metadata /\ meta'.foreign = meta.foreign
        /\ meta'.perms[t].grants = g /\ meta'.perms[t].sel = meta.perms[t].sel
        /\ \A u \in Tables \ {t} : meta'.perms[u] = meta.perms[u]
    BY <1>1, <1>2, <1>3 DEF Metadata, Permission
  <1>6. /\ base' \in [Tables -> Baseline] /\ base'[t].perms.grants = g
        /\ base'[t].perms.sel = base[t].perms.sel /\ base'[t].dep = base[t].dep
        /\ \A u \in Tables \ {t} : base'[u] = base[u]
    <2> DEFINE p == [base[t].perms EXCEPT !.grants = g]
               q == [rev |-> base[t].rev + 1, perms |-> p, dep |-> base[t].dep]
    <2>1. p \in Permission /\ p.grants = g /\ p.sel = base[t].perms.sel
      BY <1>1, <1>2 DEF Permission
    <2>2. q \in Baseline /\ q.perms = p /\ q.dep = base[t].dep
      BY <1>1, <2>1 DEF Baseline
    <2>3. base'[t] = q
      BY <1>1, <1>3 DEF Baseline
    <2>4. \A u \in Tables \ {t} : base'[u] = base[u]
      BY <1>1, <1>3
    <2>5. base' = [base EXCEPT ![t] = base'[t]]
      BY <1>1, <1>3
    <2> HIDE DEF p, q
    <2> QED
      BY <1>1, <2>1, <2>2, <2>3, <2>4, <2>5
  <1> QED
    BY <1>3, <1>4, <1>5, <1>6

\* Every step keeps the types: a handler works on a row that exists, and a
\* baseline never has more grants than there were changes.
LEMMA TypeStep ==
  ASSUME TypeOK, StepOf, Baselines, [Next]_vars
  PROVE  TypeOK'
  <1> USE ProjectionAssumption
  <1>1. ASSUME NEW w \in Workers, NEW c \in Contracts, PreviewBegin(w, c)
        PROVE  TypeOK'
    <2>1. h' \in [Workers -> Handler]
      BY <1>1, PreviewCall
    <2> QED
      BY <1>1, <2>1, Frame DEF TypeOK, PreviewBegin,
           withProjectDataAccessMutationLock, Exported, At, hasura, database,
           bounds
  <1>2. ASSUME NEW w \in Workers, NEW o \in Ids, ApplyBegin(w, o) PROVE TypeOK'
    <2>1. h' \in [Workers -> Handler]
      BY <1>2, ApplyCall
    <2> QED
      BY <1>2, <2>1, Frame DEF TypeOK, ApplyBegin,
           withProjectDataAccessMutationLock, Exported, At, hasura, database,
           bounds
  <1>3. ASSUME NEW w \in Workers, PreviewInsert(w) PROVE TypeOK'
    <2>1. ops' \in Seq(OpRow)
      BY <1>3, InsertShape, Frame DEF PreviewInsert, Refuse
    <2>2. Exit(w) /\ UNCHANGED Local
      BY <1>3 DEF PreviewInsert, Refuse
    <2> QED
      BY <2>1, <2>2, Frame DEF TypeOK, Local, hasura, database, bounds
  <1>4. ASSUME NEW w \in Workers, ApplyCheck(w) PROVE TypeOK'
    <2>1. CASE ApplyAdmits(w)
      <3>1. h[w].op \in Ids
        BY <1>4 DEF StepOf, ApplyCheck, At
      <3> QED
        BY <1>4, <2>1, <3>1, CheckShape, Frame
           DEF TypeOK, Local, hasura, database, bounds
    <2>2. CASE ~ApplyAdmits(w)
      BY <1>4, <2>2, Frame
         DEF TypeOK, ApplyCheck, Refuse, Local, hasura, database, bounds
    <2> QED
      BY <2>1, <2>2
  <1>5. ASSUME NEW w \in Workers, Send(w) PROVE TypeOK'
    <2>1. CASE HoldsLease(w)
      <3>1. h[w].op \in Ids /\ h[w] \in Handler /\ Ids \subseteq Nat
        BY <1>5, Rows DEF StepOf, Send, At, TypeOK
      <3>2. ops[h[w].op] \in OpRow
        BY <3>1, Rows
      <3>3. Op(w).src \in Metadata /\ h[w].con \in Contracts /\ h[w].meta \in Metadata
            /\ h[w].ver \in Nat
        BY <3>1, <3>2 DEF Op, OpRow, Handler
      <3>4. Target(w) \in Metadata /\ FailClosed(h[w].meta, h[w].con) \in Metadata
        BY <3>3, Rewritten DEF Target
      <3>5. [w |-> w, op |-> h[w].op, ver |-> h[w].ver,
             meta |-> IF h[w].mode = "apply" THEN Target(w)
                      ELSE FailClosed(h[w].meta, h[w].con)] \in Request
        BY <3>1, <3>3, <3>4 DEF Request
      <3>6. wire' \subseteq Request
        BY <1>5, <2>1, <3>5 DEF Send, TypeOK
      <3>7. h' \in [Workers -> Handler]
        BY <1>5, <2>1, GotoShape, Members DEF Send
      <3> QED
        BY <1>5, <2>1, <3>6, <3>7, Frame DEF TypeOK, Send, hasura, database, bounds
    <2>2. CASE ~HoldsLease(w)
      <3>1. h' \in [Workers -> Handler]
        BY <1>5, <2>2, GotoShape, Members DEF Send, Proceed
      <3> QED
        BY <1>5, <2>2, <3>1, Frame
           DEF TypeOK, Send, Proceed, Local, hasura, database, bounds
    <2> QED
      BY <2>1, <2>2
  <1>6. ASSUME NEW w \in Workers, Receive(w) PROVE TypeOK'
    <2>1. h' \in [Workers -> Handler]
      BY <1>6, GotoShape, Members DEF Receive, AfterError, At, hasura, database,
           bounds
    <2> QED
      BY <1>6, <2>1, Frame DEF TypeOK, Answers, Receive, AfterError, Goto, At,
           hasura, database, bounds
  <1>7. ASSUME NEW w \in Workers, VerifyTarget(w) PROVE TypeOK'
    <2>1. h' \in [Workers -> Handler]
      BY <1>7, GotoShape, Members DEF VerifyTarget, Proceed, Local, At, hasura,
           database, bounds
    <2> QED
      BY <1>7, <2>1, Frame DEF TypeOK, Answers, VerifyTarget, Proceed, Goto, Local,
           At, hasura, database, bounds
  <1>8. ASSUME NEW w \in Workers, Persist(w) PROVE TypeOK'
    <2>1. CASE MayPersist(w)
      <3>1. h[w].op \in Ids
        BY <1>8 DEF StepOf, Persist, At
      <3> QED
        BY <1>8, <2>1, <3>1, PersistShape, Frame
        DEF TypeOK, Persist, hasura, database, bounds
    <2>2. CASE ~MayPersist(w)
      <3>1. h' \in [Workers -> Handler]
        BY <1>8, <2>2, GotoShape, Members DEF Persist, Proceed
      <3> QED
        BY <1>8, <2>2, <3>1, Frame
        DEF TypeOK, Persist, Proceed, Local, hasura, database, bounds
    <2> QED
      BY <2>1, <2>2
  <1>9. ASSUME NEW w \in Workers, NEW o \in Ids, RecoverBegin(w, o) PROVE TypeOK'
    <2>1. h' \in [Workers -> Handler]
      BY <1>9, RecoverCall
    <2>2. ops' \in Seq(OpRow)
      BY <1>9, RecoverRows
    <2>3. reopened' \in 0..MaxReopened
      BY <1>9 DEF RecoverBegin, TypeOK
    <2> QED
      BY <1>9, <2>1, <2>2, <2>3, Frame DEF TypeOK, RecoverBegin,
           withProjectDataAccessMutationLock, At, hasura, database
  <1>10. ASSUME NEW w \in Workers, RecoverInspect(w) PROVE TypeOK'
    <2>1. h' \in [Workers -> Handler]
      BY <1>10, InspectShape
    <2> QED
      BY <1>10, <2>1, Frame DEF TypeOK, RecoverInspect, Exported, Proceed, Goto,
           Local, At, hasura, database, bounds
  <1>11. ASSUME NEW w \in Workers, RecoverDecide(w) PROVE TypeOK'
    <2>1. h[w].op \in Ids
      BY <1>11 DEF StepOf, RecoverDecide, At
    <2>2. CASE Closing(w, "failed", "not_applied")
      <3>1. ops' \in Seq(OpRow)
        BY <2>1, <2>2, ClosingShape, Members
      <3> QED
        BY <2>2, <3>1, Frame DEF TypeOK, Closing, Local, hasura, database, bounds
    <2>3. CASE /\ h' = [h EXCEPT ![w].pc = "persist",
                                 ![w].revs = [t \in Tables |-> base[t].rev]]
               /\ UNCHANGED <<ops, lock, conn, Local>>
      BY <2>3, RevsType, DecideShape, Frame
         DEF TypeOK, Local, hasura, database, bounds
    <2>4. CASE Proceed(w, "send") \/ Proceed(w, "toRecovery")
      <3>1. h' \in [Workers -> Handler]
        BY <2>4, GotoShape, Members DEF Proceed
      <3> QED
        BY <2>4, <3>1, Frame DEF TypeOK, Proceed, Local, hasura, database, bounds
    <2> QED
      BY <1>11, <2>2, <2>3, <2>4 DEF RecoverDecide
  <1>12. ASSUME NEW w \in Workers, VerifyClosed(w) PROVE TypeOK'
    <2>1. h' \in [Workers -> Handler]
      BY <1>12, GotoShape, Members DEF VerifyClosed, Proceed, Local, At, hasura,
           database, bounds
    <2> QED
      BY <1>12, <2>1, Frame DEF TypeOK, Answers, VerifyClosed, Proceed, Goto, Local,
           At, hasura, database, bounds
  <1>13. ASSUME NEW w \in Workers, MarkClosed(w) PROVE TypeOK'
    <2>1. h[w].op \in Ids /\ Closing(w, "failed", "failed_closed")
      BY <1>13 DEF StepOf, MarkClosed, At
    <2>2. ops' \in Seq(OpRow)
      BY <2>1, ClosingShape, Members
    <2> QED
      BY <2>1, <2>2, Frame DEF TypeOK, Closing, Local, hasura, database, bounds
  <1>14. ASSUME NEW w \in Workers, MarkFailed(w) PROVE TypeOK'
    <2>1. h[w].op \in Ids /\ Closing(w, "failed", "rejected")
      BY <1>14 DEF StepOf, MarkFailed, At
    <2>2. ops' \in Seq(OpRow)
      BY <2>1, ClosingShape, Members
    <2> QED
      BY <2>1, <2>2, Frame DEF TypeOK, Closing, Local, hasura, database, bounds
  <1>15. ASSUME NEW w \in Workers, MarkRecoveryRequired(w) PROVE TypeOK'
    <2>1. h[w].op \in Ids /\ Closing(w, "recovery_required", "recovery_required")
      BY <1>15 DEF StepOf, MarkRecoveryRequired, At
    <2>2. ops' \in Seq(OpRow)
      BY <2>1, ClosingShape, Members
    <2> QED
      BY <2>1, <2>2, Frame DEF TypeOK, Closing, Local, hasura, database, bounds
  <1>16. ASSUME NEW w \in Workers, DeadSession(w) PROVE TypeOK'
    BY <1>16, Frame DEF TypeOK, DeadSession, Refuse, Local, hasura, database, bounds
  <1>17. ASSUME NEW r \in wire, HasuraApplies(r) PROVE TypeOK'
    <2>1. r \in Request
      BY DEF TypeOK
    <2>2. resp' \in [Workers -> Answers]
      BY <1>17, <2>1 DEF TypeOK, HasuraApplies, Answer, Request, Answers
    <2> QED
      BY <1>17, <2>1, <2>2 DEF TypeOK, HasuraApplies, Answer, Request, database
  <1>18. ASSUME NEW r \in wire, HasuraRejects(r) PROVE TypeOK'
    <2>1. r \in Request
      BY DEF TypeOK
    <2>2. resp' \in [Workers -> Answers]
      BY <1>18, <2>1 DEF TypeOK, HasuraRejects, Answer, Request, Answers
    <2> QED
      BY <1>18, <2>1, <2>2, Frame
         DEF TypeOK, HasuraRejects, Answer, Request, hasura, database
  <1>19. ASSUME NEW r \in wire, HasuraRefuses(r) PROVE TypeOK'
    <2>1. r \in Request
      BY DEF TypeOK
    <2>2. resp' \in [Workers -> Answers]
      BY <1>19, <2>1 DEF TypeOK, HasuraRefuses, Answer, Request, Answers
    <2> QED
      BY <1>19, <2>1, <2>2, Frame
         DEF TypeOK, HasuraRefuses, Answer, Request, hasura, database
  <1>20. ASSUME NEW w \in Workers, Timeout(w) PROVE TypeOK'
    <2>1. h' \in [Workers -> Handler]
      BY <1>20, GotoShape, Members DEF Timeout, AfterError
    <2>2. wire' \subseteq Request
      BY <1>20, OrphanedType DEF Timeout, TypeOK
    <2> QED
      BY <1>20, <2>1, <2>2, Frame DEF TypeOK, Timeout, Answers, hasura, database
  <1>21. ASSUME NEW w \in Workers, Crash(w) PROVE TypeOK'
    <2>1. wire' \subseteq Request
      BY <1>21, OrphanedType DEF Crash
    <2>2. ops' \in Seq(OpRow)
      BY <1>21, Supersede, Frame DEF Crash
    <2> QED
      BY <1>21, <2>1, <2>2, Frame DEF TypeOK, Crash, Answers, hasura, database
  <1>22. ASSUME NEW w \in Workers, DropSession(w) PROVE TypeOK'
    BY <1>22, Frame DEF TypeOK, DropSession, At, hasura, database
  <1>23. ASSUME NEW w \in Workers, CommitLost(w) PROVE TypeOK'
    <2>1. h[w].op \in Ids
      BY <1>23 DEF StepOf, CommitLost, At
    <2>2. ops' \in Seq(OpRow) /\ base' \in [Tables -> Baseline]
      BY <1>23, <2>1, PersistShape, Frame DEF CommitLost
    <2> QED
      BY <1>23, <2>2, Frame DEF TypeOK, CommitLost, hasura, database
  <1>24. ASSUME NEW w \in Workers, ExportFails(w) PROVE TypeOK'
    <2>1. h' \in [Workers -> Handler]
      BY <1>24, GotoShape, Members DEF ExportFails, Fault, At, hasura, database
    <2> QED
      BY <1>24, <2>1, Frame DEF TypeOK, Answers, ExportFails, Fault, Goto, At,
           hasura, database
  <1>25. ASSUME NEW o \in Ids, LeaseAges(o) PROVE TypeOK'
    <2>1. ops' \in Seq(OpRow)
      BY <1>25, AgeShape
    <2> QED
      BY <1>25, <2>1, Frame DEF TypeOK, LeaseAges, hasura, database
  <1>26. ASSUME OtherMetadataChange PROVE TypeOK'
    <2>1. meta' \in Metadata
      BY <1>26 DEF TypeOK, OtherMetadataChange, Metadata
    <2> QED
      BY <1>26, <2>1, Frame DEF TypeOK, OtherMetadataChange, database
  <1>27. ASSUME NEW t \in Tables, ConsoleEdit(t) PROVE TypeOK'
    <2>1. meta' \in Metadata
      BY <1>27, EditShape DEF ConsoleEdit
    <2> QED
      BY <1>27, <2>1, Frame DEF TypeOK, ConsoleEdit, database
  <1>28. ASSUME NEW t \in Tables, DirectDdl(t) PROVE TypeOK'
    <2>1. view' \in {1, 2} /\ caps' \subseteq Tables
      BY <1>28 DEF TypeOK, DirectDdl
    <2> QED
      BY <1>28, <2>1, Frame DEF TypeOK, DirectDdl, hasura
  <1>29. ASSUME NEW t \in Tables, PolicyChange(t) PROVE TypeOK'
    <2>1. meta' \in Metadata /\ base' \in [Tables -> Baseline]
      BY <1>29, ChangeShape
    <2>2. ops' \in Seq(OpRow)
      BY <1>29, Supersede DEF PolicyChange
    <2> QED
      BY <1>29, <2>1, <2>2, Frame DEF TypeOK, PolicyChange
  <1>30. ASSUME OrdinaryMutation PROVE TypeOK'
    <2>2. ops' \in Seq(OpRow)
      BY <1>30, Supersede DEF OrdinaryMutation
    <2> QED
      BY <1>30, <2>2, Frame DEF TypeOK, OrdinaryMutation, hasura, database
  <1>31. ASSUME setProjectRuntimeContext PROVE TypeOK'
    BY <1>31, Frame DEF TypeOK, setProjectRuntimeContext, hasura
  <1>32. ASSUME disableProjectRuntimeContext PROVE TypeOK'
    BY <1>32, Frame DEF TypeOK, disableProjectRuntimeContext, hasura
  <1>33. ASSUME NEW w \in Workers, ExportRejected(w) PROVE TypeOK'
    <2>1. h' \in [Workers -> Handler]
      BY <1>33, GotoShape, Members DEF ExportRejected, AfterError
    <2>2. h[w].con.tables \subseteq Tables
      BY ProjectionAssumption DEF TypeOK, Handler
    <2>3. astray' \subseteq Tables /\ misjudged' \subseteq Tables
      BY <1>33, <2>2 DEF TypeOK, ExportRejected
    <2> QED
      BY <1>33, <2>1, <2>3, Frame DEF TypeOK, ExportRejected, Fault, hasura, database
  <1>34. CASE UNCHANGED vars
    BY <1>34 DEF TypeOK, vars
  <1> QED
    BY <1>1, <1>2, <1>3, <1>4, <1>5, <1>6, <1>7, <1>8, <1>9, <1>10, <1>11,
         <1>12, <1>13, <1>14, <1>15, <1>16, <1>17, <1>18, <1>19, <1>20, <1>21,
         <1>22, <1>23, <1>24, <1>25, <1>26, <1>27, <1>28, <1>29, <1>30, <1>31,
         <1>32, <1>33, <1>34 DEF Next, HandlerStep, FaultStep, HasuraStep, Environment,
         Time, Recover


-----------------------------------------------------------------------------
(* What each step changes, row by row and handler by handler.              *)

\* The handler works on the same call.
SameCall(x, y) ==
  /\ x.mode = y.mode /\ x.op = y.op /\ x.con = y.con /\ x.meta = y.meta
  /\ x.ver = y.ver
\* The other handlers stay.
Others(w) == \A v \in Workers \ {w} : h'[v] = h[v]

\* The handler goes on with its call.
Moves(w, p) ==
  /\ h'[w].pc = p /\ SameCall(h'[w], h[w]) /\ Others(w)
  /\ UNCHANGED <<lock, conn>>

\* The handler ends.
Leaves(w) ==
  /\ h'[w].pc = "idle" /\ h'[w].mode = "none" /\ h'[w].ver = 0 /\ Others(w)
  /\ lock' = IF lock = w THEN NoWorker ELSE lock
  /\ conn'[w] /\ \A v \in Workers \ {w} : conn'[v] = conn[v]

\* The handler starts under the lock, at p, for row o and contract c.
Starts(w, p, mode, o, c) ==
  /\ h[w].pc = "idle" /\ lock = NoWorker /\ lock' = w /\ UNCHANGED conn
  /\ h'[w].pc = p /\ h'[w].mode = mode /\ h'[w].op = o /\ h'[w].con = c /\ Others(w)

\* One row changes.
Updates(o, status, error, wrote) ==
  /\ Ids' = Ids
  /\ SameRow(ops'[o], ops[o])
  /\ ops'[o].status = status /\ ops'[o].error = error /\ ops'[o].wrote = wrote
  /\ \A p \in Ids \ {o} : ops'[p] = ops[p]

\* A row but for its status.
SameBut(r, q) ==
  SameRow(r, q) /\ r.wrote = q.wrote /\ r.error = q.error /\ r.lease = q.lease

\* The previews are superseded.
Supersedes ==
  /\ Ids' = Ids
  /\ \A p \in Ids :
       /\ SameBut(ops'[p], ops[p])
       /\ ops'[p].status = IF ops[p].status = "preview_ready"
                           THEN "superseded" ELSE ops[p].status

\* The previews are superseded and row n is a new one.
Inserts(w, n) ==
  /\ n \in Nat /\ n \notin Ids /\ Ids' = Ids \cup {n} /\ \A p \in Ids : p < n
  /\ ops'[n].status = "preview_ready" /\ ops'[n].con = h[w].con
  /\ ops'[n].src = h[w].meta /\ ops'[n].ver = h[w].ver
  /\ ops'[n].dep # NoDigest /\ ~ops'[n].wrote
  /\ ops'[n].lease = "none" /\ ops'[n].error = "none"
  /\ \A p \in Ids :
       /\ SameBut(ops'[p], ops[p])
       /\ ops'[p].status = IF ops[p].status = "preview_ready"
                           THEN "superseded" ELSE ops[p].status

\* The batch of the handler is recorded.
Records(w) ==
  /\ Updates(h[w].op, "completed", ops[h[w].op].error, TRUE)
  /\ \A t \in Tables :
       /\ base'[t].perms.grants = base[t].perms.grants
       /\ t \in h[w].con.tables =>
            base'[t].perms.sel = h[w].con.sel /\ base'[t].dep = ops[h[w].op].dep
       /\ t \notin h[w].con.tables => base'[t] = base[t]


\* Outside a recovery, every preview is superseded.
LEMMA SupersedesShape ==
  ASSUME TypeOK, ops' = supersedeProjectionPreviews(0)
  PROVE  Supersedes
  <1>1. 0 \notin Ids
    BY Rows
  <1> QED
    BY <1>1, SupersededShape DEF Supersedes, SameBut

\* What PreviewBegin changes and what it leaves alone.
LEMMA PreviewBeginEffect ==
  ASSUME TypeOK, NEW w \in Workers, NEW c \in Contracts, PreviewBegin(w, c)
  PROVE  /\ Starts(w, "insert", "preview", 0, c)
         /\ h'[w].meta = meta /\ h'[w].ver = version
         /\ ~Blocked(0) /\ EnvironmentReady(c) /\ CoversExistingBaselines(c)
         /\ UNCHANGED <<ops, Ids, base, meta, version, view, caps, context, wire, resp,
                        astray, misjudged, outside>>
  BY PreviewCall DEF Starts, Others, PreviewBegin,
       withProjectDataAccessMutationLock, At, Ids, hasura, database, bounds

\* What ApplyBegin changes and what it leaves alone.
LEMMA ApplyBeginEffect ==
  ASSUME TypeOK, NEW w \in Workers, NEW o \in Ids, ApplyBegin(w, o)
  PROVE  /\ Starts(w, "check", "apply", o, ops[o].con)
         /\ h'[w].meta = meta /\ h'[w].ver = version
         /\ ops[o].status = "preview_ready" /\ ~Blocked(o) /\ EnvironmentReady(ops[o].con)
         /\ UNCHANGED <<ops, Ids, base, meta, version, view, caps, context, wire, resp,
                        astray, misjudged, outside>>
  BY ApplyCall DEF Starts, Others, ApplyBegin,
       withProjectDataAccessMutationLock, At, Ids, hasura, database, bounds

\* What PreviewInsert changes and what it leaves alone.
LEMMA PreviewInsertEffect ==
  ASSUME TypeOK, NEW w \in Workers, PreviewInsert(w)
  PROVE  /\ h[w].pc = "insert" /\ conn[w] /\ Leaves(w)
         /\ \/ UNCHANGED <<ops, Ids>>
            \/ PreviewAdmits(h[w].meta, h[w].con) /\ \E n \in Nat : Inserts(w, n)
         /\ UNCHANGED <<base, meta, version, view, caps, context, wire, resp, astray,
                        misjudged, outside>>
  <1>1. h[w].pc = "insert" /\ conn[w] /\ Exit(w) /\ UNCHANGED Local
    BY DEF PreviewInsert, Refuse, At
  <1>2. Leaves(w)
    BY <1>1, ExitShape, IdleType DEF Leaves, Others
  <1>3. CASE UNCHANGED ops
    BY <1>1, <1>2, <1>3 DEF Ids, Local, hasura, database, bounds
  <1>4. CASE /\ PreviewAdmits(h[w].meta, h[w].con)
             /\ ops' = Append(supersedeProjectionPreviews(0), NewRow(w))
    <2>1. \E n \in Nat : Inserts(w, n)
      BY <1>4, InsertShape DEF Inserts, SameBut
    <2> QED
      BY <1>1, <1>2, <1>4, <2>1 DEF Ids, Local, hasura, database, bounds
  <1> QED
    BY <1>3, <1>4 DEF PreviewInsert, Refuse

\* What ApplyCheck changes and what it leaves alone.
LEMMA ApplyCheckEffect ==
  ASSUME TypeOK, StepOf, NEW w \in Workers, ApplyCheck(w)
  PROVE  /\ h[w].pc = "check" /\ conn[w]
         /\ \/ UNCHANGED <<ops, Ids>> /\ Leaves(w)
            \/ /\ ApplyAdmits(w) /\ Moves(w, "send") /\ ops'[h[w].op].lease = "live"
               /\ Updates(h[w].op, "applying", ops[h[w].op].error, ops[h[w].op].wrote)
         /\ UNCHANGED <<base, meta, version, view, caps, context, wire, resp, astray,
                        misjudged, outside>>
  <1>1. h[w].pc = "check" /\ conn[w] /\ h[w].op \in Ids
    BY DEF ApplyCheck, At, StepOf
  <1>2. CASE ApplyAdmits(w)
    <2>1. /\ Moves(w, "send") /\ ops'[h[w].op].lease = "live"
          /\ Updates(h[w].op, "applying", ops[h[w].op].error, ops[h[w].op].wrote)
          /\ UNCHANGED Local
      BY <1>1, <1>2, CheckShape DEF Moves, SameCall, Others, Updates
    <2> QED
      BY <1>1, <1>2, <2>1 DEF Ids, Local, hasura, database, bounds
  <1>3. CASE ~ApplyAdmits(w)
    <2>1. Exit(w) /\ UNCHANGED <<ops, Local>>
      BY <1>3 DEF ApplyCheck, Refuse
    <2>2. Leaves(w)
      BY <2>1, ExitShape, IdleType DEF Leaves, Others
    <2> QED
      BY <1>1, <2>1, <2>2 DEF Ids, Local, hasura, database, bounds
  <1> QED
    BY <1>2, <1>3

\* What Send changes and what it leaves alone.
LEMMA SendEffect ==
  ASSUME TypeOK, TypeOK', StepOf, NEW w \in Workers, Send(w)
  PROVE  /\ h[w].pc = "send" /\ conn[w]
         /\ \/ Moves(w, "toRecovery") /\ UNCHANGED wire
            \/ /\ HoldsLease(w) /\ Moves(w, "await")
               /\ \E r \in Request : /\ wire' = wire \cup {r} /\ r.w = w /\ r.op = h[w].op
                                     /\ r.ver = h[w].ver
                                     /\ r.meta = IF h[w].mode = "apply"
                                               THEN TargetMetadata(Op(w).src, h[w].con)
                                               ELSE FailClosed(h[w].meta, h[w].con)
         /\ UNCHANGED <<ops, Ids, base, meta, version, view, caps, context, resp,
                        astray, misjudged, outside>>
  <1>1. h[w].pc = "send" /\ conn[w] /\ h[w].op \in Ids
    BY DEF Send, At, StepOf
  <1>2. CASE HoldsLease(w)
    <2> DEFINE r == [w |-> w, op |-> h[w].op, ver |-> h[w].ver,
                     meta |-> IF h[w].mode = "apply" THEN Target(w)
                              ELSE FailClosed(h[w].meta, h[w].con)]
    <2>1. /\ wire' = wire \cup {r} /\ Goto(w, "await")
          /\ UNCHANGED <<ops, base, hasura, database, lock, conn, resp, astray,
                         misjudged, bounds>>
      BY <1>2 DEF Send
    <2>2. Moves(w, "await")
      BY <2>1, GotoShape, Members DEF Moves, SameCall, Others
    <2>3. r \in Request
      <3>1. wire' \subseteq Request
        BY DEF TypeOK
      <3> QED
        BY <2>1, <3>1
    <2>4. /\ r.w = w /\ r.op = h[w].op /\ r.ver = h[w].ver
          /\ r.meta = IF h[w].mode = "apply" THEN TargetMetadata(Op(w).src, h[w].con)
                      ELSE FailClosed(h[w].meta, h[w].con)
      BY DEF Target
    <2> HIDE DEF r
    <2> QED
      BY <1>1, <1>2, <2>1, <2>2, <2>3, <2>4 DEF Ids, hasura, database, bounds
  <1>3. CASE ~HoldsLease(w)
    <2>1. Goto(w, "toRecovery") /\ UNCHANGED <<ops, lock, conn, Local>>
      BY <1>3 DEF Send, Proceed
    <2>2. Moves(w, "toRecovery")
      BY <2>1, GotoShape, Members DEF Moves, SameCall, Others
    <2> QED
      BY <1>1, <2>1, <2>2 DEF Ids, Local, hasura, database, bounds
  <1> QED
    BY <1>2, <1>3

\* What Receive changes and what it leaves alone.
LEMMA ReceiveEffect ==
  ASSUME TypeOK, NEW w \in Workers, Receive(w)
  PROVE  /\ h[w].pc = "await" /\ resp[w] # "none"
         /\ resp'[w] = "none" /\ \A v \in Workers \ {w} : resp'[v] = resp[v]
         /\ \/ resp[w] = "ok" /\ Moves(w, "verify")
            \/ resp[w] # "ok" /\ h[w].mode = "apply" /\ Moves(w, "toFailed")
            \/ resp[w] # "ok" /\ h[w].mode # "apply" /\ Moves(w, "toRecovery")
         /\ UNCHANGED <<ops, Ids, base, meta, version, view, caps, context, wire,
                        astray, misjudged, outside>>
  <1>1. resp \in [Workers -> Answers]
    BY DEF TypeOK
  <1>2. /\ h[w].pc = "await" /\ resp[w] # "none"
        /\ resp' = [resp EXCEPT ![w] = "none"]
        /\ UNCHANGED <<ops, base, hasura, database, lock, conn, wire, astray, misjudged,
                       bounds>>
    BY DEF Receive, At
  <1>3. resp[w] \in {"ok", "rejected"}
    BY <1>1, <1>2 DEF Answers
  <1>4. \/ resp[w] = "ok" /\ Goto(w, "verify")
        \/ resp[w] # "ok" /\ h[w].mode = "apply" /\ Goto(w, "toFailed")
        \/ resp[w] # "ok" /\ h[w].mode # "apply" /\ Goto(w, "toRecovery")
    BY <1>3 DEF Receive, AfterError
  <1>5. \/ resp[w] = "ok" /\ Moves(w, "verify")
        \/ resp[w] # "ok" /\ h[w].mode = "apply" /\ Moves(w, "toFailed")
        \/ resp[w] # "ok" /\ h[w].mode # "apply" /\ Moves(w, "toRecovery")
    BY <1>2, <1>4, GotoShape, Members DEF Moves, SameCall, Others
  <1> QED
    BY <1>1, <1>2, <1>5 DEF Ids, hasura, database, bounds

\* What VerifyTarget changes and what it leaves alone.
LEMMA VerifyTargetEffect ==
  ASSUME TypeOK, NEW w \in Workers, VerifyTarget(w)
  PROVE  /\ h[w].pc = "verify" /\ h[w].mode = "apply" /\ conn[w]
         /\ \/ Moves(w, "toRecovery")
            \/ Moves(w, "persist") /\ MetadataDigest(meta, h[w].con) = MetadataDigest(Target(w), h[w].con)
         /\ UNCHANGED <<ops, Ids, base, meta, version, view, caps, context, wire, resp,
                        astray, misjudged, outside>>
  <1>1. /\ h[w].pc = "verify" /\ h[w].mode = "apply" /\ conn[w]
        /\ UNCHANGED <<ops, lock, conn, Local>>
        /\ \/ Goto(w, "toRecovery")
           \/ Goto(w, "persist") /\ MetadataDigest(meta, h[w].con) = MetadataDigest(Target(w), h[w].con)
    BY DEF VerifyTarget, At, Proceed
  <1>2. \/ Moves(w, "toRecovery")
        \/ Moves(w, "persist") /\ MetadataDigest(meta, h[w].con) = MetadataDigest(Target(w), h[w].con)
    BY <1>1, GotoShape, Members DEF Moves, SameCall, Others
  <1> QED
    BY <1>1, <1>2 DEF Ids, Local, hasura, database, bounds

\* What Persist changes and what it leaves alone.
LEMMA PersistEffect ==
  ASSUME TypeOK, StepOf, NEW w \in Workers, Persist(w)
  PROVE  /\ h[w].pc = "persist" /\ conn[w]
         /\ \/ Moves(w, "toRecovery") /\ UNCHANGED <<ops, Ids, base>>
            \/ Leaves(w) /\ Records(w)
         /\ UNCHANGED <<meta, version, view, caps, context, wire, resp, astray,
                        misjudged, outside>>
  <1>1. h[w].pc = "persist" /\ conn[w] /\ h[w].op \in Ids
    BY DEF Persist, At, StepOf
  <1>2. CASE MayPersist(w)
    <2>1. PersistedRows(w) /\ Exit(w)
          /\ UNCHANGED <<hasura, database, wire, resp, astray, misjudged, bounds>>
      BY <1>2 DEF Persist
    <2>2. Leaves(w)
      BY <2>1, ExitShape, IdleType DEF Leaves, Others
    <2>3. Records(w)
      BY <1>1, <2>1, PersistShape DEF Records, Updates
    <2> QED
      BY <1>1, <2>1, <2>2, <2>3 DEF Ids, hasura, database, bounds
  <1>3. CASE ~MayPersist(w)
    <2>1. Goto(w, "toRecovery") /\ UNCHANGED <<ops, lock, conn, Local>>
      BY <1>3 DEF Persist, Proceed
    <2>2. Moves(w, "toRecovery")
      BY <2>1, GotoShape, Members DEF Moves, SameCall, Others
    <2> QED
      BY <1>1, <2>1, <2>2 DEF Ids, Local, hasura, database, bounds
  <1> QED
    BY <1>2, <1>3

\* What RecoverBegin changes and what it leaves alone.
LEMMA RecoverBeginEffect ==
  ASSUME TypeOK, NEW w \in Workers, NEW o \in Ids, RecoverBegin(w, o)
  PROVE  /\ Starts(w, "inspect", "recover", o, ops[o].con)
         /\ h'[w].ver = 0 /\ ~Blocked(o)
         /\ astray' = astray \ ops[o].con.tables
         /\ \/ ops[o].status \in InFlight /\ ops[o].lease = "drained"
            \/ ops[o].status = "completed" /\ LatestCompleted(o)
         /\ Ids' = Ids /\ SameRow(ops'[o], ops[o])
         /\ ops'[o].status = "recovering" /\ ops'[o].lease = "live"
         /\ ops'[o].wrote = ops[o].wrote /\ ops'[o].error = ops[o].error
         /\ \A p \in Ids \ {o} :
              /\ SameBut(ops'[p], ops[p])
              /\ \/ ops'[p].status = ops[p].status
                 \/ /\ ops[p].status = "preview_ready" /\ ops'[p].status = "superseded"
                    /\ ops[o].status = "completed"
              /\ ops[o].status = "completed" => ops'[p].status # "preview_ready"
         /\ UNCHANGED <<base, meta, version, view, caps, context, wire, resp, misjudged,
                        outside>>
  <1>1. Starts(w, "inspect", "recover", o, ops[o].con) /\ h'[w].ver = 0
    BY RecoverCall
       DEF Starts, Others, RecoverBegin, withProjectDataAccessMutationLock, At
  <1>2. /\ ~Blocked(o) /\ astray' = astray \ ops[o].con.tables
        /\ \/ ops[o].status \in InFlight /\ ops[o].lease = "drained"
           \/ ops[o].status = "completed" /\ LatestCompleted(o)
        /\ UNCHANGED <<base, hasura, database, wire, resp, misjudged, outside>>
    BY DEF RecoverBegin, withProjectDataAccessMutationLock
  <1>3. /\ Ids' = Ids /\ SameRow(ops'[o], ops[o])
        /\ ops'[o].status = "recovering" /\ ops'[o].lease = "live"
        /\ ops'[o].wrote = ops[o].wrote /\ ops'[o].error = ops[o].error
        /\ \A p \in Ids \ {o} :
             /\ SameBut(ops'[p], ops[p])
             /\ \/ ops'[p].status = ops[p].status
                \/ /\ ops[p].status = "preview_ready" /\ ops'[p].status = "superseded"
                   /\ ops[o].status = "completed"
             /\ ops[o].status = "completed" => ops'[p].status # "preview_ready"
    BY RecoverRows DEF SameBut
  <1> QED
    BY <1>1, <1>2, <1>3 DEF Ids, hasura, database

\* What RecoverInspect changes and what it leaves alone.
LEMMA RecoverInspectEffect ==
  ASSUME TypeOK, NEW w \in Workers, RecoverInspect(w)
  PROVE  /\ h[w].pc = "inspect" /\ conn[w] /\ Others(w)
         /\ h'[w].mode = h[w].mode /\ h'[w].op = h[w].op /\ h'[w].con = h[w].con
         /\ \/ Moves(w, "toRecovery")
            \/ h'[w].pc = "decide" /\ h'[w].meta = meta /\ h'[w].ver = version
         /\ UNCHANGED <<ops, Ids, base, meta, version, view, caps, context, lock, conn,
                        wire, resp, astray, misjudged, outside>>
  BY InspectShape DEF Moves, SameCall, Others, RecoverInspect, Proceed, Local,
       At, Ids, hasura, database, bounds

\* What RecoverDecide changes and what it leaves alone.
LEMMA RecoverDecideEffect ==
  ASSUME TypeOK, StepOf, NEW w \in Workers, RecoverDecide(w)
  PROVE  /\ h[w].pc = "decide" /\ conn[w]
         /\ \/ Moves(w, "toRecovery") /\ UNCHANGED <<ops, Ids>>
            \/ Moves(w, "send") /\ ~SourceActive(w) /\ UNCHANGED <<ops, Ids>>
            \/ Moves(w, "persist") /\ TargetActive(w) /\ UNCHANGED <<ops, Ids>>
            \/ /\ Leaves(w) /\ SourceActive(w)
               /\ Updates(h[w].op, "failed", "not_applied", ops[h[w].op].wrote)
         /\ UNCHANGED <<base, meta, version, view, caps, context, wire, resp, astray,
                        misjudged, outside>>
  <1>1. h[w].pc = "decide" /\ conn[w] /\ h[w].op \in Ids
    BY DEF RecoverDecide, At, StepOf
  <1>2. CASE Closing(w, "failed", "not_applied") /\ SourceActive(w)
    <2>1. Exit(w) /\ UNCHANGED Local
      BY <1>2 DEF Closing
    <2>2. Leaves(w)
      BY <2>1, ExitShape, IdleType DEF Leaves, Others
    <2>3. Updates(h[w].op, "failed", "not_applied", ops[h[w].op].wrote)
      BY <1>1, <1>2, ClosingShape, Members DEF Updates
    <2> QED
      BY <1>1, <1>2, <2>1, <2>2, <2>3 DEF Ids, Local, hasura, database, bounds
  <1>3. CASE /\ h' = [h EXCEPT ![w].pc = "persist",
                               ![w].revs = [t \in Tables |-> base[t].rev]]
             /\ UNCHANGED <<ops, lock, conn, Local>> /\ TargetActive(w)
    <2>1. Moves(w, "persist")
      BY <1>3, RevsType, DecideShape DEF Moves, SameCall, Others
    <2> QED
      BY <1>1, <1>3, <2>1 DEF Ids, Local, hasura, database, bounds
  <1>4. CASE Proceed(w, "send") /\ ~SourceActive(w)
    <2>1. Moves(w, "send")
      BY <1>4, GotoShape, Members DEF Proceed, Moves, SameCall, Others
    <2> QED
      BY <1>1, <1>4, <2>1 DEF Ids, Proceed, Local, hasura, database, bounds
  <1>5. CASE Proceed(w, "toRecovery")
    <2>1. Moves(w, "toRecovery")
      BY <1>5, GotoShape, Members DEF Proceed, Moves, SameCall, Others
    <2> QED
      BY <1>1, <1>5, <2>1 DEF Ids, Proceed, Local, hasura, database, bounds
  <1> QED
    BY <1>2, <1>3, <1>4, <1>5 DEF RecoverDecide

\* What VerifyClosed changes and what it leaves alone.
LEMMA VerifyClosedEffect ==
  ASSUME TypeOK, NEW w \in Workers, VerifyClosed(w)
  PROVE  /\ h[w].pc = "verify" /\ h[w].mode = "recover"
         /\ \/ Moves(w, "toRecovery")
            \/ Moves(w, "closed") /\ MetadataDigest(meta, h[w].con)
                   = MetadataDigest(FailClosed(h[w].meta, h[w].con), h[w].con)
         /\ UNCHANGED <<ops, Ids, base, meta, version, view, caps, context, wire, resp,
                        astray, misjudged, outside>>
  <1>1. /\ h[w].pc = "verify" /\ h[w].mode = "recover"
        /\ UNCHANGED <<ops, lock, conn, Local>>
        /\ \/ Goto(w, "toRecovery")
           \/ Goto(w, "closed") /\ MetadataDigest(meta, h[w].con)
                     = MetadataDigest(FailClosed(h[w].meta, h[w].con), h[w].con)
    BY DEF VerifyClosed, At, Proceed
  <1>2. \/ Moves(w, "toRecovery")
        \/ Moves(w, "closed") /\ MetadataDigest(meta, h[w].con)
                     = MetadataDigest(FailClosed(h[w].meta, h[w].con), h[w].con)
    BY <1>1, GotoShape, Members DEF Moves, SameCall, Others
  <1> QED
    BY <1>1, <1>2 DEF Ids, Local, hasura, database, bounds

\* What MarkClosed changes and what it leaves alone.
LEMMA MarkClosedEffect ==
  ASSUME TypeOK, StepOf, NEW w \in Workers, MarkClosed(w)
  PROVE  /\ h[w].pc = "closed" /\ conn[w] /\ Leaves(w)
         /\ Updates(h[w].op, "failed", "failed_closed", ops[h[w].op].wrote)
         /\ UNCHANGED <<base, meta, version, view, caps, context, wire, resp, astray,
                        misjudged, outside>>
  <1>1. h[w].pc = "closed" /\ conn[w] /\ h[w].op \in Ids
    BY DEF MarkClosed, At, StepOf
  <1>2. Closing(w, "failed", "failed_closed")
    BY DEF MarkClosed
  <1>3. Leaves(w)
    BY <1>2, ExitShape, IdleType DEF Closing, Leaves, Others
  <1>4. /\ Updates(h[w].op, "failed", "failed_closed", ops[h[w].op].wrote)
        /\ ops'[h[w].op].lease = "none"
    BY <1>1, <1>2, ClosingShape, Members DEF Updates
  <1> QED
    BY <1>1, <1>2, <1>3, <1>4 DEF Closing, Local, hasura, database, bounds

\* What MarkFailed changes and what it leaves alone.
LEMMA MarkFailedEffect ==
  ASSUME TypeOK, StepOf, NEW w \in Workers, MarkFailed(w)
  PROVE  /\ h[w].pc = "toFailed" /\ conn[w] /\ Leaves(w)
         /\ Updates(h[w].op, "failed", "rejected", ops[h[w].op].wrote)
         /\ UNCHANGED <<base, meta, version, view, caps, context, wire, resp, astray,
                        misjudged, outside>>
  <1>1. h[w].pc = "toFailed" /\ conn[w] /\ h[w].op \in Ids
    BY DEF MarkFailed, At, StepOf
  <1>2. Closing(w, "failed", "rejected")
    BY DEF MarkFailed
  <1>3. Leaves(w)
    BY <1>2, ExitShape, IdleType DEF Closing, Leaves, Others
  <1>4. /\ Updates(h[w].op, "failed", "rejected", ops[h[w].op].wrote)
        /\ ops'[h[w].op].lease = "none"
    BY <1>1, <1>2, ClosingShape, Members DEF Updates
  <1> QED
    BY <1>1, <1>2, <1>3, <1>4 DEF Closing, Local, hasura, database, bounds

\* What MarkRecoveryRequired changes and what it leaves alone.
LEMMA MarkRecoveryRequiredEffect ==
  ASSUME TypeOK, StepOf, NEW w \in Workers, MarkRecoveryRequired(w)
  PROVE  /\ h[w].pc = "toRecovery" /\ conn[w] /\ Leaves(w)
         /\ Updates(h[w].op, "recovery_required", "recovery_required", ops[h[w].op].wrote)
         /\ ops'[h[w].op].lease = ops[h[w].op].lease
         /\ UNCHANGED <<base, meta, version, view, caps, context, wire, resp, astray,
                        misjudged, outside>>
  <1>1. h[w].pc = "toRecovery" /\ conn[w] /\ h[w].op \in Ids
    BY DEF MarkRecoveryRequired, At, StepOf
  <1>2. Closing(w, "recovery_required", "recovery_required")
    BY DEF MarkRecoveryRequired
  <1>3. Leaves(w)
    BY <1>2, ExitShape, IdleType DEF Closing, Leaves, Others
  <1>4. /\ Updates(h[w].op, "recovery_required", "recovery_required", ops[h[w].op].wrote)
        /\ ops'[h[w].op].lease = ops[h[w].op].lease
    BY <1>1, <1>2, ClosingShape, Members DEF Updates
  <1> QED
    BY <1>1, <1>2, <1>3, <1>4 DEF Closing, Local, hasura, database, bounds

\* What DeadSession changes and what it leaves alone.
LEMMA DeadSessionEffect ==
  ASSUME TypeOK, NEW w \in Workers, DeadSession(w)
  PROVE  /\ ~conn[w] /\ Leaves(w) /\ h[w].pc # "await"
         /\ UNCHANGED <<ops, Ids, base, meta, version, view, caps, context, wire, resp,
                        astray, misjudged, outside>>
  <1>1. ~conn[w] /\ Exit(w) /\ h[w].pc # "await" /\ UNCHANGED <<ops, Local>>
    BY DEF DeadSession, Refuse
  <1>2. Leaves(w)
    BY <1>1, ExitShape, IdleType DEF Leaves, Others
  <1> QED
    BY <1>1, <1>2 DEF Ids, Local, hasura, database, bounds

\* What HasuraApplies changes and what it leaves alone.
LEMMA HasuraAppliesEffect ==
  ASSUME TypeOK, NEW r \in wire, HasuraApplies(r)
  PROVE  /\ r.ver = version
         /\ wire' = wire \ {r}
         /\ \A w \in Workers : resp'[w] = IF r.w = w THEN "ok" ELSE resp[w]
         /\ meta' = r.meta /\ version' = version + 1
         /\ misjudged' = {t \in misjudged : r.meta.perms[t].sel = meta.perms[t].sel}
         /\ UNCHANGED <<ops, Ids, base, view, caps, context, lock, h, conn,
                        astray, outside>>
  <1>1. resp \in [Workers -> Answers] /\ r \in Request
    BY DEF TypeOK
  <1>2. \A w \in Workers : resp'[w] = IF r.w = w THEN "ok" ELSE resp[w]
    BY <1>1, ProjectionAssumption DEF HasuraApplies, Answer, Request
  <1> QED
    BY <1>2 DEF HasuraApplies, Answer, Ids, hasura, database

\* What HasuraRejects changes and what it leaves alone.
LEMMA HasuraRejectsEffect ==
  ASSUME TypeOK, NEW r \in wire, HasuraRejects(r)
  PROVE  /\ r.ver # version
         /\ wire' = wire \ {r}
         /\ \A w \in Workers : resp'[w] = IF r.w = w THEN "rejected" ELSE resp[w]
         /\ UNCHANGED <<ops, Ids, base, meta, version, view, caps, context, lock, h,
                        conn, astray, misjudged, outside>>
  <1>1. resp \in [Workers -> Answers] /\ r \in Request
    BY DEF TypeOK
  <1>2. \A w \in Workers : resp'[w] = IF r.w = w THEN "rejected" ELSE resp[w]
    BY <1>1, ProjectionAssumption DEF HasuraRejects, Answer, Request
  <1> QED
    BY <1>2 DEF HasuraRejects, Answer, Ids, hasura, database

\* What HasuraRefuses changes and what it leaves alone.
LEMMA HasuraRefusesEffect ==
  ASSUME TypeOK, NEW r \in wire, HasuraRefuses(r)
  PROVE  /\ r.ver = version
         /\ wire' = wire \ {r}
         /\ \A w \in Workers : resp'[w] = IF r.w = w THEN "rejected" ELSE resp[w]
         /\ UNCHANGED <<ops, Ids, base, meta, version, view, caps, context, lock, h,
                        conn, astray, misjudged, outside>>
  <1>1. resp \in [Workers -> Answers] /\ r \in Request
    BY DEF TypeOK
  <1>2. \A w \in Workers : resp'[w] = IF r.w = w THEN "rejected" ELSE resp[w]
    BY <1>1, ProjectionAssumption DEF HasuraRefuses, Answer, Request
  <1> QED
    BY <1>2 DEF HasuraRefuses, Answer, Ids, hasura, database

\* What Timeout changes and what it leaves alone.
LEMMA TimeoutEffect ==
  ASSUME TypeOK, NEW w \in Workers, Timeout(w)
  PROVE  /\ h[w].pc = "await" /\ Moves(w, "toRecovery")
         /\ \A q \in wire' : \E r \in wire :
              /\ q.op = r.op /\ q.ver = r.ver /\ q.meta = r.meta
              /\ q.w = IF r.w = w THEN NoWorker ELSE r.w
         /\ resp'[w] = "none" /\ \A v \in Workers \ {w} : resp'[v] = resp[v]
         /\ UNCHANGED <<ops, Ids, base, meta, version, view, caps, context, astray,
                        misjudged, outside>>
  <1>1. /\ h[w].pc = "await" /\ Goto(w, "toRecovery")
        /\ resp' = [resp EXCEPT ![w] = "none"]
        /\ wire' \in {Orphaned(w), {r \in wire : r.w # w}}
        /\ UNCHANGED <<ops, base, hasura, database, lock, conn, astray, misjudged,
                       reopened, outside>>
    BY DEF Timeout, At, AfterError
  <1>2. Moves(w, "toRecovery")
    BY <1>1, GotoShape, Members DEF Moves, SameCall, Others
  <1>3. \A q \in wire' : \E r \in wire :
          /\ q.op = r.op /\ q.ver = r.ver /\ q.meta = r.meta
          /\ q.w = IF r.w = w THEN NoWorker ELSE r.w
    BY <1>1, OrphanedType
  <1>4. resp \in [Workers -> Answers]
    BY DEF TypeOK
  <1> QED
    BY <1>1, <1>2, <1>3, <1>4 DEF Ids, hasura, database

\* What Crash changes and what it leaves alone.
LEMMA CrashEffect ==
  ASSUME TypeOK, NEW w \in Workers, Crash(w)
  PROVE  /\ h[w].pc # "idle" /\ Leaves(w)
         /\ \A q \in wire' : \E r \in wire :
              /\ q.op = r.op /\ q.ver = r.ver /\ q.meta = r.meta
              /\ q.w = IF r.w = w THEN NoWorker ELSE r.w
         /\ resp'[w] = "none" /\ \A v \in Workers \ {w} : resp'[v] = resp[v]
         /\ \/ UNCHANGED <<ops, Ids>>
            \/ Supersedes /\ h[w].pc = "insert" /\ conn[w]
         /\ UNCHANGED <<base, meta, version, view, caps, context, astray, misjudged,
                        outside>>
  <1>1. /\ h[w].pc # "idle" /\ Exit(w)
        /\ resp' = [resp EXCEPT ![w] = "none"] /\ wire' = Orphaned(w)
        /\ \/ ops' = ops
           \/ ops' = supersedeProjectionPreviews(0) /\ h[w].pc = "insert" /\ conn[w]
        /\ UNCHANGED <<base, hasura, database, astray, misjudged, reopened, outside>>
    BY DEF Crash, At
  <1>2. Leaves(w)
    BY <1>1, ExitShape, IdleType DEF Leaves, Others
  <1>3. \A q \in wire' : \E r \in wire :
          /\ q.op = r.op /\ q.ver = r.ver /\ q.meta = r.meta
          /\ q.w = IF r.w = w THEN NoWorker ELSE r.w
    BY <1>1, OrphanedType
  <1>4. resp \in [Workers -> Answers]
    BY DEF TypeOK
  <1>5. ASSUME ops' = supersedeProjectionPreviews(0) PROVE Supersedes
    BY <1>5, SupersedesShape
  <1> QED
    BY <1>1, <1>2, <1>3, <1>4, <1>5 DEF Ids, hasura, database

\* What DropSession changes and what it leaves alone.
LEMMA DropSessionEffect ==
  ASSUME TypeOK, NEW w \in Workers, DropSession(w)
  PROVE  /\ h[w].pc # "idle" /\ conn[w] /\ ~conn'[w] /\ \A v \in Workers \ {w} : conn'[v] = conn[v]
         /\ lock' = IF lock = w THEN NoWorker ELSE lock
         /\ UNCHANGED <<ops, Ids, base, meta, version, view, caps, context, h, wire,
                        resp, astray, misjudged, outside>>
  BY DEF TypeOK, DropSession, At, hasura, database, Ids

\* What CommitLost changes and what it leaves alone.
LEMMA CommitLostEffect ==
  ASSUME TypeOK, StepOf, NEW w \in Workers, CommitLost(w)
  PROVE  /\ h[w].pc = "persist" /\ conn[w] /\ Leaves(w)
         /\ Records(w) \/ UNCHANGED <<ops, Ids, base>>
         /\ UNCHANGED <<meta, version, view, caps, context, wire, resp, astray,
                        misjudged, outside>>
  <1>1. /\ h[w].pc = "persist" /\ conn[w] /\ h[w].op \in Ids /\ Exit(w)
        /\ PersistedRows(w) \/ UNCHANGED <<ops, base>>
        /\ UNCHANGED <<hasura, database, wire, resp, astray, misjudged, reopened,
                       outside>>
    BY DEF CommitLost, At, StepOf
  <1>2. Leaves(w)
    BY <1>1, ExitShape, IdleType DEF Leaves, Others
  <1>3. Records(w) \/ UNCHANGED <<ops, base>>
    BY <1>1, PersistShape DEF Records, Updates
  <1> QED
    BY <1>1, <1>2, <1>3 DEF Ids, hasura, database

\* What ExportFails changes and what it leaves alone.
LEMMA ExportFailsEffect ==
  ASSUME TypeOK, NEW w \in Workers, ExportFails(w)
  PROVE  /\ h[w].pc \in {"inspect", "verify"} /\ Moves(w, "toRecovery")
         /\ UNCHANGED <<ops, Ids, base, meta, version, view, caps, context, wire, resp,
                        astray, misjudged, outside>>
  <1>1. /\ h[w].pc \in {"inspect", "verify"} /\ Goto(w, "toRecovery")
        /\ UNCHANGED <<ops, base, hasura, database, lock, conn, wire, resp, astray,
                       misjudged, outside>>
    BY DEF ExportFails, At
  <1>2. Moves(w, "toRecovery")
    BY <1>1, GotoShape, Members DEF Moves, SameCall, Others
  <1> QED
    BY <1>1, <1>2 DEF Ids, hasura, database

\* What ExportRejected changes and what it leaves alone.
LEMMA ExportRejectedEffect ==
  ASSUME TypeOK, NEW w \in Workers, ExportRejected(w)
  PROVE  /\ h[w].pc = "verify" /\ h[w].mode = "apply" /\ conn[w]
         /\ Moves(w, "toFailed")
         /\ astray' = astray \cup h[w].con.tables
         /\ misjudged' = misjudged \cup h[w].con.tables
         /\ UNCHANGED <<ops, Ids, base, meta, version, view, caps, context, wire,
                        resp, outside>>
  <1>1. /\ h[w].pc = "verify" /\ h[w].mode = "apply" /\ conn[w]
        /\ Goto(w, "toFailed")
        /\ astray' = astray \cup h[w].con.tables
        /\ misjudged' = misjudged \cup h[w].con.tables
        /\ UNCHANGED <<ops, base, hasura, database, lock, conn, wire, resp, outside>>
    BY DEF ExportRejected, At, AfterError
  <1>2. Moves(w, "toFailed")
    BY <1>1, GotoShape, Members DEF Moves, SameCall, Others
  <1> QED
    BY <1>1, <1>2 DEF Ids, hasura, database

\* What LeaseAges changes and what it leaves alone.
LEMMA LeaseAgesEffect ==
  ASSUME TypeOK, NEW o \in Ids, LeaseAges(o)
  PROVE  /\ Updates(o, ops[o].status, ops[o].error, ops[o].wrote)
         /\ ops[o].status \in InFlight
         /\ \/ ops[o].lease = "live" /\ ops'[o].lease = "expired"
            \/ ops[o].lease = "expired" /\ ops'[o].lease = "drained" /\ ~Writing(o)
         /\ UNCHANGED <<base, meta, version, view, caps, context, lock, h, conn, wire,
                        resp, astray, misjudged, outside>>
  BY AgeShape DEF Updates, LeaseAges, hasura, database, Ids

\* What OtherMetadataChange changes and what it leaves alone.
LEMMA OtherMetadataChangeEffect ==
  ASSUME TypeOK, OtherMetadataChange
  PROVE  /\ meta'.perms = meta.perms /\ meta'.foreign = meta.foreign + 1
         /\ version' = version + 1
         /\ outside' = outside + 1
         /\ UNCHANGED <<ops, Ids, base, view, caps, context, lock, h, conn, wire, resp,
                        astray, misjudged>>
  BY DEF TypeOK, Metadata, OtherMetadataChange, Outside, database, Ids

\* What ConsoleEdit changes and what it leaves alone.
LEMMA ConsoleEditEffect ==
  ASSUME TypeOK, NEW t \in Tables, ConsoleEdit(t)
  PROVE  /\ astray' = astray \cup {t} /\ misjudged' = misjudged \ {t}
         /\ version' = version + 1
         /\ outside' = outside + 1
         /\ meta'.foreign = meta.foreign
         /\ meta'.perms[t].sel = "owner" /\ meta'.perms[t].grants = meta.perms[t].grants
         /\ \A u \in Tables \ {t} : meta'.perms[u] = meta.perms[u]
         /\ UNCHANGED <<ops, Ids, base, view, caps, context, lock, h, conn, wire, resp>>
  BY EditShape DEF ConsoleEdit, Outside, database, Ids

\* What DirectDdl changes and what it leaves alone.
LEMMA DirectDdlEffect ==
  ASSUME TypeOK, NEW t \in Tables, DirectDdl(t)
  PROVE  /\ outside' = outside + 1
         /\ UNCHANGED <<ops, Ids, base, meta, version, context, lock, h, conn, wire,
                        resp, astray, misjudged>>
  BY DEF DirectDdl, Outside, hasura, Ids

\* What PolicyChange changes and what it leaves alone.
LEMMA PolicyChangeEffect ==
  ASSUME TypeOK, Baselines, NEW t \in Tables, PolicyChange(t)
  PROVE  /\ lock = NoWorker /\ ~Blocked(0) /\ Supersedes
         /\ version' = version + 1
         /\ outside' = outside + 1
         /\ meta'.foreign = meta.foreign
         /\ base'[t].perms.grants = base[t].perms.grants + 1
         /\ meta'.perms[t].grants = base[t].perms.grants + 1
         /\ base'[t].perms.sel = base[t].perms.sel /\ base'[t].dep = base[t].dep
         /\ meta'.perms[t].sel = meta.perms[t].sel /\ meta.perms[t].sel = base[t].perms.sel
         /\ \A u \in Tables \ {t} : meta'.perms[u] = meta.perms[u] /\ base'[u] = base[u]
         /\ UNCHANGED <<view, context, lock, h, conn, wire, resp, astray, misjudged>>
  BY ChangeShape, SupersedesShape DEF PolicyChange, Outside

\* What OrdinaryMutation changes and what it leaves alone.
LEMMA OrdinaryMutationEffect ==
  ASSUME TypeOK, OrdinaryMutation
  PROVE  /\ lock = NoWorker /\ ~Blocked(0) /\ Supersedes
         /\ outside' = outside + 1
         /\ UNCHANGED <<base, meta, version, view, caps, context, lock, h, conn, wire,
                        resp, astray, misjudged>>
  BY SupersedesShape DEF OrdinaryMutation, Outside, hasura, database, Ids

\* What setProjectRuntimeContext changes and what it leaves alone.
LEMMA SetProjectRuntimeContextEffect ==
  ASSUME TypeOK, setProjectRuntimeContext
  PROVE  /\ context'
         /\ outside' = outside + 1
         /\ UNCHANGED <<ops, Ids, base, meta, version, view, caps, lock, h, conn, wire,
                        resp, astray, misjudged>>
  BY DEF setProjectRuntimeContext, Outside, hasura, Ids

\* What disableProjectRuntimeContext changes and what it leaves alone.
LEMMA DisableProjectRuntimeContextEffect ==
  ASSUME TypeOK, disableProjectRuntimeContext
  PROVE  /\ lock = NoWorker /\ ~ContextRequired
         /\ outside' = outside + 1
         /\ UNCHANGED <<ops, Ids, base, meta, version, view, caps, lock, h, conn, wire,
                        resp, astray, misjudged>>
  BY DEF disableProjectRuntimeContext, Outside, hasura, Ids

\* The lock stays with the live handler.
LEMMA LockStep ==
  ASSUME TypeOK, TypeOK', StepOf, Baselines, LockOfLive, [Next]_vars
  PROVE  LockOfLive'
  <1> USE ProjectionAssumption, Rows DEF LockOfLive, Live, SameCall, Others,
       Moves, Leaves, Starts
  <1>1. ASSUME NEW w \in Workers, NEW c \in Contracts, PreviewBegin(w, c)
        PROVE  LockOfLive'
    BY <1>1, PreviewBeginEffect
  <1>2. ASSUME NEW w \in Workers, NEW o \in Ids, ApplyBegin(w, o) PROVE LockOfLive'
    BY <1>2, ApplyBeginEffect
  <1>3. ASSUME NEW w \in Workers, PreviewInsert(w) PROVE LockOfLive'
    BY <1>3, PreviewInsertEffect
  <1>4. ASSUME NEW w \in Workers, ApplyCheck(w) PROVE LockOfLive'
    BY <1>4, ApplyCheckEffect
  <1>5. ASSUME NEW w \in Workers, Send(w) PROVE LockOfLive'
    BY <1>5, SendEffect
  <1>6. ASSUME NEW w \in Workers, Receive(w) PROVE LockOfLive'
    BY <1>6, ReceiveEffect
  <1>7. ASSUME NEW w \in Workers, VerifyTarget(w) PROVE LockOfLive'
    BY <1>7, VerifyTargetEffect
  <1>8. ASSUME NEW w \in Workers, Persist(w) PROVE LockOfLive'
    BY <1>8, PersistEffect
  <1>9. ASSUME NEW w \in Workers, NEW o \in Ids, RecoverBegin(w, o)
        PROVE  LockOfLive'
    BY <1>9, RecoverBeginEffect
  <1>10. ASSUME NEW w \in Workers, RecoverInspect(w) PROVE LockOfLive'
    BY <1>10, RecoverInspectEffect
  <1>11. ASSUME NEW w \in Workers, RecoverDecide(w) PROVE LockOfLive'
    BY <1>11, RecoverDecideEffect
  <1>12. ASSUME NEW w \in Workers, VerifyClosed(w) PROVE LockOfLive'
    BY <1>12, VerifyClosedEffect
  <1>13. ASSUME NEW w \in Workers, MarkClosed(w) PROVE LockOfLive'
    BY <1>13, MarkClosedEffect
  <1>14. ASSUME NEW w \in Workers, MarkFailed(w) PROVE LockOfLive'
    BY <1>14, MarkFailedEffect
  <1>15. ASSUME NEW w \in Workers, MarkRecoveryRequired(w) PROVE LockOfLive'
    BY <1>15, MarkRecoveryRequiredEffect
  <1>16. ASSUME NEW w \in Workers, DeadSession(w) PROVE LockOfLive'
    BY <1>16, DeadSessionEffect
  <1>17. ASSUME NEW r \in wire, HasuraApplies(r) PROVE LockOfLive'
    BY <1>17, HasuraAppliesEffect
  <1>18. ASSUME NEW r \in wire, HasuraRejects(r) PROVE LockOfLive'
    BY <1>18, HasuraRejectsEffect
  <1>19. ASSUME NEW r \in wire, HasuraRefuses(r) PROVE LockOfLive'
    BY <1>19, HasuraRefusesEffect
  <1>20. ASSUME NEW w \in Workers, Timeout(w) PROVE LockOfLive'
    BY <1>20, TimeoutEffect
  <1>21. ASSUME NEW w \in Workers, Crash(w) PROVE LockOfLive'
    BY <1>21, CrashEffect
  <1>22. ASSUME NEW w \in Workers, DropSession(w) PROVE LockOfLive'
    BY <1>22, DropSessionEffect
  <1>23. ASSUME NEW w \in Workers, CommitLost(w) PROVE LockOfLive'
    BY <1>23, CommitLostEffect
  <1>24. ASSUME NEW w \in Workers, ExportFails(w) PROVE LockOfLive'
    BY <1>24, ExportFailsEffect
  <1>25. ASSUME NEW o \in Ids, LeaseAges(o) PROVE LockOfLive'
    BY <1>25, LeaseAgesEffect
  <1>26. ASSUME OtherMetadataChange PROVE LockOfLive'
    BY <1>26, OtherMetadataChangeEffect
  <1>27. ASSUME NEW t \in Tables, ConsoleEdit(t) PROVE LockOfLive'
    BY <1>27, ConsoleEditEffect
  <1>28. ASSUME NEW t \in Tables, DirectDdl(t) PROVE LockOfLive'
    BY <1>28, DirectDdlEffect
  <1>29. ASSUME NEW t \in Tables, PolicyChange(t) PROVE LockOfLive'
    BY <1>29, PolicyChangeEffect
  <1>30. ASSUME OrdinaryMutation PROVE LockOfLive'
    BY <1>30, OrdinaryMutationEffect
  <1>31. ASSUME setProjectRuntimeContext PROVE LockOfLive'
    BY <1>31, SetProjectRuntimeContextEffect
  <1>32. ASSUME disableProjectRuntimeContext PROVE LockOfLive'
    BY <1>32, DisableProjectRuntimeContextEffect
  <1>33. ASSUME NEW w \in Workers, ExportRejected(w) PROVE LockOfLive'
    BY <1>33, ExportRejectedEffect
  <1>34. CASE UNCHANGED vars
    BY <1>34 DEF vars
  <1> QED
    BY <1>1, <1>2, <1>3, <1>4, <1>5, <1>6, <1>7, <1>8, <1>9, <1>10, <1>11,
         <1>12, <1>13, <1>14, <1>15, <1>16, <1>17, <1>18, <1>19, <1>20, <1>21,
         <1>22, <1>23, <1>24, <1>25, <1>26, <1>27, <1>28, <1>29, <1>30, <1>31,
         <1>32, <1>33, <1>34 DEF Next, HandlerStep, FaultStep, HasuraStep, Environment,
         Time, Recover

\* A row keeps its contract, its source and what it depends on, and a row that
\* wrote stays one.
LEMMA RowsStay ==
  ASSUME TypeOK, TypeOK', StepOf, Baselines, [Next]_vars
  PROVE  \A q \in Ids : /\ q \in Ids' /\ SameRow(ops'[q], ops[q])
                        /\ (ops[q].wrote => ops'[q].wrote)
  <1> USE ProjectionAssumption, Rows DEF Ids, SameRow, Updates, SameBut,
       Supersedes, Inserts, Records
  <1>1. ASSUME NEW w \in Workers, NEW c \in Contracts, PreviewBegin(w, c)
        PROVE  \A q \in Ids : /\ q \in Ids' /\ SameRow(ops'[q], ops[q])
                              /\ (ops[q].wrote => ops'[q].wrote)
    BY <1>1, PreviewBeginEffect
  <1>2. ASSUME NEW w \in Workers, NEW o \in Ids, ApplyBegin(w, o)
        PROVE  \A q \in Ids : /\ q \in Ids' /\ SameRow(ops'[q], ops[q])
                              /\ (ops[q].wrote => ops'[q].wrote)
    BY <1>2, ApplyBeginEffect
  <1>3. ASSUME NEW w \in Workers, PreviewInsert(w)
        PROVE  \A q \in Ids : /\ q \in Ids' /\ SameRow(ops'[q], ops[q])
                              /\ (ops[q].wrote => ops'[q].wrote)
    BY <1>3, PreviewInsertEffect, ZenonT(30)
  <1>4. ASSUME NEW w \in Workers, ApplyCheck(w)
        PROVE  \A q \in Ids : /\ q \in Ids' /\ SameRow(ops'[q], ops[q])
                              /\ (ops[q].wrote => ops'[q].wrote)
    BY <1>4, ApplyCheckEffect
  <1>5. ASSUME NEW w \in Workers, Send(w)
        PROVE  \A q \in Ids : /\ q \in Ids' /\ SameRow(ops'[q], ops[q])
                              /\ (ops[q].wrote => ops'[q].wrote)
    BY <1>5, SendEffect
  <1>6. ASSUME NEW w \in Workers, Receive(w)
        PROVE  \A q \in Ids : /\ q \in Ids' /\ SameRow(ops'[q], ops[q])
                              /\ (ops[q].wrote => ops'[q].wrote)
    BY <1>6, ReceiveEffect
  <1>7. ASSUME NEW w \in Workers, VerifyTarget(w)
        PROVE  \A q \in Ids : /\ q \in Ids' /\ SameRow(ops'[q], ops[q])
                              /\ (ops[q].wrote => ops'[q].wrote)
    BY <1>7, VerifyTargetEffect
  <1>8. ASSUME NEW w \in Workers, Persist(w)
        PROVE  \A q \in Ids : /\ q \in Ids' /\ SameRow(ops'[q], ops[q])
                              /\ (ops[q].wrote => ops'[q].wrote)
    BY <1>8, PersistEffect
  <1>9. ASSUME NEW w \in Workers, NEW o \in Ids, RecoverBegin(w, o)
        PROVE  \A q \in Ids : /\ q \in Ids' /\ SameRow(ops'[q], ops[q])
                              /\ (ops[q].wrote => ops'[q].wrote)
    BY <1>9, RecoverBeginEffect
  <1>10. ASSUME NEW w \in Workers, RecoverInspect(w)
        PROVE  \A q \in Ids : /\ q \in Ids' /\ SameRow(ops'[q], ops[q])
                              /\ (ops[q].wrote => ops'[q].wrote)
    BY <1>10, RecoverInspectEffect
  <1>11. ASSUME NEW w \in Workers, RecoverDecide(w)
        PROVE  \A q \in Ids : /\ q \in Ids' /\ SameRow(ops'[q], ops[q])
                              /\ (ops[q].wrote => ops'[q].wrote)
    BY <1>11, RecoverDecideEffect
  <1>12. ASSUME NEW w \in Workers, VerifyClosed(w)
        PROVE  \A q \in Ids : /\ q \in Ids' /\ SameRow(ops'[q], ops[q])
                              /\ (ops[q].wrote => ops'[q].wrote)
    BY <1>12, VerifyClosedEffect
  <1>13. ASSUME NEW w \in Workers, MarkClosed(w)
        PROVE  \A q \in Ids : /\ q \in Ids' /\ SameRow(ops'[q], ops[q])
                              /\ (ops[q].wrote => ops'[q].wrote)
    BY <1>13, MarkClosedEffect
  <1>14. ASSUME NEW w \in Workers, MarkFailed(w)
        PROVE  \A q \in Ids : /\ q \in Ids' /\ SameRow(ops'[q], ops[q])
                              /\ (ops[q].wrote => ops'[q].wrote)
    BY <1>14, MarkFailedEffect
  <1>15. ASSUME NEW w \in Workers, MarkRecoveryRequired(w)
        PROVE  \A q \in Ids : /\ q \in Ids' /\ SameRow(ops'[q], ops[q])
                              /\ (ops[q].wrote => ops'[q].wrote)
    BY <1>15, MarkRecoveryRequiredEffect
  <1>16. ASSUME NEW w \in Workers, DeadSession(w)
        PROVE  \A q \in Ids : /\ q \in Ids' /\ SameRow(ops'[q], ops[q])
                              /\ (ops[q].wrote => ops'[q].wrote)
    BY <1>16, DeadSessionEffect
  <1>17. ASSUME NEW r \in wire, HasuraApplies(r)
        PROVE  \A q \in Ids : /\ q \in Ids' /\ SameRow(ops'[q], ops[q])
                              /\ (ops[q].wrote => ops'[q].wrote)
    BY <1>17, HasuraAppliesEffect
  <1>18. ASSUME NEW r \in wire, HasuraRejects(r)
        PROVE  \A q \in Ids : /\ q \in Ids' /\ SameRow(ops'[q], ops[q])
                              /\ (ops[q].wrote => ops'[q].wrote)
    BY <1>18, HasuraRejectsEffect
  <1>19. ASSUME NEW r \in wire, HasuraRefuses(r)
        PROVE  \A q \in Ids : /\ q \in Ids' /\ SameRow(ops'[q], ops[q])
                              /\ (ops[q].wrote => ops'[q].wrote)
    BY <1>19, HasuraRefusesEffect
  <1>20. ASSUME NEW w \in Workers, Timeout(w)
        PROVE  \A q \in Ids : /\ q \in Ids' /\ SameRow(ops'[q], ops[q])
                              /\ (ops[q].wrote => ops'[q].wrote)
    BY <1>20, TimeoutEffect
  <1>21. ASSUME NEW w \in Workers, Crash(w)
        PROVE  \A q \in Ids : /\ q \in Ids' /\ SameRow(ops'[q], ops[q])
                              /\ (ops[q].wrote => ops'[q].wrote)
    BY <1>21, CrashEffect
  <1>22. ASSUME NEW w \in Workers, DropSession(w)
        PROVE  \A q \in Ids : /\ q \in Ids' /\ SameRow(ops'[q], ops[q])
                              /\ (ops[q].wrote => ops'[q].wrote)
    BY <1>22, DropSessionEffect
  <1>23. ASSUME NEW w \in Workers, CommitLost(w)
        PROVE  \A q \in Ids : /\ q \in Ids' /\ SameRow(ops'[q], ops[q])
                              /\ (ops[q].wrote => ops'[q].wrote)
    BY <1>23, CommitLostEffect
  <1>24. ASSUME NEW w \in Workers, ExportFails(w)
        PROVE  \A q \in Ids : /\ q \in Ids' /\ SameRow(ops'[q], ops[q])
                              /\ (ops[q].wrote => ops'[q].wrote)
    BY <1>24, ExportFailsEffect
  <1>25. ASSUME NEW o \in Ids, LeaseAges(o)
        PROVE  \A q \in Ids : /\ q \in Ids' /\ SameRow(ops'[q], ops[q])
                              /\ (ops[q].wrote => ops'[q].wrote)
    BY <1>25, LeaseAgesEffect
  <1>26. ASSUME OtherMetadataChange
        PROVE  \A q \in Ids : /\ q \in Ids' /\ SameRow(ops'[q], ops[q])
                              /\ (ops[q].wrote => ops'[q].wrote)
    BY <1>26, OtherMetadataChangeEffect
  <1>27. ASSUME NEW t \in Tables, ConsoleEdit(t)
        PROVE  \A q \in Ids : /\ q \in Ids' /\ SameRow(ops'[q], ops[q])
                              /\ (ops[q].wrote => ops'[q].wrote)
    BY <1>27, ConsoleEditEffect
  <1>28. ASSUME NEW t \in Tables, DirectDdl(t)
        PROVE  \A q \in Ids : /\ q \in Ids' /\ SameRow(ops'[q], ops[q])
                              /\ (ops[q].wrote => ops'[q].wrote)
    BY <1>28, DirectDdlEffect
  <1>29. ASSUME NEW t \in Tables, PolicyChange(t)
        PROVE  \A q \in Ids : /\ q \in Ids' /\ SameRow(ops'[q], ops[q])
                              /\ (ops[q].wrote => ops'[q].wrote)
    BY <1>29, PolicyChangeEffect
  <1>30. ASSUME OrdinaryMutation
        PROVE  \A q \in Ids : /\ q \in Ids' /\ SameRow(ops'[q], ops[q])
                              /\ (ops[q].wrote => ops'[q].wrote)
    BY <1>30, OrdinaryMutationEffect
  <1>31. ASSUME setProjectRuntimeContext
        PROVE  \A q \in Ids : /\ q \in Ids' /\ SameRow(ops'[q], ops[q])
                              /\ (ops[q].wrote => ops'[q].wrote)
    BY <1>31, SetProjectRuntimeContextEffect
  <1>32. ASSUME disableProjectRuntimeContext
        PROVE  \A q \in Ids : /\ q \in Ids' /\ SameRow(ops'[q], ops[q])
                              /\ (ops[q].wrote => ops'[q].wrote)
    BY <1>32, DisableProjectRuntimeContextEffect
  <1>33. ASSUME NEW w \in Workers, ExportRejected(w)
        PROVE  \A q \in Ids : /\ q \in Ids' /\ SameRow(ops'[q], ops[q])
                              /\ (ops[q].wrote => ops'[q].wrote)
    BY <1>33, ExportRejectedEffect
  <1>34. CASE UNCHANGED vars
    BY <1>34, SMTT(20) DEF vars
  <1> QED
    BY <1>1, <1>2, <1>3, <1>4, <1>5, <1>6, <1>7, <1>8, <1>9, <1>10, <1>11,
         <1>12, <1>13, <1>14, <1>15, <1>16, <1>17, <1>18, <1>19, <1>20, <1>21,
         <1>22, <1>23, <1>24, <1>25, <1>26, <1>27, <1>28, <1>29, <1>30, <1>31,
         <1>32, <1>33, <1>34 DEF Next, HandlerStep, FaultStep, HasuraStep, Environment,
         Time, Recover

\* A handler stays where its call can be, on the row it was called for.
LEMMA StepOfStep ==
  ASSUME TypeOK, TypeOK', StepOf, Baselines, [Next]_vars
  PROVE  StepOf'
  <1> USE ProjectionAssumption, Rows DEF StepOf, ApplyPcs, RecoverPcs, SameCall,
       Others, Moves, Leaves, Starts
  <1>0. \A q \in Ids : q \in Ids' /\ ops'[q].con = ops[q].con
    BY RowsStay DEF SameRow
  <1>1. ASSUME NEW w \in Workers, NEW c \in Contracts, PreviewBegin(w, c)
        PROVE  StepOf'
    BY <1>0, <1>1, PreviewBeginEffect, SMTT(20)
  <1>2. ASSUME NEW w \in Workers, NEW o \in Ids, ApplyBegin(w, o) PROVE StepOf'
    BY <1>0, <1>2, ApplyBeginEffect, SMTT(20)
  <1>3. ASSUME NEW w \in Workers, PreviewInsert(w) PROVE StepOf'
    BY <1>0, <1>3, PreviewInsertEffect
  <1>4. ASSUME NEW w \in Workers, ApplyCheck(w) PROVE StepOf'
    BY <1>0, <1>4, ApplyCheckEffect, SMTT(20)
  <1>5. ASSUME NEW w \in Workers, Send(w) PROVE StepOf'
    BY <1>0, <1>5, SendEffect, SMTT(20)
  <1>6. ASSUME NEW w \in Workers, Receive(w) PROVE StepOf'
    BY <1>0, <1>6, ReceiveEffect
  <1>7. ASSUME NEW w \in Workers, VerifyTarget(w) PROVE StepOf'
    BY <1>0, <1>7, VerifyTargetEffect, SMTT(20)
  <1>8. ASSUME NEW w \in Workers, Persist(w) PROVE StepOf'
    BY <1>0, <1>8, PersistEffect
  <1>9. ASSUME NEW w \in Workers, NEW o \in Ids, RecoverBegin(w, o) PROVE StepOf'
    BY <1>0, <1>9, RecoverBeginEffect, SMTT(20)
  <1>10. ASSUME NEW w \in Workers, RecoverInspect(w) PROVE StepOf'
    BY <1>0, <1>10, RecoverInspectEffect
  <1>11. ASSUME NEW w \in Workers, RecoverDecide(w) PROVE StepOf'
    BY <1>0, <1>11, RecoverDecideEffect, SMTT(20)
  <1>12. ASSUME NEW w \in Workers, VerifyClosed(w) PROVE StepOf'
    BY <1>0, <1>12, VerifyClosedEffect
  <1>13. ASSUME NEW w \in Workers, MarkClosed(w) PROVE StepOf'
    BY <1>0, <1>13, MarkClosedEffect
  <1>14. ASSUME NEW w \in Workers, MarkFailed(w) PROVE StepOf'
    BY <1>0, <1>14, MarkFailedEffect
  <1>15. ASSUME NEW w \in Workers, MarkRecoveryRequired(w) PROVE StepOf'
    BY <1>0, <1>15, MarkRecoveryRequiredEffect
  <1>16. ASSUME NEW w \in Workers, DeadSession(w) PROVE StepOf'
    BY <1>0, <1>16, DeadSessionEffect
  <1>17. ASSUME NEW r \in wire, HasuraApplies(r) PROVE StepOf'
    BY <1>0, <1>17, HasuraAppliesEffect
  <1>18. ASSUME NEW r \in wire, HasuraRejects(r) PROVE StepOf'
    BY <1>0, <1>18, HasuraRejectsEffect
  <1>19. ASSUME NEW r \in wire, HasuraRefuses(r) PROVE StepOf'
    BY <1>0, <1>19, HasuraRefusesEffect
  <1>20. ASSUME NEW w \in Workers, Timeout(w) PROVE StepOf'
    BY <1>0, <1>20, TimeoutEffect
  <1>21. ASSUME NEW w \in Workers, Crash(w) PROVE StepOf'
    BY <1>0, <1>21, CrashEffect
  <1>22. ASSUME NEW w \in Workers, DropSession(w) PROVE StepOf'
    BY <1>0, <1>22, DropSessionEffect
  <1>23. ASSUME NEW w \in Workers, CommitLost(w) PROVE StepOf'
    BY <1>0, <1>23, CommitLostEffect
  <1>24. ASSUME NEW w \in Workers, ExportFails(w) PROVE StepOf'
    BY <1>0, <1>24, ExportFailsEffect
  <1>25. ASSUME NEW o \in Ids, LeaseAges(o) PROVE StepOf'
    BY <1>0, <1>25, LeaseAgesEffect
  <1>26. ASSUME OtherMetadataChange PROVE StepOf'
    BY <1>0, <1>26, OtherMetadataChangeEffect
  <1>27. ASSUME NEW t \in Tables, ConsoleEdit(t) PROVE StepOf'
    BY <1>0, <1>27, ConsoleEditEffect
  <1>28. ASSUME NEW t \in Tables, DirectDdl(t) PROVE StepOf'
    BY <1>0, <1>28, DirectDdlEffect
  <1>29. ASSUME NEW t \in Tables, PolicyChange(t) PROVE StepOf'
    BY <1>0, <1>29, PolicyChangeEffect
  <1>30. ASSUME OrdinaryMutation PROVE StepOf'
    BY <1>0, <1>30, OrdinaryMutationEffect
  <1>31. ASSUME setProjectRuntimeContext PROVE StepOf'
    BY <1>0, <1>31, SetProjectRuntimeContextEffect
  <1>32. ASSUME disableProjectRuntimeContext PROVE StepOf'
    BY <1>0, <1>32, DisableProjectRuntimeContextEffect
  <1>33. ASSUME NEW w \in Workers, ExportRejected(w) PROVE StepOf'
    BY <1>0, <1>33, ExportRejectedEffect
  <1>34. CASE UNCHANGED vars
    BY <1>34, <1>0 DEF vars, Ids
  <1> QED
    BY <1>1, <1>2, <1>3, <1>4, <1>5, <1>6, <1>7, <1>8, <1>9, <1>10, <1>11,
         <1>12, <1>13, <1>14, <1>15, <1>16, <1>17, <1>18, <1>19, <1>20, <1>21,
         <1>22, <1>23, <1>24, <1>25, <1>26, <1>27, <1>28, <1>29, <1>30, <1>31,
         <1>32, <1>33, <1>34 DEF Next, HandlerStep, FaultStep, HasuraStep, Environment,
         Time, Recover


-----------------------------------------------------------------------------
(* What a step does to the operation rows.                                 *)

\* No baseline changes its projection.
BaseKept ==
  \A t \in Tables : base'[t].perms.sel = base[t].perms.sel /\ base'[t].dep = base[t].dep

\* The metadata stays, and no console edit is recorded or recovered.
Quiet == UNCHANGED <<meta, version, astray, misjudged>>

\* The ways a step changes the rows, with what is known then.
RowsKept == UNCHANGED <<ops, Ids>> /\ BaseKept /\ astray \subseteq astray'
RowInserted(w, n) ==
  /\ Live(w) /\ h[w].pc = "insert" /\ PreviewAdmits(h[w].meta, h[w].con)
  /\ Inserts(w, n) /\ BaseKept /\ Quiet
RowClaimed(w) ==
  /\ Live(w) /\ h[w].pc = "check" /\ ApplyAdmits(w) /\ ops'[h[w].op].lease = "live"
  /\ Updates(h[w].op, "applying", ops[h[w].op].error, ops[h[w].op].wrote) /\ BaseKept /\ Quiet
RowRecorded(w) == Live(w) /\ h[w].pc = "persist" /\ Records(w) /\ Quiet
RowRecovered(o) ==
  /\ ~Blocked(o)
  /\ \/ ops[o].status \in InFlight /\ ops[o].lease = "drained"
     \/ ops[o].status = "completed" /\ LatestCompleted(o)
  /\ Ids' = Ids /\ SameRow(ops'[o], ops[o])
  /\ ops'[o].status = "recovering" /\ ops'[o].lease = "live"
  /\ ops'[o].wrote = ops[o].wrote /\ ops'[o].error = ops[o].error
  /\ \A p \in Ids \ {o} :
       /\ SameBut(ops'[p], ops[p])
       /\ \/ ops'[p].status = ops[p].status
          \/ /\ ops[p].status = "preview_ready" /\ ops'[p].status = "superseded"
             /\ ops[o].status = "completed"
       /\ ops[o].status = "completed" => ops'[p].status # "preview_ready"
  /\ BaseKept /\ UNCHANGED <<meta, version>> /\ astray' = astray \ ops[o].con.tables
RowNotApplied(w) ==
  /\ Live(w) /\ h[w].pc = "decide" /\ SourceActive(w)
  /\ Updates(h[w].op, "failed", "not_applied", ops[h[w].op].wrote) /\ BaseKept /\ Quiet
RowClosed(w) ==
  /\ Live(w) /\ h[w].pc = "closed"
  /\ Updates(h[w].op, "failed", "failed_closed", ops[h[w].op].wrote) /\ BaseKept /\ Quiet
RowFailed(w) ==
  /\ Live(w) /\ h[w].pc = "toFailed"
  /\ Updates(h[w].op, "failed", "rejected", ops[h[w].op].wrote) /\ BaseKept /\ Quiet
RowKeptOpen(w) ==
  /\ Live(w) /\ h[w].pc = "toRecovery" /\ ops'[h[w].op].lease = ops[h[w].op].lease
  /\ Updates(h[w].op, "recovery_required", "recovery_required", ops[h[w].op].wrote)
  /\ BaseKept /\ Quiet
RowAged(o) ==
  /\ ops[o].status \in InFlight
  /\ ops'[o].lease = "expired" \/ (ops'[o].lease = "drained" /\ ~Writing(o))
  /\ Updates(o, ops[o].status, ops[o].error, ops[o].wrote) /\ BaseKept /\ Quiet
RowsSuperseded == Supersedes /\ BaseKept /\ astray \subseteq astray'

\* Every step is one of them.
RowStep ==
  \/ RowsKept \/ RowsSuperseded
  \/ \E w \in Workers, n \in Nat : RowInserted(w, n)
  \/ \E w \in Workers : \/ RowClaimed(w) \/ RowRecorded(w) \/ RowNotApplied(w)
                        \/ RowClosed(w) \/ RowFailed(w) \/ RowKeptOpen(w)
  \/ \E o \in Ids : RowRecovered(o) \/ RowAged(o)

\* Every step does one of these things to the rows.
LEMMA RowSteps ==
  ASSUME TypeOK, TypeOK', StepOf, Baselines, [Next]_vars
  PROVE  RowStep
  <1> USE DEF BaseKept, Live, Quiet
  <1>1. ASSUME NEW w \in Workers, NEW c \in Contracts, PreviewBegin(w, c)
        PROVE  RowStep
    BY <1>1, PreviewBeginEffect DEF RowStep, RowsKept
  <1>2. ASSUME NEW w \in Workers, NEW o \in Ids, ApplyBegin(w, o) PROVE RowStep
    BY <1>2, ApplyBeginEffect DEF RowStep, RowsKept
  <1>3. ASSUME NEW w \in Workers, PreviewInsert(w) PROVE RowStep
    BY <1>3, PreviewInsertEffect DEF RowStep, RowsKept, RowInserted
  <1>4. ASSUME NEW w \in Workers, ApplyCheck(w) PROVE RowStep
    BY <1>4, ApplyCheckEffect DEF RowStep, RowsKept, RowClaimed
  <1>5. ASSUME NEW w \in Workers, Send(w) PROVE RowStep
    BY <1>5, SendEffect DEF RowStep, RowsKept
  <1>6. ASSUME NEW w \in Workers, Receive(w) PROVE RowStep
    BY <1>6, ReceiveEffect DEF RowStep, RowsKept
  <1>7. ASSUME NEW w \in Workers, VerifyTarget(w) PROVE RowStep
    BY <1>7, VerifyTargetEffect DEF RowStep, RowsKept
  <1>8. ASSUME NEW w \in Workers, Persist(w) PROVE RowStep
    BY <1>8, PersistEffect DEF RowStep, RowsKept, RowRecorded
  <1>9. ASSUME NEW w \in Workers, NEW o \in Ids, RecoverBegin(w, o) PROVE RowStep
    BY <1>9, RecoverBeginEffect DEF RowStep, RowRecovered
  <1>10. ASSUME NEW w \in Workers, RecoverInspect(w) PROVE RowStep
    BY <1>10, RecoverInspectEffect DEF RowStep, RowsKept
  <1>11. ASSUME NEW w \in Workers, RecoverDecide(w) PROVE RowStep
    BY <1>11, RecoverDecideEffect DEF RowStep, RowsKept, RowNotApplied
  <1>12. ASSUME NEW w \in Workers, VerifyClosed(w) PROVE RowStep
    BY <1>12, VerifyClosedEffect DEF RowStep, RowsKept
  <1>13. ASSUME NEW w \in Workers, MarkClosed(w) PROVE RowStep
    BY <1>13, MarkClosedEffect DEF RowStep, RowClosed
  <1>14. ASSUME NEW w \in Workers, MarkFailed(w) PROVE RowStep
    BY <1>14, MarkFailedEffect DEF RowStep, RowFailed
  <1>15. ASSUME NEW w \in Workers, MarkRecoveryRequired(w) PROVE RowStep
    BY <1>15, MarkRecoveryRequiredEffect DEF RowStep, RowKeptOpen
  <1>16. ASSUME NEW w \in Workers, DeadSession(w) PROVE RowStep
    BY <1>16, DeadSessionEffect DEF RowStep, RowsKept
  <1>17. ASSUME NEW r \in wire, HasuraApplies(r) PROVE RowStep
    BY <1>17, HasuraAppliesEffect DEF RowStep, RowsKept
  <1>18. ASSUME NEW r \in wire, HasuraRejects(r) PROVE RowStep
    BY <1>18, HasuraRejectsEffect DEF RowStep, RowsKept
  <1>19. ASSUME NEW r \in wire, HasuraRefuses(r) PROVE RowStep
    BY <1>19, HasuraRefusesEffect DEF RowStep, RowsKept
  <1>20. ASSUME NEW w \in Workers, Timeout(w) PROVE RowStep
    BY <1>20, TimeoutEffect DEF RowStep, RowsKept
  <1>21. ASSUME NEW w \in Workers, Crash(w) PROVE RowStep
    BY <1>21, CrashEffect DEF RowStep, RowsKept, RowsSuperseded
  <1>22. ASSUME NEW w \in Workers, DropSession(w) PROVE RowStep
    BY <1>22, DropSessionEffect DEF RowStep, RowsKept
  <1>23. ASSUME NEW w \in Workers, CommitLost(w) PROVE RowStep
    BY <1>23, CommitLostEffect DEF RowStep, RowsKept, RowRecorded
  <1>24. ASSUME NEW w \in Workers, ExportFails(w) PROVE RowStep
    BY <1>24, ExportFailsEffect DEF RowStep, RowsKept
  <1>25. ASSUME NEW o \in Ids, LeaseAges(o) PROVE RowStep
    BY <1>25, LeaseAgesEffect DEF RowStep, RowAged
  <1>26. ASSUME OtherMetadataChange PROVE RowStep
    BY <1>26, OtherMetadataChangeEffect DEF RowStep, RowsKept
  <1>27. ASSUME NEW t \in Tables, ConsoleEdit(t) PROVE RowStep
    BY <1>27, ConsoleEditEffect DEF RowStep, RowsKept
  <1>28. ASSUME NEW t \in Tables, DirectDdl(t) PROVE RowStep
    BY <1>28, DirectDdlEffect DEF RowStep, RowsKept
  <1>29. ASSUME NEW t \in Tables, PolicyChange(t) PROVE RowStep
    BY <1>29, PolicyChangeEffect DEF RowStep, RowsSuperseded
  <1>30. ASSUME OrdinaryMutation PROVE RowStep
    BY <1>30, OrdinaryMutationEffect DEF RowStep, RowsSuperseded
  <1>31. ASSUME setProjectRuntimeContext PROVE RowStep
    BY <1>31, SetProjectRuntimeContextEffect DEF RowStep, RowsKept
  <1>32. ASSUME disableProjectRuntimeContext PROVE RowStep
    BY <1>32, DisableProjectRuntimeContextEffect DEF RowStep, RowsKept
  <1>33. ASSUME NEW w \in Workers, ExportRejected(w) PROVE RowStep
    BY <1>33, ExportRejectedEffect DEF RowStep, RowsKept
  <1>34. CASE UNCHANGED vars
    BY <1>34 DEF vars, Ids, RowStep, RowsKept, BaseKept, Quiet
  <1> QED
    BY <1>1, <1>2, <1>3, <1>4, <1>5, <1>6, <1>7, <1>8, <1>9, <1>10, <1>11,
         <1>12, <1>13, <1>14, <1>15, <1>16, <1>17, <1>18, <1>19, <1>20, <1>21,
         <1>22, <1>23, <1>24, <1>25, <1>26, <1>27, <1>28, <1>29, <1>30, <1>31,
         <1>32, <1>33, <1>34 DEF Next, HandlerStep, FaultStep, HasuraStep, Environment,
         Time, Recover


\* The tables of a contract are tables of the project.
LEMMA RowTables ==
  ASSUME TypeOK
  PROVE  /\ \A o \in Ids : /\ ops[o].con \in Contracts /\ ops[o].con.tables \subseteq Tables
                           /\ ops[o].con.sel \in Constraints
         /\ \A w \in Workers : /\ h[w].con \in Contracts /\ h[w].con.tables \subseteq Tables
                               /\ h[w].con.sel \in Constraints
  <1>1. \A o \in Ids : ops[o].con \in Contracts
    BY Rows DEF OpRow
  <1>2. \A w \in Workers : h[w].con \in Contracts
    BY DEF TypeOK, Handler
  <1>3. \A c \in Contracts : c.tables \subseteq Tables /\ c.sel \in Constraints
    BY ProjectionAssumption DEF Constraints
  <1> QED
    BY <1>1, <1>2, <1>3


\* What the types say of versions, grants, requests and copies.
LEMMA Numbers ==
  ASSUME TypeOK
  PROVE  /\ version \in Nat
         /\ \A w \in Workers : h[w].ver \in Nat /\ h[w].meta \in Metadata
         /\ \A o \in Ids : ops[o].ver \in Nat /\ ops[o].src \in Metadata
         /\ \A r \in wire : r \in Request /\ r.ver \in Nat /\ r.op \in Nat
                            /\ r.w \in Workers \cup {NoWorker}
         /\ \A t \in Tables : base[t].perms.grants \in Nat /\ meta.perms[t].grants \in Nat
         /\ meta \in Metadata /\ meta.foreign \in Nat /\ outside \in Nat
  <1>1. \A o \in Ids : ops[o].ver \in Nat /\ ops[o].src \in Metadata
    BY Rows DEF OpRow
  <1>2. version \in Nat /\ \A w \in Workers : h[w].ver \in Nat /\ h[w].meta \in Metadata
    BY DEF TypeOK, Handler
  <1>3. \A r \in wire : r \in Request /\ r.ver \in Nat /\ r.op \in Nat
                        /\ r.w \in Workers \cup {NoWorker}
    BY DEF TypeOK, Request
  <1>4. meta \in Metadata /\ meta.foreign \in Nat /\ meta.perms \in [Tables -> Permission]
    BY DEF TypeOK, Metadata
  <1>5. \A t \in Tables : base[t].perms \in Permission
    BY DEF TypeOK, Baseline
  <1>6. \A p \in Permission : p.grants \in Nat
    BY ProjectionAssumption DEF Permission
  <1>7. outside \in Nat
    BY ProjectionAssumption DEF TypeOK
  <1> QED
    BY <1>1, <1>2, <1>3, <1>4, <1>5, <1>6, <1>7

\* A new preview closes the older ones, and a completed batch is reopened only
\* when nothing is in flight.
LEMMA OneActiveStep ==
  ASSUME TypeOK, StepOf, Claims, OneActive, RowStep
  PROVE  OneActive'
  <1> USE Rows DEF OneActive, Claims, Live, Settled, Blocked, StepOf, ApplyPcs,
       RecoverPcs, InFlight, Active, InFlightOp, SameRow, Updates, SameBut,
       Supersedes, Inserts, Records
  <1>1. ASSUME RowsKept PROVE OneActive'
    BY <1>1 DEF RowsKept
  <1>2. ASSUME RowsSuperseded PROVE OneActive'
    BY <1>2 DEF RowsSuperseded
  <1>3. ASSUME NEW w \in Workers, NEW n \in Nat, RowInserted(w, n) PROVE OneActive'
    BY <1>3 DEF RowInserted
  <1>4. ASSUME NEW w \in Workers, RowClaimed(w) PROVE OneActive'
    BY <1>4 DEF RowClaimed
  <1>5. ASSUME NEW w \in Workers, RowRecorded(w) PROVE OneActive'
    BY <1>5 DEF RowRecorded
  <1>6. ASSUME NEW w \in Workers, RowNotApplied(w) PROVE OneActive'
    BY <1>6 DEF RowNotApplied
  <1>7. ASSUME NEW w \in Workers, RowClosed(w) PROVE OneActive'
    BY <1>7 DEF RowClosed
  <1>8. ASSUME NEW w \in Workers, RowFailed(w) PROVE OneActive'
    BY <1>8 DEF RowFailed
  <1>9. ASSUME NEW w \in Workers, RowKeptOpen(w) PROVE OneActive'
    BY <1>9 DEF RowKeptOpen
  <1>10. ASSUME NEW o \in Ids, RowRecovered(o) PROVE OneActive'
    BY <1>10 DEF RowRecovered
  <1>11. ASSUME NEW o \in Ids, RowAged(o) PROVE OneActive'
    BY <1>11 DEF RowAged
  <1> QED
    BY <1>1, <1>2, <1>3, <1>4, <1>5, <1>6, <1>7, <1>8, <1>9, <1>10, <1>11
         DEF RowStep

\* A row in flight has a lease.
LEMMA LeasedStep ==
  ASSUME TypeOK, StepOf, Leased, Claims, RowStep
  PROVE  Leased'
  <1> USE Rows DEF Leased, Claims, Live, StepOf, ApplyPcs, RecoverPcs, InFlight,
       Active, InFlightOp, SameRow, Updates, SameBut, Supersedes, Inserts,
       Records
  <1>1. ASSUME RowsKept PROVE Leased'
    BY <1>1 DEF RowsKept
  <1>2. ASSUME RowsSuperseded PROVE Leased'
    BY <1>2 DEF RowsSuperseded
  <1>3. ASSUME NEW w \in Workers, NEW n \in Nat, RowInserted(w, n) PROVE Leased'
    BY <1>3 DEF RowInserted
  <1>4. ASSUME NEW w \in Workers, RowClaimed(w) PROVE Leased'
    BY <1>4 DEF RowClaimed
  <1>5. ASSUME NEW w \in Workers, RowRecorded(w) PROVE Leased'
    BY <1>5 DEF RowRecorded
  <1>6. ASSUME NEW w \in Workers, RowNotApplied(w) PROVE Leased'
    BY <1>6 DEF RowNotApplied
  <1>7. ASSUME NEW w \in Workers, RowClosed(w) PROVE Leased'
    BY <1>7 DEF RowClosed
  <1>8. ASSUME NEW w \in Workers, RowFailed(w) PROVE Leased'
    BY <1>8 DEF RowFailed
  <1>9. ASSUME NEW w \in Workers, RowKeptOpen(w) PROVE Leased'
    BY <1>9 DEF RowKeptOpen
  <1>10. ASSUME NEW o \in Ids, RowRecovered(o) PROVE Leased'
    BY <1>10 DEF RowRecovered
  <1>11. ASSUME NEW o \in Ids, RowAged(o) PROVE Leased'
    BY <1>11 DEF RowAged
  <1> QED
    BY <1>1, <1>2, <1>3, <1>4, <1>5, <1>6, <1>7, <1>8, <1>9, <1>10, <1>11
         DEF RowStep

\* Only the newest row can be one that has still to write.
LEMMA NewestStep ==
  ASSUME TypeOK, StepOf, Newest, PreviewUnwritten, CompletedWrote, Claims,
       RowStep
  PROVE  Newest'
  <1> USE Rows DEF Newest, PreviewUnwritten, CompletedWrote, Fresh, Claims,
       Live, Settled, StepOf, ApplyPcs, RecoverPcs, InFlight, Active,
       InFlightOp, SameRow, Updates, SameBut, Supersedes, Inserts, Records
  <1>1. ASSUME RowsKept PROVE Newest'
    BY <1>1 DEF RowsKept
  <1>2. ASSUME RowsSuperseded PROVE Newest'
    BY <1>2 DEF RowsSuperseded
  <1>3. ASSUME NEW w \in Workers, NEW n \in Nat, RowInserted(w, n) PROVE Newest'
    BY <1>3 DEF RowInserted
  <1>4. ASSUME NEW w \in Workers, RowClaimed(w) PROVE Newest'
    BY <1>4 DEF RowClaimed
  <1>5. ASSUME NEW w \in Workers, RowRecorded(w) PROVE Newest'
    BY <1>5 DEF RowRecorded
  <1>6. ASSUME NEW w \in Workers, RowNotApplied(w) PROVE Newest'
    BY <1>6 DEF RowNotApplied
  <1>7. ASSUME NEW w \in Workers, RowClosed(w) PROVE Newest'
    BY <1>7 DEF RowClosed
  <1>8. ASSUME NEW w \in Workers, RowFailed(w) PROVE Newest'
    BY <1>8 DEF RowFailed
  <1>9. ASSUME NEW w \in Workers, RowKeptOpen(w) PROVE Newest'
    BY <1>9 DEF RowKeptOpen
  <1>10. ASSUME NEW o \in Ids, RowRecovered(o) PROVE Newest'
    BY <1>10 DEF RowRecovered
  <1>11. ASSUME NEW o \in Ids, RowAged(o) PROVE Newest'
    BY <1>11 DEF RowAged
  <1> QED
    BY <1>1, <1>2, <1>3, <1>4, <1>5, <1>6, <1>7, <1>8, <1>9, <1>10, <1>11
         DEF RowStep

\* No batch newer than an open one ever wrote.
LEMMA NoNewerWroteStep ==
  ASSUME TypeOK, StepOf, NoNewerWrote, OneActive, Claims, RowStep
  PROVE  NoNewerWrote'
  <1> USE Rows DEF NoNewerWrote, OneActive, LatestCompleted, Claims, Live,
       StepOf, ApplyPcs, RecoverPcs, InFlight, Active, InFlightOp, SameRow,
       Updates, SameBut, Supersedes, Inserts, Records
  <1>1. ASSUME RowsKept PROVE NoNewerWrote'
    BY <1>1 DEF RowsKept
  <1>2. ASSUME RowsSuperseded PROVE NoNewerWrote'
    BY <1>2 DEF RowsSuperseded
  <1>3. ASSUME NEW w \in Workers, NEW n \in Nat, RowInserted(w, n)
        PROVE  NoNewerWrote'
    BY <1>3 DEF RowInserted
  <1>4. ASSUME NEW w \in Workers, RowClaimed(w) PROVE NoNewerWrote'
    BY <1>4 DEF RowClaimed
  <1>5. ASSUME NEW w \in Workers, RowRecorded(w) PROVE NoNewerWrote'
    BY <1>5 DEF RowRecorded
  <1>6. ASSUME NEW w \in Workers, RowNotApplied(w) PROVE NoNewerWrote'
    BY <1>6 DEF RowNotApplied
  <1>7. ASSUME NEW w \in Workers, RowClosed(w) PROVE NoNewerWrote'
    BY <1>7 DEF RowClosed
  <1>8. ASSUME NEW w \in Workers, RowFailed(w) PROVE NoNewerWrote'
    BY <1>8 DEF RowFailed
  <1>9. ASSUME NEW w \in Workers, RowKeptOpen(w) PROVE NoNewerWrote'
    BY <1>9 DEF RowKeptOpen
  <1>10. ASSUME NEW o \in Ids, RowRecovered(o) PROVE NoNewerWrote'
    BY <1>10 DEF RowRecovered
  <1>11. ASSUME NEW o \in Ids, RowAged(o) PROVE NoNewerWrote'
    BY <1>11 DEF RowAged
  <1> QED
    BY <1>1, <1>2, <1>3, <1>4, <1>5, <1>6, <1>7, <1>8, <1>9, <1>10, <1>11
         DEF RowStep

\* A preview has not written; a completed batch has; one that wrote is
\* completed, in flight or failed closed.
LEMMA WrittenStep ==
  ASSUME TypeOK, StepOf, PreviewUnwritten, CompletedWrote, WroteEnds,
       ClosedFailed, Dependent, Claims, RowStep
  PROVE  (PreviewUnwritten /\ CompletedWrote
          /\ WroteEnds /\ ClosedFailed /\ Dependent)'
  <1> USE Rows DEF PreviewUnwritten, CompletedWrote, WroteEnds, ClosedFailed,
       Dependent, Claims, Live, StepOf, ApplyPcs, RecoverPcs, SourceActive, Op,
       InFlight, Active, InFlightOp, SameRow, Updates, SameBut, Supersedes,
       Inserts, Records
  <1>1. ASSUME RowsKept
        PROVE  (PreviewUnwritten /\ CompletedWrote
                /\ WroteEnds /\ ClosedFailed /\ Dependent)'
    BY <1>1 DEF RowsKept
  <1>2. ASSUME RowsSuperseded
        PROVE  (PreviewUnwritten /\ CompletedWrote
                /\ WroteEnds /\ ClosedFailed /\ Dependent)'
    BY <1>2 DEF RowsSuperseded
  <1>3. ASSUME NEW w \in Workers, NEW n \in Nat, RowInserted(w, n)
        PROVE  (PreviewUnwritten /\ CompletedWrote
                /\ WroteEnds /\ ClosedFailed /\ Dependent)'
    BY <1>3 DEF RowInserted
  <1>4. ASSUME NEW w \in Workers, RowClaimed(w)
        PROVE  (PreviewUnwritten /\ CompletedWrote
                /\ WroteEnds /\ ClosedFailed /\ Dependent)'
    BY <1>4 DEF RowClaimed
  <1>5. ASSUME NEW w \in Workers, RowRecorded(w)
        PROVE  (PreviewUnwritten /\ CompletedWrote
                /\ WroteEnds /\ ClosedFailed /\ Dependent)'
    BY <1>5 DEF RowRecorded
  <1>6. ASSUME NEW w \in Workers, RowNotApplied(w)
        PROVE  (PreviewUnwritten /\ CompletedWrote
                /\ WroteEnds /\ ClosedFailed /\ Dependent)'
    BY <1>6 DEF RowNotApplied
  <1>7. ASSUME NEW w \in Workers, RowClosed(w)
        PROVE  (PreviewUnwritten /\ CompletedWrote
                /\ WroteEnds /\ ClosedFailed /\ Dependent)'
    BY <1>7 DEF RowClosed
  <1>8. ASSUME NEW w \in Workers, RowFailed(w)
        PROVE  (PreviewUnwritten /\ CompletedWrote
                /\ WroteEnds /\ ClosedFailed /\ Dependent)'
    BY <1>8 DEF RowFailed
  <1>9. ASSUME NEW w \in Workers, RowKeptOpen(w)
        PROVE  (PreviewUnwritten /\ CompletedWrote
                /\ WroteEnds /\ ClosedFailed /\ Dependent)'
    BY <1>9 DEF RowKeptOpen
  <1>10. ASSUME NEW o \in Ids, RowRecovered(o)
        PROVE  (PreviewUnwritten /\ CompletedWrote
                /\ WroteEnds /\ ClosedFailed /\ Dependent)'
    BY <1>10 DEF RowRecovered
  <1>11. ASSUME NEW o \in Ids, RowAged(o)
        PROVE  (PreviewUnwritten /\ CompletedWrote
                /\ WroteEnds /\ ClosedFailed /\ Dependent)'
    BY <1>11 DEF RowAged
  <1> QED
    BY <1>1, <1>2, <1>3, <1>4, <1>5, <1>6, <1>7, <1>8, <1>9, <1>10, <1>11
         DEF RowStep

\* The tables of a batch that wrote are under a projection.
LEMMA WroteV2Step ==
  ASSUME TypeOK, StepOf, WroteV2, Dependent, Claims, RowStep
  PROVE  WroteV2'
  <1> USE Rows, RowTables DEF WroteV2, Dependent, Claims, Live, BaseKept, IsV2,
       CoversExistingBaselines, StepOf, ApplyPcs, RecoverPcs, SameRow, Updates,
       SameBut, Supersedes, Inserts, Records
  <1>1. ASSUME RowsKept PROVE WroteV2'
    BY <1>1 DEF RowsKept
  <1>2. ASSUME RowsSuperseded PROVE WroteV2'
    BY <1>2 DEF RowsSuperseded
  <1>3. ASSUME NEW w \in Workers, NEW n \in Nat, RowInserted(w, n) PROVE WroteV2'
    BY <1>3 DEF RowInserted
  <1>4. ASSUME NEW w \in Workers, RowClaimed(w) PROVE WroteV2'
    BY <1>4 DEF RowClaimed
  <1>5. ASSUME NEW w \in Workers, RowRecorded(w) PROVE WroteV2'
    BY <1>5 DEF RowRecorded
  <1>6. ASSUME NEW w \in Workers, RowNotApplied(w) PROVE WroteV2'
    BY <1>6 DEF RowNotApplied
  <1>7. ASSUME NEW w \in Workers, RowClosed(w) PROVE WroteV2'
    BY <1>7 DEF RowClosed
  <1>8. ASSUME NEW w \in Workers, RowFailed(w) PROVE WroteV2'
    BY <1>8 DEF RowFailed
  <1>9. ASSUME NEW w \in Workers, RowKeptOpen(w) PROVE WroteV2'
    BY <1>9 DEF RowKeptOpen
  <1>10. ASSUME NEW o \in Ids, RowRecovered(o) PROVE WroteV2'
    BY <1>10 DEF RowRecovered
  <1>11. ASSUME NEW o \in Ids, RowAged(o) PROVE WroteV2'
    BY <1>11 DEF RowAged
  <1> QED
    BY <1>1, <1>2, <1>3, <1>4, <1>5, <1>6, <1>7, <1>8, <1>9, <1>10, <1>11
         DEF RowStep

\* An open batch covers every table under a projection.
LEMMA ActiveCoversStep ==
  ASSUME TypeOK, StepOf, ActiveCovers, OneActive, LatestRecorded,
       CompletedWrote, Claims, RowStep
  PROVE  ActiveCovers'
  <1> USE Rows DEF ActiveCovers, OneActive, LatestRecorded, CompletedWrote,
       Claims, Live, BaseKept, IsV2, CoversExistingBaselines, StepOf, ApplyPcs,
       RecoverPcs, InFlight, Active, InFlightOp, SameRow, Updates, SameBut,
       Supersedes, Inserts, Records
  <1>1. ASSUME RowsKept PROVE ActiveCovers'
    BY <1>1 DEF RowsKept
  <1>2. ASSUME RowsSuperseded PROVE ActiveCovers'
    BY <1>2 DEF RowsSuperseded
  <1>3. ASSUME NEW w \in Workers, NEW n \in Nat, RowInserted(w, n)
        PROVE  ActiveCovers'
    BY <1>3 DEF RowInserted
  <1>4. ASSUME NEW w \in Workers, RowClaimed(w) PROVE ActiveCovers'
    BY <1>4 DEF RowClaimed
  <1>5. ASSUME NEW w \in Workers, RowRecorded(w) PROVE ActiveCovers'
    BY <1>5 DEF RowRecorded
  <1>6. ASSUME NEW w \in Workers, RowNotApplied(w) PROVE ActiveCovers'
    BY <1>6 DEF RowNotApplied
  <1>7. ASSUME NEW w \in Workers, RowClosed(w) PROVE ActiveCovers'
    BY <1>7 DEF RowClosed
  <1>8. ASSUME NEW w \in Workers, RowFailed(w) PROVE ActiveCovers'
    BY <1>8 DEF RowFailed
  <1>9. ASSUME NEW w \in Workers, RowKeptOpen(w) PROVE ActiveCovers'
    BY <1>9 DEF RowKeptOpen
  <1>10. ASSUME NEW o \in Ids, RowRecovered(o) PROVE ActiveCovers'
    BY <1>10 DEF RowRecovered
  <1>11. ASSUME NEW o \in Ids, RowAged(o) PROVE ActiveCovers'
    BY <1>11 DEF RowAged
  <1> QED
    BY <1>1, <1>2, <1>3, <1>4, <1>5, <1>6, <1>7, <1>8, <1>9, <1>10, <1>11
         DEF RowStep

\* The baselines record the newest batch that wrote.
LEMMA LatestRecordedStep ==
  ASSUME TypeOK, StepOf, LatestRecorded, ActiveCovers, NoNewerWrote, Claims,
       RowStep
  PROVE  LatestRecorded'
  <1> USE Rows, RowTables DEF LatestRecorded, LatestCompleted, NoNewerWrote,
       ActiveCovers, Claims, Live, BaseKept, IsV2, CoversExistingBaselines,
       StepOf, ApplyPcs, RecoverPcs, InFlight, Active, InFlightOp, SameRow,
       Updates, SameBut, Supersedes, Inserts, Records
  <1>1. ASSUME RowsKept PROVE LatestRecorded'
    BY <1>1 DEF RowsKept
  <1>2. ASSUME RowsSuperseded PROVE LatestRecorded'
    BY <1>2 DEF RowsSuperseded
  <1>3. ASSUME NEW w \in Workers, NEW n \in Nat, RowInserted(w, n)
        PROVE  LatestRecorded'
    BY <1>3 DEF RowInserted
  <1>4. ASSUME NEW w \in Workers, RowClaimed(w) PROVE LatestRecorded'
    BY <1>4 DEF RowClaimed
  <1>5. ASSUME NEW w \in Workers, RowRecorded(w) PROVE LatestRecorded'
    BY <1>5 DEF RowRecorded
  <1>6. ASSUME NEW w \in Workers, RowNotApplied(w) PROVE LatestRecorded'
    BY <1>6 DEF RowNotApplied
  <1>7. ASSUME NEW w \in Workers, RowClosed(w) PROVE LatestRecorded'
    BY <1>7 DEF RowClosed
  <1>8. ASSUME NEW w \in Workers, RowFailed(w) PROVE LatestRecorded'
    BY <1>8 DEF RowFailed
  <1>9. ASSUME NEW w \in Workers, RowKeptOpen(w) PROVE LatestRecorded'
    BY <1>9 DEF RowKeptOpen
  <1>10. ASSUME NEW o \in Ids, RowRecovered(o) PROVE LatestRecorded'
    BY <1>10 DEF RowRecovered
  <1>11. ASSUME NEW o \in Ids, RowAged(o) PROVE LatestRecorded'
    BY <1>11 DEF RowAged
  <1> QED
    BY <1>1, <1>2, <1>3, <1>4, <1>5, <1>6, <1>7, <1>8, <1>9, <1>10, <1>11
         DEF RowStep

\* A batch that failed closed covers every table under a projection until a
\* newer one writes.
LEMMA ClosedCoversStep ==
  ASSUME TypeOK, StepOf, ClosedCovers, ActiveCovers, Newest, WroteV2,
       ClosedFailed, Claims, RowStep
  PROVE  ClosedCovers'
  <1> USE Rows DEF ClosedCovers, ActiveCovers, Newest, WroteV2, ClosedFailed,
       Fresh, Claims, Live, BaseKept, IsV2, CoversExistingBaselines, StepOf,
       ApplyPcs, RecoverPcs, InFlight, Active, InFlightOp, SameRow, Updates,
       SameBut, Supersedes, Inserts, Records
  <1>1. ASSUME RowsKept PROVE ClosedCovers'
    BY <1>1 DEF RowsKept
  <1>2. ASSUME RowsSuperseded PROVE ClosedCovers'
    BY <1>2 DEF RowsSuperseded
  <1>3. ASSUME NEW w \in Workers, NEW n \in Nat, RowInserted(w, n)
        PROVE  ClosedCovers'
    BY <1>3 DEF RowInserted
  <1>4. ASSUME NEW w \in Workers, RowClaimed(w) PROVE ClosedCovers'
    BY <1>4 DEF RowClaimed
  <1>5. ASSUME NEW w \in Workers, RowRecorded(w) PROVE ClosedCovers'
    BY <1>5 DEF RowRecorded
  <1>6. ASSUME NEW w \in Workers, RowNotApplied(w) PROVE ClosedCovers'
    BY <1>6 DEF RowNotApplied
  <1>7. ASSUME NEW w \in Workers, RowClosed(w) PROVE ClosedCovers'
    BY <1>7 DEF RowClosed
  <1>8. ASSUME NEW w \in Workers, RowFailed(w) PROVE ClosedCovers'
    BY <1>8 DEF RowFailed
  <1>9. ASSUME NEW w \in Workers, RowKeptOpen(w) PROVE ClosedCovers'
    BY <1>9 DEF RowKeptOpen
  <1>10. ASSUME NEW o \in Ids, RowRecovered(o) PROVE ClosedCovers'
    BY <1>10 DEF RowRecovered
  <1>11. ASSUME NEW o \in Ids, RowAged(o) PROVE ClosedCovers'
    BY <1>11 DEF RowAged
  <1> QED
    BY <1>1, <1>2, <1>3, <1>4, <1>5, <1>6, <1>7, <1>8, <1>9, <1>10, <1>11
         DEF RowStep

\* The tables under a projection share its dependencies.
LEMMA OneProjectionStep ==
  ASSUME TypeOK, StepOf, OneProjection, ActiveCovers, Claims, RowStep
  PROVE  OneProjection'
  <1> USE Rows DEF OneProjection, ActiveCovers, Claims, Live, BaseKept, IsV2,
       CoversExistingBaselines, StepOf, ApplyPcs, RecoverPcs, InFlight, Active,
       InFlightOp, SameRow, Updates, SameBut, Supersedes, Inserts, Records
  <1>1. ASSUME RowsKept PROVE OneProjection'
    BY <1>1 DEF RowsKept
  <1>2. ASSUME RowsSuperseded PROVE OneProjection'
    BY <1>2 DEF RowsSuperseded
  <1>3. ASSUME NEW w \in Workers, NEW n \in Nat, RowInserted(w, n)
        PROVE  OneProjection'
    BY <1>3 DEF RowInserted
  <1>4. ASSUME NEW w \in Workers, RowClaimed(w) PROVE OneProjection'
    BY <1>4 DEF RowClaimed
  <1>5. ASSUME NEW w \in Workers, RowRecorded(w) PROVE OneProjection'
    BY <1>5 DEF RowRecorded
  <1>6. ASSUME NEW w \in Workers, RowNotApplied(w) PROVE OneProjection'
    BY <1>6 DEF RowNotApplied
  <1>7. ASSUME NEW w \in Workers, RowClosed(w) PROVE OneProjection'
    BY <1>7 DEF RowClosed
  <1>8. ASSUME NEW w \in Workers, RowFailed(w) PROVE OneProjection'
    BY <1>8 DEF RowFailed
  <1>9. ASSUME NEW w \in Workers, RowKeptOpen(w) PROVE OneProjection'
    BY <1>9 DEF RowKeptOpen
  <1>10. ASSUME NEW o \in Ids, RowRecovered(o) PROVE OneProjection'
    BY <1>10 DEF RowRecovered
  <1>11. ASSUME NEW o \in Ids, RowAged(o) PROVE OneProjection'
    BY <1>11 DEF RowAged
  <1> QED
    BY <1>1, <1>2, <1>3, <1>4, <1>5, <1>6, <1>7, <1>8, <1>9, <1>10, <1>11
         DEF RowStep

\* There is a newest batch that failed closed if there is any.
LEMMA ClosedLastStep ==
  ASSUME TypeOK, StepOf, ClosedLast, ClosedFailed, Claims, RowStep
  PROVE  ClosedLast'
  <1> USE Rows DEF ClosedLast, ClosedFailed, Claims, Live, StepOf, ApplyPcs,
       RecoverPcs, InFlight, Active, InFlightOp, SameRow, Updates, SameBut,
       Supersedes, Inserts, Records
  <1>1. ASSUME RowsKept PROVE ClosedLast'
    BY <1>1 DEF RowsKept
  <1>2. ASSUME RowsSuperseded PROVE ClosedLast'
    BY <1>2 DEF RowsSuperseded
  <1>3. ASSUME NEW w \in Workers, NEW n \in Nat, RowInserted(w, n) PROVE ClosedLast'
    <2>1. /\ \A q \in Ids : q \in Ids' /\ (ops'[q].error = "failed_closed"
                                             <=> ops[q].error = "failed_closed")
          /\ \A q \in Ids' \ Ids : ops'[q].error # "failed_closed"
      BY <1>3 DEF RowInserted
    <2> QED
      BY <2>1, SMTT(20)
  <1>4. ASSUME NEW w \in Workers, RowClaimed(w) PROVE ClosedLast'
    <2>1. /\ \A q \in Ids : q \in Ids' /\ (ops'[q].error = "failed_closed"
                                             <=> ops[q].error = "failed_closed")
          /\ \A q \in Ids' \ Ids : ops'[q].error # "failed_closed"
      BY <1>4 DEF RowClaimed
    <2> QED
      BY <2>1
  <1>5. ASSUME NEW w \in Workers, RowRecorded(w) PROVE ClosedLast'
    <2>1. /\ \A q \in Ids : q \in Ids' /\ (ops'[q].error = "failed_closed"
                                             <=> ops[q].error = "failed_closed")
          /\ \A q \in Ids' \ Ids : ops'[q].error # "failed_closed"
      BY <1>5 DEF RowRecorded
    <2> QED
      BY <2>1
  <1>6. ASSUME NEW w \in Workers, RowNotApplied(w) PROVE ClosedLast'
    <2>1. /\ \A q \in Ids : q \in Ids' /\ (ops'[q].error = "failed_closed"
                                             <=> ops[q].error = "failed_closed")
          /\ \A q \in Ids' \ Ids : ops'[q].error # "failed_closed"
      BY <1>6 DEF RowNotApplied
    <2> QED
      BY <2>1
  <1>7. ASSUME NEW w \in Workers, RowClosed(w) PROVE ClosedLast'
    <2>1. /\ Ids' = Ids /\ h[w].op \in Ids /\ ops'[h[w].op].error = "failed_closed"
          /\ \A q \in Ids \ {h[w].op} : ops'[q].error = ops[q].error
      BY <1>7 DEF RowClosed
    <2>2. CASE \E e \in Ids : /\ e > h[w].op /\ ops[e].error = "failed_closed"
                              /\ \A p \in Ids : p > e => ops[p].error # "failed_closed"
      BY <2>1, <2>2
    <2>3. CASE \A p \in Ids : p > h[w].op => ops[p].error # "failed_closed"
      BY <2>1, <2>3
    <2> QED
      BY <2>1, <2>2, <2>3
  <1>8. ASSUME NEW w \in Workers, RowFailed(w) PROVE ClosedLast'
    <2>1. /\ \A q \in Ids : q \in Ids' /\ (ops'[q].error = "failed_closed"
                                             <=> ops[q].error = "failed_closed")
          /\ \A q \in Ids' \ Ids : ops'[q].error # "failed_closed"
      BY <1>8 DEF RowFailed
    <2> QED
      BY <2>1
  <1>9. ASSUME NEW w \in Workers, RowKeptOpen(w) PROVE ClosedLast'
    <2>1. /\ \A q \in Ids : q \in Ids' /\ (ops'[q].error = "failed_closed"
                                             <=> ops[q].error = "failed_closed")
          /\ \A q \in Ids' \ Ids : ops'[q].error # "failed_closed"
      BY <1>9 DEF RowKeptOpen
    <2> QED
      BY <2>1
  <1>10. ASSUME NEW o \in Ids, RowRecovered(o) PROVE ClosedLast'
    <2>1. /\ \A q \in Ids : q \in Ids' /\ (ops'[q].error = "failed_closed"
                                             <=> ops[q].error = "failed_closed")
          /\ \A q \in Ids' \ Ids : ops'[q].error # "failed_closed"
      BY <1>10 DEF RowRecovered
    <2> QED
      BY <2>1
  <1>11. ASSUME NEW o \in Ids, RowAged(o) PROVE ClosedLast'
    BY <1>11, SMTT(20) DEF RowAged
  <1> QED
    BY <1>1, <1>2, <1>3, <1>4, <1>5, <1>6, <1>7, <1>8, <1>9, <1>10, <1>11
         DEF RowStep

\* What a live handler knows of the rows stays true until it leaves: nobody
\* else writes while it has the lock.
LEMMA ClaimsStep ==
  ASSUME TypeOK, TypeOK', StepOf, Baselines, LockOfLive, Claims,
       PreviewUnwritten, [Next]_vars
  PROVE  Claims'
  <1> USE ProjectionAssumption, Rows, RowTables DEF Claims, LockOfLive, Live,
       Settled, InFlightOp, InFlight, Blocked, CoversExistingBaselines, IsV2,
       StepOf, ApplyPcs, RecoverPcs, PreviewUnwritten, SameRow, SameCall,
       Others, Moves, Leaves, Starts, Updates, SameBut, Supersedes, Inserts,
       Records
  <1>1. ASSUME NEW w \in Workers, NEW c \in Contracts, PreviewBegin(w, c)
        PROVE  Claims'
    BY <1>1, PreviewBeginEffect
  <1>2. ASSUME NEW w \in Workers, NEW o \in Ids, ApplyBegin(w, o) PROVE Claims'
    BY <1>2, ApplyBeginEffect
  <1>3. ASSUME NEW w \in Workers, PreviewInsert(w) PROVE Claims'
    BY <1>3, PreviewInsertEffect
  <1>4. ASSUME NEW w \in Workers, ApplyCheck(w) PROVE Claims'
    BY <1>4, ApplyCheckEffect
  <1>5. ASSUME NEW w \in Workers, Send(w) PROVE Claims'
    BY <1>5, SendEffect
  <1>6. ASSUME NEW w \in Workers, Receive(w) PROVE Claims'
    <2> HIDE DEF Records, Updates, Supersedes, Inserts, Moves, Leaves
    <2>1. \/ resp[w] = "ok" /\ Moves(w, "verify")
          \/ resp[w] # "ok" /\ h[w].mode = "apply" /\ Moves(w, "toFailed")
          \/ resp[w] # "ok" /\ h[w].mode # "apply" /\ Moves(w, "toRecovery")
      BY <1>6, ReceiveEffect
    <2>2. h[w].pc = "await" /\ UNCHANGED <<ops, Ids, base>>
      BY <1>6, ReceiveEffect
    <2>3. /\ h'[w].mode = h[w].mode /\ h'[w].op = h[w].op /\ h'[w].con = h[w].con
          /\ h'[w].pc \in {"verify", "toFailed", "toRecovery"} /\ UNCHANGED conn
          /\ \A v \in Workers \ {w} : h'[v] = h[v]
      BY <2>1 DEF Moves
    <2>4. \A v \in Workers \ {w} : conn[v] /\ h[v].pc # "idle" =>
              ~(conn[w] /\ h[w].pc # "idle")
      BY DEF LockOfLive
    <2>5. conn'[w] => InFlightOp(h[w].op) /\ (h[w].mode = "apply" => ~ops[h[w].op].wrote)
      BY <2>2, <2>3
    <2> SUFFICES ASSUME NEW v \in Workers, Live(v)'
                 PROVE  /\ h'[v].pc = "insert" =>
                             Settled' /\ CoversExistingBaselines(h[v].con)'
                        /\ h'[v].pc = "check" =>
                             Settled' /\ ops'[h'[v].op].status = "preview_ready"
                        /\ h'[v].mode \in {"apply", "recover"} /\ h'[v].pc # "check" =>
                             InFlightOp(h[v].op)'
                        /\ h'[v].mode = "apply" => ~ops'[h'[v].op].wrote
      OBVIOUS
    <2>6. CASE v = w
      BY <2>2, <2>3, <2>5, <2>6
    <2>7. CASE v # w
      BY <2>2, <2>3, <2>7
    <2> QED
      BY <2>6, <2>7
  <1>7. ASSUME NEW w \in Workers, VerifyTarget(w) PROVE Claims'
    BY <1>7, VerifyTargetEffect, SMTT(20)
  <1>8. ASSUME NEW w \in Workers, Persist(w) PROVE Claims'
    <2> HIDE DEF Records, Updates, Supersedes, Inserts, Moves, Leaves
    <2>1. /\ h[w].pc = "persist" /\ conn[w]
          /\ \/ Moves(w, "toRecovery") /\ UNCHANGED <<ops, Ids, base>>
             \/ Leaves(w)
      BY <1>8, PersistEffect
    <2>2. \A v \in Workers \ {w} : ~(conn[v] /\ h[v].pc # "idle")
      BY <2>1
    <2>3. CASE Leaves(w)
      <3>1. \A v \in Workers : ~(conn'[v] /\ h'[v].pc # "idle")
        BY <2>2, <2>3 DEF Leaves
      <3> QED
        BY <3>1
    <2>4. CASE Moves(w, "toRecovery") /\ UNCHANGED <<ops, Ids, base>>
      BY <2>1, <2>2, <2>4 DEF Moves
    <2> QED
      BY <2>1, <2>3, <2>4
  <1>9. ASSUME NEW w \in Workers, NEW o \in Ids, RecoverBegin(w, o) PROVE Claims'
    BY <1>9, RecoverBeginEffect
  <1>10. ASSUME NEW w \in Workers, RecoverInspect(w) PROVE Claims'
    BY <1>10, RecoverInspectEffect
  <1>11. ASSUME NEW w \in Workers, RecoverDecide(w) PROVE Claims'
    BY <1>11, RecoverDecideEffect, SMTT(20)
  <1>12. ASSUME NEW w \in Workers, VerifyClosed(w) PROVE Claims'
    BY <1>12, VerifyClosedEffect, SMTT(20)
  <1>13. ASSUME NEW w \in Workers, MarkClosed(w) PROVE Claims'
    BY <1>13, MarkClosedEffect
  <1>14. ASSUME NEW w \in Workers, MarkFailed(w) PROVE Claims'
    BY <1>14, MarkFailedEffect
  <1>15. ASSUME NEW w \in Workers, MarkRecoveryRequired(w) PROVE Claims'
    BY <1>15, MarkRecoveryRequiredEffect
  <1>16. ASSUME NEW w \in Workers, DeadSession(w) PROVE Claims'
    BY <1>16, DeadSessionEffect, SMTT(20)
  <1>17. ASSUME NEW r \in wire, HasuraApplies(r) PROVE Claims'
    BY <1>17, HasuraAppliesEffect
  <1>18. ASSUME NEW r \in wire, HasuraRejects(r) PROVE Claims'
    BY <1>18, HasuraRejectsEffect, SMTT(20)
  <1>19. ASSUME NEW r \in wire, HasuraRefuses(r) PROVE Claims'
    BY <1>19, HasuraRefusesEffect, SMTT(20)
  <1>20. ASSUME NEW w \in Workers, Timeout(w) PROVE Claims'
    <2> HIDE DEF Records, Updates, Supersedes, Inserts, Moves, Leaves
    <2>1. Moves(w, "toRecovery")
      BY <1>20, TimeoutEffect
    <2>2. h[w].pc = "await" /\ UNCHANGED <<ops, Ids, base>>
      BY <1>20, TimeoutEffect
    <2>3. /\ h'[w].mode = h[w].mode /\ h'[w].op = h[w].op /\ h'[w].con = h[w].con
          /\ h'[w].pc = "toRecovery" /\ UNCHANGED conn
          /\ \A v \in Workers \ {w} : h'[v] = h[v]
      BY <2>1 DEF Moves
    <2>4. \A v \in Workers \ {w} : conn[v] /\ h[v].pc # "idle" =>
              ~(conn[w] /\ h[w].pc # "idle")
      BY DEF LockOfLive
    <2>5. conn'[w] => InFlightOp(h[w].op) /\ (h[w].mode = "apply" => ~ops[h[w].op].wrote)
      BY <2>2, <2>3
    <2> SUFFICES ASSUME NEW v \in Workers, Live(v)'
                 PROVE  /\ h'[v].pc = "insert" =>
                             Settled' /\ CoversExistingBaselines(h[v].con)'
                        /\ h'[v].pc = "check" =>
                             Settled' /\ ops'[h'[v].op].status = "preview_ready"
                        /\ h'[v].mode \in {"apply", "recover"} /\ h'[v].pc # "check" =>
                             InFlightOp(h[v].op)'
                        /\ h'[v].mode = "apply" => ~ops'[h'[v].op].wrote
      OBVIOUS
    <2>6. CASE v = w
      BY <2>2, <2>3, <2>5, <2>6
    <2>7. CASE v # w
      BY <2>2, <2>3, <2>7
    <2> QED
      BY <2>6, <2>7
  <1>21. ASSUME NEW w \in Workers, Crash(w) PROVE Claims'
    BY <1>21, CrashEffect, SMTT(20)
  <1>22. ASSUME NEW w \in Workers, DropSession(w) PROVE Claims'
    BY <1>22, DropSessionEffect
  <1>23. ASSUME NEW w \in Workers, CommitLost(w) PROVE Claims'
    <2> HIDE DEF Records, Updates, Supersedes, Inserts, Moves, Leaves
    <2>1. h[w].pc = "persist" /\ conn[w] /\ Leaves(w)
      BY <1>23, CommitLostEffect
    <2>2. \A v \in Workers \ {w} : ~(conn[v] /\ h[v].pc # "idle")
      BY <2>1
    <2>3. \A v \in Workers : ~(conn'[v] /\ h'[v].pc # "idle")
      BY <2>1, <2>2 DEF Leaves
    <2> QED
      BY <2>3
  <1>24. ASSUME NEW w \in Workers, ExportFails(w) PROVE Claims'
    BY <1>24, ExportFailsEffect, SMTT(20)
  <1>25. ASSUME NEW o \in Ids, LeaseAges(o) PROVE Claims'
    BY <1>25, LeaseAgesEffect, SMTT(20)
  <1>26. ASSUME OtherMetadataChange PROVE Claims'
    BY <1>26, OtherMetadataChangeEffect
  <1>27. ASSUME NEW t \in Tables, ConsoleEdit(t) PROVE Claims'
    BY <1>27, ConsoleEditEffect
  <1>28. ASSUME NEW t \in Tables, DirectDdl(t) PROVE Claims'
    BY <1>28, DirectDdlEffect
  <1>29. ASSUME NEW t \in Tables, PolicyChange(t) PROVE Claims'
    BY <1>29, PolicyChangeEffect
  <1>30. ASSUME OrdinaryMutation PROVE Claims'
    BY <1>30, OrdinaryMutationEffect
  <1>31. ASSUME setProjectRuntimeContext PROVE Claims'
    BY <1>31, SetProjectRuntimeContextEffect
  <1>32. ASSUME disableProjectRuntimeContext PROVE Claims'
    BY <1>32, DisableProjectRuntimeContextEffect
  <1>33. ASSUME NEW w \in Workers, ExportRejected(w) PROVE Claims'
    BY <1>33, ExportRejectedEffect, SMTT(20)
  <1>34. CASE UNCHANGED vars
    BY <1>34 DEF vars, Ids
  <1> QED
    BY <1>1, <1>2, <1>3, <1>4, <1>5, <1>6, <1>7, <1>8, <1>9, <1>10, <1>11,
         <1>12, <1>13, <1>14, <1>15, <1>16, <1>17, <1>18, <1>19, <1>20, <1>21,
         <1>22, <1>23, <1>24, <1>25, <1>26, <1>27, <1>28, <1>29, <1>30, <1>31,
         <1>32, <1>33, <1>34 DEF Next, HandlerStep, FaultStep, HasuraStep, Environment,
         Time, Recover


-----------------------------------------------------------------------------
(* What a step does to the metadata and the baselines.                     *)

\* The ways a step changes the metadata and the baselines.
DataKept ==
  /\ UNCHANGED <<meta, version, base>> /\ outside' \in {outside, outside + 1}
  /\ misjudged \subseteq misjudged'
DataRecorded(w) == Records(w) /\ Live(w) /\ h[w].pc = "persist"
                   /\ UNCHANGED <<meta, version, outside, misjudged>>
DataApplied(r) ==
  /\ r.ver = version /\ meta' = r.meta /\ version' = version + 1
  /\ misjudged' = {t \in misjudged : r.meta.perms[t].sel = meta.perms[t].sel}
  /\ UNCHANGED <<base, outside, ops, Ids, astray>>
DataForeign ==
  /\ meta'.perms = meta.perms /\ meta'.foreign = meta.foreign + 1
  /\ version' = version + 1 /\ outside' = outside + 1 /\ UNCHANGED <<base, misjudged>>
DataEdited(t) ==
  /\ version' = version + 1 /\ outside' = outside + 1
  /\ astray' = astray \cup {t} /\ misjudged' = misjudged \ {t}
  /\ meta'.foreign = meta.foreign
  /\ meta'.perms[t].sel = "owner" /\ meta'.perms[t].grants = meta.perms[t].grants
  /\ \A u \in Tables \ {t} : meta'.perms[u] = meta.perms[u]
  /\ UNCHANGED <<base, ops, Ids>>
DataChanged(t) ==
  /\ version' = version + 1 /\ outside' = outside + 1 /\ meta'.foreign = meta.foreign
  /\ base'[t].perms.grants = base[t].perms.grants + 1
  /\ meta'.perms[t].grants = base[t].perms.grants + 1
  /\ base'[t].perms.sel = base[t].perms.sel /\ base'[t].dep = base[t].dep
  /\ meta'.perms[t].sel = meta.perms[t].sel /\ meta.perms[t].sel = base[t].perms.sel
  /\ \A u \in Tables \ {t} : meta'.perms[u] = meta.perms[u] /\ base'[u] = base[u]
  /\ UNCHANGED misjudged

\* Every step is one of them.
DataStep ==
  \/ DataKept \/ DataForeign
  \/ \E w \in Workers : DataRecorded(w)
  \/ \E r \in wire : DataApplied(r)
  \/ \E t \in Tables : DataEdited(t) \/ DataChanged(t)

\* Every step does one of these things to the metadata.
LEMMA DataSteps ==
  ASSUME TypeOK, TypeOK', StepOf, Baselines, [Next]_vars
  PROVE  DataStep
  <1>1. ASSUME NEW w \in Workers, NEW c \in Contracts, PreviewBegin(w, c)
        PROVE  DataStep
    BY <1>1, PreviewBeginEffect DEF DataStep, DataKept
  <1>2. ASSUME NEW w \in Workers, NEW o \in Ids, ApplyBegin(w, o) PROVE DataStep
    BY <1>2, ApplyBeginEffect DEF DataStep, DataKept
  <1>3. ASSUME NEW w \in Workers, PreviewInsert(w) PROVE DataStep
    BY <1>3, PreviewInsertEffect DEF DataStep, DataKept
  <1>4. ASSUME NEW w \in Workers, ApplyCheck(w) PROVE DataStep
    BY <1>4, ApplyCheckEffect DEF DataStep, DataKept
  <1>5. ASSUME NEW w \in Workers, Send(w) PROVE DataStep
    BY <1>5, SendEffect DEF DataStep, DataKept
  <1>6. ASSUME NEW w \in Workers, Receive(w) PROVE DataStep
    BY <1>6, ReceiveEffect DEF DataStep, DataKept
  <1>7. ASSUME NEW w \in Workers, VerifyTarget(w) PROVE DataStep
    BY <1>7, VerifyTargetEffect DEF DataStep, DataKept
  <1>8. ASSUME NEW w \in Workers, Persist(w) PROVE DataStep
    BY <1>8, PersistEffect DEF DataStep, DataKept, DataRecorded, Live
  <1>9. ASSUME NEW w \in Workers, NEW o \in Ids, RecoverBegin(w, o) PROVE DataStep
    BY <1>9, RecoverBeginEffect DEF DataStep, DataKept
  <1>10. ASSUME NEW w \in Workers, RecoverInspect(w) PROVE DataStep
    BY <1>10, RecoverInspectEffect DEF DataStep, DataKept
  <1>11. ASSUME NEW w \in Workers, RecoverDecide(w) PROVE DataStep
    BY <1>11, RecoverDecideEffect DEF DataStep, DataKept
  <1>12. ASSUME NEW w \in Workers, VerifyClosed(w) PROVE DataStep
    BY <1>12, VerifyClosedEffect DEF DataStep, DataKept
  <1>13. ASSUME NEW w \in Workers, MarkClosed(w) PROVE DataStep
    BY <1>13, MarkClosedEffect DEF DataStep, DataKept
  <1>14. ASSUME NEW w \in Workers, MarkFailed(w) PROVE DataStep
    BY <1>14, MarkFailedEffect DEF DataStep, DataKept
  <1>15. ASSUME NEW w \in Workers, MarkRecoveryRequired(w) PROVE DataStep
    BY <1>15, MarkRecoveryRequiredEffect DEF DataStep, DataKept
  <1>16. ASSUME NEW w \in Workers, DeadSession(w) PROVE DataStep
    BY <1>16, DeadSessionEffect DEF DataStep, DataKept
  <1>17. ASSUME NEW r \in wire, HasuraApplies(r) PROVE DataStep
    BY <1>17, HasuraAppliesEffect DEF DataStep, DataApplied
  <1>18. ASSUME NEW r \in wire, HasuraRejects(r) PROVE DataStep
    BY <1>18, HasuraRejectsEffect DEF DataStep, DataKept
  <1>19. ASSUME NEW r \in wire, HasuraRefuses(r) PROVE DataStep
    BY <1>19, HasuraRefusesEffect DEF DataStep, DataKept
  <1>20. ASSUME NEW w \in Workers, Timeout(w) PROVE DataStep
    BY <1>20, TimeoutEffect DEF DataStep, DataKept
  <1>21. ASSUME NEW w \in Workers, Crash(w) PROVE DataStep
    BY <1>21, CrashEffect DEF DataStep, DataKept
  <1>22. ASSUME NEW w \in Workers, DropSession(w) PROVE DataStep
    BY <1>22, DropSessionEffect DEF DataStep, DataKept
  <1>23. ASSUME NEW w \in Workers, CommitLost(w) PROVE DataStep
    BY <1>23, CommitLostEffect DEF DataStep, DataKept, DataRecorded, Live
  <1>24. ASSUME NEW w \in Workers, ExportFails(w) PROVE DataStep
    BY <1>24, ExportFailsEffect DEF DataStep, DataKept
  <1>25. ASSUME NEW o \in Ids, LeaseAges(o) PROVE DataStep
    BY <1>25, LeaseAgesEffect DEF DataStep, DataKept
  <1>26. ASSUME OtherMetadataChange PROVE DataStep
    BY <1>26, OtherMetadataChangeEffect DEF DataStep, DataForeign
  <1>27. ASSUME NEW t \in Tables, ConsoleEdit(t) PROVE DataStep
    BY <1>27, ConsoleEditEffect DEF DataStep, DataEdited
  <1>28. ASSUME NEW t \in Tables, DirectDdl(t) PROVE DataStep
    BY <1>28, DirectDdlEffect DEF DataStep, DataKept
  <1>29. ASSUME NEW t \in Tables, PolicyChange(t) PROVE DataStep
    BY <1>29, PolicyChangeEffect DEF DataStep, DataChanged
  <1>30. ASSUME OrdinaryMutation PROVE DataStep
    BY <1>30, OrdinaryMutationEffect DEF DataStep, DataKept
  <1>31. ASSUME setProjectRuntimeContext PROVE DataStep
    BY <1>31, SetProjectRuntimeContextEffect DEF DataStep, DataKept
  <1>32. ASSUME disableProjectRuntimeContext PROVE DataStep
    BY <1>32, DisableProjectRuntimeContextEffect DEF DataStep, DataKept
  <1>33. ASSUME NEW w \in Workers, ExportRejected(w) PROVE DataStep
    BY <1>33, ExportRejectedEffect DEF DataStep, DataKept
  <1>34. CASE UNCHANGED vars
    BY <1>34 DEF vars, DataStep, DataKept
  <1> QED
    BY <1>1, <1>2, <1>3, <1>4, <1>5, <1>6, <1>7, <1>8, <1>9, <1>10, <1>11,
         <1>12, <1>13, <1>14, <1>15, <1>16, <1>17, <1>18, <1>19, <1>20, <1>21,
         <1>22, <1>23, <1>24, <1>25, <1>26, <1>27, <1>28, <1>29, <1>30, <1>31,
         <1>32, <1>33, <1>34 DEF Next, HandlerStep, FaultStep, HasuraStep, Environment,
         Time, Recover

\* The grants of a baseline are those that Hasura enforces.
LEMMA BaselinesStep ==
  ASSUME TypeOK, TypeOK', StepOf, Baselines, WireCopies, Requests, DataStep
  PROVE  Baselines'
  <1> USE Numbers, RowTables DEF Baselines
  <1>1. ASSUME DataKept PROVE Baselines'
    BY <1>1 DEF DataKept
  <1>2. ASSUME DataForeign PROVE Baselines'
    BY <1>2 DEF DataForeign
  <1>3. ASSUME NEW w \in Workers, DataRecorded(w) PROVE Baselines'
    BY <1>3 DEF DataRecorded, Records
  <1>4. ASSUME NEW r \in wire, DataApplied(r) PROVE Baselines'
    <2>1. r.meta \in {TargetMetadata(meta, ops[r.op].con), FailClosed(meta, ops[r.op].con)}
          /\ ops[r.op].con \in Contracts
      BY <1>4 DEF DataApplied, WireCopies, Requests, RequestRows
    <2>2. \A t \in Tables : r.meta.perms[t].grants = meta.perms[t].grants
      BY <2>1, Rewritten
    <2> QED
      BY <1>4, <2>2 DEF DataApplied
  <1>5. ASSUME NEW t \in Tables, DataEdited(t) PROVE Baselines'
    BY <1>5 DEF DataEdited
  <1>6. ASSUME NEW t \in Tables, DataChanged(t) PROVE Baselines'
    BY <1>6 DEF DataChanged
  <1> QED
    BY <1>1, <1>2, <1>3, <1>4, <1>5, <1>6 DEF DataStep


\* The version moves with every change of the metadata.
LEMMA VersionStep ==
  ASSUME DataStep
  PROVE  UNCHANGED <<meta, version>> \/ version' = version + 1
  BY DEF DataStep, DataKept, DataForeign, DataRecorded, DataApplied, DataEdited,
         DataChanged


\* A handler keeps its copy of the metadata, forgets it or takes a new one.
HandlerCopied ==
  \A v \in Workers : \/ h'[v].ver = 0
                     \/ h'[v].ver = h[v].ver /\ h'[v].meta = h[v].meta
                     \/ /\ h'[v].ver = version /\ h'[v].meta = meta
                        /\ UNCHANGED <<meta, version>>
\* An apply past its check is at the version of its row.
ApplyCopied ==
  \A w \in Workers : h[w].mode = "apply" /\ h[w].pc # "check"
       => h[w].ver = ops[h[w].op].ver

\* A handler keeps its copy, forgets it or takes a new one.
LEMMA HandlerCopies ==
  ASSUME TypeOK, TypeOK', StepOf, Baselines, [Next]_vars
  PROVE  HandlerCopied
  <1> USE ProjectionAssumption, Rows DEF HandlerCopied, SameCall, Others, Moves,
       Leaves, Starts
  <1>1. ASSUME NEW w \in Workers, NEW c \in Contracts, PreviewBegin(w, c)
        PROVE  HandlerCopied
    BY <1>1, PreviewBeginEffect
  <1>2. ASSUME NEW w \in Workers, NEW o \in Ids, ApplyBegin(w, o)
        PROVE  HandlerCopied
    BY <1>2, ApplyBeginEffect
  <1>3. ASSUME NEW w \in Workers, PreviewInsert(w) PROVE HandlerCopied
    BY <1>3, PreviewInsertEffect
  <1>4. ASSUME NEW w \in Workers, ApplyCheck(w) PROVE HandlerCopied
    BY <1>4, ApplyCheckEffect
  <1>5. ASSUME NEW w \in Workers, Send(w) PROVE HandlerCopied
    BY <1>5, SendEffect
  <1>6. ASSUME NEW w \in Workers, Receive(w) PROVE HandlerCopied
    BY <1>6, ReceiveEffect
  <1>7. ASSUME NEW w \in Workers, VerifyTarget(w) PROVE HandlerCopied
    BY <1>7, VerifyTargetEffect
  <1>8. ASSUME NEW w \in Workers, Persist(w) PROVE HandlerCopied
    BY <1>8, PersistEffect
  <1>9. ASSUME NEW w \in Workers, NEW o \in Ids, RecoverBegin(w, o)
        PROVE  HandlerCopied
    BY <1>9, RecoverBeginEffect
  <1>10. ASSUME NEW w \in Workers, RecoverInspect(w) PROVE HandlerCopied
    BY <1>10, RecoverInspectEffect
  <1>11. ASSUME NEW w \in Workers, RecoverDecide(w) PROVE HandlerCopied
    BY <1>11, RecoverDecideEffect
  <1>12. ASSUME NEW w \in Workers, VerifyClosed(w) PROVE HandlerCopied
    BY <1>12, VerifyClosedEffect
  <1>13. ASSUME NEW w \in Workers, MarkClosed(w) PROVE HandlerCopied
    BY <1>13, MarkClosedEffect
  <1>14. ASSUME NEW w \in Workers, MarkFailed(w) PROVE HandlerCopied
    BY <1>14, MarkFailedEffect
  <1>15. ASSUME NEW w \in Workers, MarkRecoveryRequired(w) PROVE HandlerCopied
    BY <1>15, MarkRecoveryRequiredEffect
  <1>16. ASSUME NEW w \in Workers, DeadSession(w) PROVE HandlerCopied
    BY <1>16, DeadSessionEffect
  <1>17. ASSUME NEW r \in wire, HasuraApplies(r) PROVE HandlerCopied
    BY <1>17, HasuraAppliesEffect
  <1>18. ASSUME NEW r \in wire, HasuraRejects(r) PROVE HandlerCopied
    BY <1>18, HasuraRejectsEffect
  <1>19. ASSUME NEW r \in wire, HasuraRefuses(r) PROVE HandlerCopied
    BY <1>19, HasuraRefusesEffect
  <1>20. ASSUME NEW w \in Workers, Timeout(w) PROVE HandlerCopied
    BY <1>20, TimeoutEffect
  <1>21. ASSUME NEW w \in Workers, Crash(w) PROVE HandlerCopied
    BY <1>21, CrashEffect
  <1>22. ASSUME NEW w \in Workers, DropSession(w) PROVE HandlerCopied
    BY <1>22, DropSessionEffect
  <1>23. ASSUME NEW w \in Workers, CommitLost(w) PROVE HandlerCopied
    BY <1>23, CommitLostEffect
  <1>24. ASSUME NEW w \in Workers, ExportFails(w) PROVE HandlerCopied
    BY <1>24, ExportFailsEffect
  <1>25. ASSUME NEW o \in Ids, LeaseAges(o) PROVE HandlerCopied
    BY <1>25, LeaseAgesEffect
  <1>26. ASSUME OtherMetadataChange PROVE HandlerCopied
    BY <1>26, OtherMetadataChangeEffect
  <1>27. ASSUME NEW t \in Tables, ConsoleEdit(t) PROVE HandlerCopied
    BY <1>27, ConsoleEditEffect
  <1>28. ASSUME NEW t \in Tables, DirectDdl(t) PROVE HandlerCopied
    BY <1>28, DirectDdlEffect
  <1>29. ASSUME NEW t \in Tables, PolicyChange(t) PROVE HandlerCopied
    BY <1>29, PolicyChangeEffect
  <1>30. ASSUME OrdinaryMutation PROVE HandlerCopied
    BY <1>30, OrdinaryMutationEffect
  <1>31. ASSUME setProjectRuntimeContext PROVE HandlerCopied
    BY <1>31, SetProjectRuntimeContextEffect
  <1>32. ASSUME disableProjectRuntimeContext PROVE HandlerCopied
    BY <1>32, DisableProjectRuntimeContextEffect
  <1>33. ASSUME NEW w \in Workers, ExportRejected(w) PROVE HandlerCopied
    BY <1>33, ExportRejectedEffect
  <1>34. CASE UNCHANGED vars
    BY <1>34 DEF vars
  <1> QED
    BY <1>1, <1>2, <1>3, <1>4, <1>5, <1>6, <1>7, <1>8, <1>9, <1>10, <1>11,
         <1>12, <1>13, <1>14, <1>15, <1>16, <1>17, <1>18, <1>19, <1>20, <1>21,
         <1>22, <1>23, <1>24, <1>25, <1>26, <1>27, <1>28, <1>29, <1>30, <1>31,
         <1>32, <1>33, <1>34 DEF Next, HandlerStep, FaultStep, HasuraStep, Environment,
         Time, Recover

\* An apply past its check is at the version of its row.
LEMMA ApplyCopiedStep ==
  ASSUME TypeOK, TypeOK', StepOf, Baselines, ApplyCopied, [Next]_vars
  PROVE  ApplyCopied'
  <1> USE ProjectionAssumption, Rows DEF ApplyCopied, SourceUnchanged,
       ApplyAdmits, Op, StepOf, ApplyPcs, RecoverPcs, SameCall, Others, Moves,
       Leaves, Starts
  <1>0. \A q \in Ids : ops'[q].ver = ops[q].ver
    BY RowsStay DEF SameRow
  <1>1. ASSUME NEW w \in Workers, NEW c \in Contracts, PreviewBegin(w, c)
        PROVE  ApplyCopied'
    BY <1>1, <1>0, PreviewBeginEffect
  <1>2. ASSUME NEW w \in Workers, NEW o \in Ids, ApplyBegin(w, o) PROVE ApplyCopied'
    BY <1>2, <1>0, ApplyBeginEffect
  <1>3. ASSUME NEW w \in Workers, PreviewInsert(w) PROVE ApplyCopied'
    BY <1>3, <1>0, PreviewInsertEffect
  <1>4. ASSUME NEW w \in Workers, ApplyCheck(w) PROVE ApplyCopied'
    BY <1>4, <1>0, ApplyCheckEffect
  <1>5. ASSUME NEW w \in Workers, Send(w) PROVE ApplyCopied'
    BY <1>5, <1>0, SendEffect, SMTT(20)
  <1>6. ASSUME NEW w \in Workers, Receive(w) PROVE ApplyCopied'
    BY <1>6, <1>0, ReceiveEffect
  <1>7. ASSUME NEW w \in Workers, VerifyTarget(w) PROVE ApplyCopied'
    BY <1>7, <1>0, VerifyTargetEffect
  <1>8. ASSUME NEW w \in Workers, Persist(w) PROVE ApplyCopied'
    BY <1>8, <1>0, PersistEffect
  <1>9. ASSUME NEW w \in Workers, NEW o \in Ids, RecoverBegin(w, o)
        PROVE  ApplyCopied'
    BY <1>9, <1>0, RecoverBeginEffect
  <1>10. ASSUME NEW w \in Workers, RecoverInspect(w) PROVE ApplyCopied'
    BY <1>10, <1>0, RecoverInspectEffect, SMTT(20)
  <1>11. ASSUME NEW w \in Workers, RecoverDecide(w) PROVE ApplyCopied'
    BY <1>11, <1>0, RecoverDecideEffect, SMTT(20)
  <1>12. ASSUME NEW w \in Workers, VerifyClosed(w) PROVE ApplyCopied'
    BY <1>12, <1>0, VerifyClosedEffect, SMTT(20)
  <1>13. ASSUME NEW w \in Workers, MarkClosed(w) PROVE ApplyCopied'
    BY <1>13, <1>0, MarkClosedEffect
  <1>14. ASSUME NEW w \in Workers, MarkFailed(w) PROVE ApplyCopied'
    BY <1>14, <1>0, MarkFailedEffect
  <1>15. ASSUME NEW w \in Workers, MarkRecoveryRequired(w) PROVE ApplyCopied'
    BY <1>15, <1>0, MarkRecoveryRequiredEffect
  <1>16. ASSUME NEW w \in Workers, DeadSession(w) PROVE ApplyCopied'
    BY <1>16, <1>0, DeadSessionEffect
  <1>17. ASSUME NEW r \in wire, HasuraApplies(r) PROVE ApplyCopied'
    BY <1>17, <1>0, HasuraAppliesEffect
  <1>18. ASSUME NEW r \in wire, HasuraRejects(r) PROVE ApplyCopied'
    BY <1>18, <1>0, HasuraRejectsEffect
  <1>19. ASSUME NEW r \in wire, HasuraRefuses(r) PROVE ApplyCopied'
    BY <1>19, <1>0, HasuraRefusesEffect
  <1>20. ASSUME NEW w \in Workers, Timeout(w) PROVE ApplyCopied'
    BY <1>20, <1>0, TimeoutEffect
  <1>21. ASSUME NEW w \in Workers, Crash(w) PROVE ApplyCopied'
    BY <1>21, <1>0, CrashEffect
  <1>22. ASSUME NEW w \in Workers, DropSession(w) PROVE ApplyCopied'
    BY <1>22, <1>0, DropSessionEffect
  <1>23. ASSUME NEW w \in Workers, CommitLost(w) PROVE ApplyCopied'
    BY <1>23, <1>0, CommitLostEffect
  <1>24. ASSUME NEW w \in Workers, ExportFails(w) PROVE ApplyCopied'
    BY <1>24, <1>0, ExportFailsEffect
  <1>25. ASSUME NEW o \in Ids, LeaseAges(o) PROVE ApplyCopied'
    BY <1>25, <1>0, LeaseAgesEffect
  <1>26. ASSUME OtherMetadataChange PROVE ApplyCopied'
    BY <1>26, <1>0, OtherMetadataChangeEffect
  <1>27. ASSUME NEW t \in Tables, ConsoleEdit(t) PROVE ApplyCopied'
    BY <1>27, <1>0, ConsoleEditEffect
  <1>28. ASSUME NEW t \in Tables, DirectDdl(t) PROVE ApplyCopied'
    BY <1>28, <1>0, DirectDdlEffect
  <1>29. ASSUME NEW t \in Tables, PolicyChange(t) PROVE ApplyCopied'
    BY <1>29, <1>0, PolicyChangeEffect
  <1>30. ASSUME OrdinaryMutation PROVE ApplyCopied'
    BY <1>30, <1>0, OrdinaryMutationEffect
  <1>31. ASSUME setProjectRuntimeContext PROVE ApplyCopied'
    BY <1>31, <1>0, SetProjectRuntimeContextEffect
  <1>32. ASSUME disableProjectRuntimeContext PROVE ApplyCopied'
    BY <1>32, <1>0, DisableProjectRuntimeContextEffect
  <1>33. ASSUME NEW w \in Workers, ExportRejected(w) PROVE ApplyCopied'
    BY <1>33, <1>0, ExportRejectedEffect
  <1>34. CASE UNCHANGED vars
    BY <1>34 DEF vars, Ids
  <1> QED
    BY <1>1, <1>2, <1>3, <1>4, <1>5, <1>6, <1>7, <1>8, <1>9, <1>10, <1>11,
         <1>12, <1>13, <1>14, <1>15, <1>16, <1>17, <1>18, <1>19, <1>20, <1>21,
         <1>22, <1>23, <1>24, <1>25, <1>26, <1>27, <1>28, <1>29, <1>30, <1>31,
         <1>32, <1>33, <1>34 DEF Next, HandlerStep, FaultStep, HasuraStep, Environment,
         Time, Recover


\* The rows keep what they were made from.
RowsSame == Ids' = Ids /\ \A o \in Ids : SameRow(ops'[o], ops[o])

\* The rows keep what they were made from, or a preview is added.
LEMMA RowsSameOrNew ==
  ASSUME TypeOK, StepOf, RowStep
  PROVE  RowsSame \/ \E v \in Workers, m \in Nat : RowInserted(v, m)
  <1> USE Rows DEF RowsSame, SameRow, Updates, SameBut, Supersedes, Inserts,
       Records
  <1>1. ASSUME RowsKept
        PROVE  RowsSame \/ \E v \in Workers, m \in Nat : RowInserted(v, m)
    BY <1>1 DEF RowsKept
  <1>2. ASSUME RowsSuperseded
        PROVE  RowsSame \/ \E v \in Workers, m \in Nat : RowInserted(v, m)
    BY <1>2 DEF RowsSuperseded
  <1>3. ASSUME NEW w \in Workers, NEW n \in Nat, RowInserted(w, n)
        PROVE  RowsSame \/ \E v \in Workers, m \in Nat : RowInserted(v, m)
    BY <1>3
  <1>4. ASSUME NEW w \in Workers, RowClaimed(w)
        PROVE  RowsSame \/ \E v \in Workers, m \in Nat : RowInserted(v, m)
    BY <1>4 DEF RowClaimed
  <1>5. ASSUME NEW w \in Workers, RowRecorded(w)
        PROVE  RowsSame \/ \E v \in Workers, m \in Nat : RowInserted(v, m)
    BY <1>5 DEF RowRecorded
  <1>6. ASSUME NEW w \in Workers, RowNotApplied(w)
        PROVE  RowsSame \/ \E v \in Workers, m \in Nat : RowInserted(v, m)
    BY <1>6 DEF RowNotApplied
  <1>7. ASSUME NEW w \in Workers, RowClosed(w)
        PROVE  RowsSame \/ \E v \in Workers, m \in Nat : RowInserted(v, m)
    BY <1>7 DEF RowClosed
  <1>8. ASSUME NEW w \in Workers, RowFailed(w)
        PROVE  RowsSame \/ \E v \in Workers, m \in Nat : RowInserted(v, m)
    BY <1>8 DEF RowFailed
  <1>9. ASSUME NEW w \in Workers, RowKeptOpen(w)
        PROVE  RowsSame \/ \E v \in Workers, m \in Nat : RowInserted(v, m)
    BY <1>9 DEF RowKeptOpen
  <1>10. ASSUME NEW o \in Ids, RowRecovered(o)
        PROVE  RowsSame \/ \E v \in Workers, m \in Nat : RowInserted(v, m)
    BY <1>10 DEF RowRecovered
  <1>11. ASSUME NEW o \in Ids, RowAged(o)
        PROVE  RowsSame \/ \E v \in Workers, m \in Nat : RowInserted(v, m)
    BY <1>11 DEF RowAged
  <1> QED
    BY <1>1, <1>2, <1>3, <1>4, <1>5, <1>6, <1>7, <1>8, <1>9, <1>10, <1>11
         DEF RowStep


\* A copy of the metadata at the current version is the metadata.
LEMMA CopiesStep ==
  ASSUME TypeOK, TypeOK', StepOf, Copies, ApplyCopied', RowStep, DataStep, HandlerCopied
  PROVE  Copies'
  <1>1. version \in Nat /\ version > 0 /\ (UNCHANGED <<meta, version>> \/ version' = version + 1)
    BY Numbers, VersionStep DEF Copies
  <1>2. /\ \A w \in Workers : h[w].ver \in Nat /\ h[w].ver <= version
                              /\ (h[w].ver = version => h[w].meta = meta)
        /\ \A o \in Ids : ops[o].ver \in Nat /\ ops[o].ver <= version
                          /\ (ops[o].ver = version => ops[o].src = meta)
    BY Numbers DEF Copies
  <1>3. \A w \in Workers : h'[w].ver <= version' /\ (h'[w].ver = version' =>
            h'[w].meta = meta')
    BY <1>1, <1>2 DEF HandlerCopied
  <1>4. CASE RowsSame
    <2>1. \A o \in Ids' : ops'[o].ver <= version' /\ (ops'[o].ver = version' =>
              ops'[o].src = meta')
      BY <1>1, <1>2, <1>4 DEF RowsSame, SameRow
    <2> QED
      BY <1>1, <1>3, <2>1 DEF Copies, ApplyCopied
  <1>5. ASSUME NEW w \in Workers, NEW n \in Nat, RowInserted(w, n)
        PROVE  Copies'
    <2>1. /\ Ids' = Ids \cup {n} /\ ops'[n].ver = h[w].ver /\ ops'[n].src = h[w].meta
          /\ \A o \in Ids : ops'[o].ver = ops[o].ver /\ ops'[o].src = ops[o].src
      BY <1>5 DEF RowInserted, Inserts, SameBut, SameRow
    <2>2. \A o \in Ids' : ops'[o].ver <= version' /\ (ops'[o].ver = version' =>
              ops'[o].src = meta')
      BY <1>1, <1>2, <2>1
    <2> QED
      BY <1>1, <1>3, <2>2 DEF Copies, ApplyCopied
  <1>6. RowsSame \/ \E w \in Workers, n \in Nat : RowInserted(w, n)
    BY RowsSameOrNew
  <1> QED
    BY <1>4, <1>5, <1>6


-----------------------------------------------------------------------------
(* Requests under way.                                                     *)

\* Requests are answered or lost; or one is sent under a live lease.
WireKept ==
  \A q \in wire' : \E r \in wire : q.op = r.op /\ q.ver = r.ver /\ q.meta = r.meta
WireSent(w) ==
  /\ h[w].pc = "send" /\ conn[w] /\ HoldsLease(w)
  /\ \E r \in Request :
       /\ wire' = wire \cup {r} /\ r.w = w /\ r.op = h[w].op /\ r.ver = h[w].ver
       /\ r.meta = IF h[w].mode = "apply" THEN TargetMetadata(Op(w).src, h[w].con)
                   ELSE FailClosed(h[w].meta, h[w].con)
  /\ UNCHANGED <<meta, version, ops, Ids>>
WireStep == WireKept \/ \E w \in Workers : WireSent(w)

\* A request is sent by a handler with a live lease, or is one that was under
\* way.
LEMMA WireSteps ==
  ASSUME TypeOK, TypeOK', StepOf, Baselines, [Next]_vars
  PROVE  WireStep
  <1>1. ASSUME NEW w \in Workers, NEW c \in Contracts, PreviewBegin(w, c)
        PROVE  WireStep
    BY <1>1, PreviewBeginEffect DEF WireStep, WireKept
  <1>2. ASSUME NEW w \in Workers, NEW o \in Ids, ApplyBegin(w, o) PROVE WireStep
    BY <1>2, ApplyBeginEffect DEF WireStep, WireKept
  <1>3. ASSUME NEW w \in Workers, PreviewInsert(w) PROVE WireStep
    BY <1>3, PreviewInsertEffect DEF WireStep, WireKept
  <1>4. ASSUME NEW w \in Workers, ApplyCheck(w) PROVE WireStep
    BY <1>4, ApplyCheckEffect DEF WireStep, WireKept
  <1>5. ASSUME NEW w \in Workers, Send(w) PROVE WireStep
    BY <1>5, SendEffect DEF WireStep, WireKept, WireSent
  <1>6. ASSUME NEW w \in Workers, Receive(w) PROVE WireStep
    BY <1>6, ReceiveEffect DEF WireStep, WireKept
  <1>7. ASSUME NEW w \in Workers, VerifyTarget(w) PROVE WireStep
    BY <1>7, VerifyTargetEffect DEF WireStep, WireKept
  <1>8. ASSUME NEW w \in Workers, Persist(w) PROVE WireStep
    BY <1>8, PersistEffect DEF WireStep, WireKept
  <1>9. ASSUME NEW w \in Workers, NEW o \in Ids, RecoverBegin(w, o) PROVE WireStep
    BY <1>9, RecoverBeginEffect DEF WireStep, WireKept
  <1>10. ASSUME NEW w \in Workers, RecoverInspect(w) PROVE WireStep
    BY <1>10, RecoverInspectEffect DEF WireStep, WireKept
  <1>11. ASSUME NEW w \in Workers, RecoverDecide(w) PROVE WireStep
    BY <1>11, RecoverDecideEffect DEF WireStep, WireKept
  <1>12. ASSUME NEW w \in Workers, VerifyClosed(w) PROVE WireStep
    BY <1>12, VerifyClosedEffect DEF WireStep, WireKept
  <1>13. ASSUME NEW w \in Workers, MarkClosed(w) PROVE WireStep
    BY <1>13, MarkClosedEffect DEF WireStep, WireKept
  <1>14. ASSUME NEW w \in Workers, MarkFailed(w) PROVE WireStep
    BY <1>14, MarkFailedEffect DEF WireStep, WireKept
  <1>15. ASSUME NEW w \in Workers, MarkRecoveryRequired(w) PROVE WireStep
    BY <1>15, MarkRecoveryRequiredEffect DEF WireStep, WireKept
  <1>16. ASSUME NEW w \in Workers, DeadSession(w) PROVE WireStep
    BY <1>16, DeadSessionEffect DEF WireStep, WireKept
  <1>17. ASSUME NEW r \in wire, HasuraApplies(r) PROVE WireStep
    BY <1>17, HasuraAppliesEffect DEF WireStep, WireKept
  <1>18. ASSUME NEW r \in wire, HasuraRejects(r) PROVE WireStep
    BY <1>18, HasuraRejectsEffect DEF WireStep, WireKept
  <1>19. ASSUME NEW r \in wire, HasuraRefuses(r) PROVE WireStep
    BY <1>19, HasuraRefusesEffect DEF WireStep, WireKept
  <1>20. ASSUME NEW w \in Workers, Timeout(w) PROVE WireStep
    BY <1>20, TimeoutEffect DEF WireStep, WireKept
  <1>21. ASSUME NEW w \in Workers, Crash(w) PROVE WireStep
    BY <1>21, CrashEffect DEF WireStep, WireKept
  <1>22. ASSUME NEW w \in Workers, DropSession(w) PROVE WireStep
    BY <1>22, DropSessionEffect DEF WireStep, WireKept
  <1>23. ASSUME NEW w \in Workers, CommitLost(w) PROVE WireStep
    BY <1>23, CommitLostEffect DEF WireStep, WireKept
  <1>24. ASSUME NEW w \in Workers, ExportFails(w) PROVE WireStep
    BY <1>24, ExportFailsEffect DEF WireStep, WireKept
  <1>25. ASSUME NEW o \in Ids, LeaseAges(o) PROVE WireStep
    BY <1>25, LeaseAgesEffect DEF WireStep, WireKept
  <1>26. ASSUME OtherMetadataChange PROVE WireStep
    BY <1>26, OtherMetadataChangeEffect DEF WireStep, WireKept
  <1>27. ASSUME NEW t \in Tables, ConsoleEdit(t) PROVE WireStep
    BY <1>27, ConsoleEditEffect DEF WireStep, WireKept
  <1>28. ASSUME NEW t \in Tables, DirectDdl(t) PROVE WireStep
    BY <1>28, DirectDdlEffect DEF WireStep, WireKept
  <1>29. ASSUME NEW t \in Tables, PolicyChange(t) PROVE WireStep
    BY <1>29, PolicyChangeEffect DEF WireStep, WireKept
  <1>30. ASSUME OrdinaryMutation PROVE WireStep
    BY <1>30, OrdinaryMutationEffect DEF WireStep, WireKept
  <1>31. ASSUME setProjectRuntimeContext PROVE WireStep
    BY <1>31, SetProjectRuntimeContextEffect DEF WireStep, WireKept
  <1>32. ASSUME disableProjectRuntimeContext PROVE WireStep
    BY <1>32, DisableProjectRuntimeContextEffect DEF WireStep, WireKept
  <1>33. ASSUME NEW w \in Workers, ExportRejected(w) PROVE WireStep
    BY <1>33, ExportRejectedEffect DEF WireStep, WireKept
  <1>34. CASE UNCHANGED vars
    BY <1>34 DEF vars, WireStep, WireKept
  <1> QED
    BY <1>1, <1>2, <1>3, <1>4, <1>5, <1>6, <1>7, <1>8, <1>9, <1>10, <1>11,
         <1>12, <1>13, <1>14, <1>15, <1>16, <1>17, <1>18, <1>19, <1>20, <1>21,
         <1>22, <1>23, <1>24, <1>25, <1>26, <1>27, <1>28, <1>29, <1>30, <1>31,
         <1>32, <1>33, <1>34 DEF Next, HandlerStep, FaultStep, HasuraStep, Environment,
         Time, Recover


\* A request under way rewrites the metadata it was made from.
LEMMA WireCopiesStep ==
  ASSUME TypeOK, TypeOK', StepOf, Baselines, WireCopies, Requests, Copies, WireStep,
         DataStep, [Next]_vars
  PROVE  WireCopies'
  <1>1. version \in Nat /\ (UNCHANGED <<meta, version>> \/ version' = version + 1)
    BY Numbers, VersionStep
  <1>2. \A o \in Ids : ops'[o].con = ops[o].con
    BY RowsStay DEF SameRow
  <1>3. CASE WireKept
    <2> SUFFICES ASSUME NEW q \in wire'
                 PROVE  /\ q.ver <= version'
                        /\ q.ver = version' =>
                             q.meta \in {TargetMetadata(meta', ops'[q.op].con),
                                         FailClosed(meta', ops'[q.op].con)}
      BY DEF WireCopies, TargetMetadata, FailClosed
    <2>1. PICK r \in wire : q.op = r.op /\ q.ver = r.ver /\ q.meta = r.meta
      BY <1>3 DEF WireKept
    <2>2. /\ r.ver \in Nat /\ r.ver <= version /\ r.op \in Ids
          /\ r.ver = version => r.meta \in {TargetMetadata(meta, ops[r.op].con),
                                            FailClosed(meta, ops[r.op].con)}
      BY Numbers DEF WireCopies, Requests, RequestRows
    <2> QED
      BY <1>1, <1>2, <2>1, <2>2
  <1>4. ASSUME NEW w \in Workers, WireSent(w)
        PROVE  WireCopies'
    <2>1. PICK r \in Request :
             /\ wire' = wire \cup {r} /\ r.op = h[w].op /\ r.ver = h[w].ver
             /\ r.meta = IF h[w].mode = "apply" THEN TargetMetadata(Op(w).src, h[w].con)
                         ELSE FailClosed(h[w].meta, h[w].con)
      BY <1>4 DEF WireSent
    <2>2. /\ h[w].op \in Ids /\ h[w].con = ops[h[w].op].con /\ h[w].pc = "send"
          /\ h[w].mode \in {"apply", "recover"} /\ UNCHANGED <<meta, version, ops>>
      BY <1>4 DEF WireSent, StepOf
    <2>3. h[w].ver <= version
      BY DEF Copies
    <2>4. h[w].ver = version /\ h[w].mode = "apply" => Op(w).src = meta
      BY <2>2 DEF Copies, Op
    <2>5. h[w].ver = version => h[w].meta = meta
      BY DEF Copies
    <2>6. r.ver = version => r.meta \in {TargetMetadata(meta, ops[r.op].con),
                                         FailClosed(meta, ops[r.op].con)}
      BY <2>1, <2>2, <2>4, <2>5
    <2> SUFFICES ASSUME NEW q \in wire'
                 PROVE  /\ q.ver <= version'
                        /\ q.ver = version' =>
                             q.meta \in {TargetMetadata(meta', ops'[q.op].con),
                                         FailClosed(meta', ops'[q.op].con)}
      BY DEF WireCopies, TargetMetadata, FailClosed
    <2>7. CASE q = r
      BY <2>1, <2>2, <2>3, <2>6, <2>7
    <2>8. CASE q \in wire
      BY <2>2, <2>8 DEF WireCopies
    <2> QED
      BY <2>1, <2>7, <2>8
  <1> QED
    BY <1>3, <1>4 DEF WireStep

\* A row that a request is under way for stays in flight: its handler is not
\* done, and nobody claims it.
LEMMA WritingRows ==
  ASSUME TypeOK, StepOf, Claims, Requests, RowStep
  PROVE  \A q \in Ids : Writing(q) =>
           q \in Ids' /\ InFlightOp(q)' /\ ops'[q].lease \in {"live", "expired"}
  <1> USE Rows DEF Requests, RequestRows, LiveAlone, Live, Claims, Writing,
       Settled, StepOf, ApplyPcs, RecoverPcs, InFlight, Active, InFlightOp,
       SameRow, Updates, SameBut, Supersedes, Inserts, Records
  <1>1. ASSUME RowsKept
        PROVE  \A q \in Ids : Writing(q) =>
                 q \in Ids' /\ InFlightOp(q)' /\ ops'[q].lease \in {"live", "expired"}
    BY <1>1 DEF RowsKept
  <1>2. ASSUME RowsSuperseded
        PROVE  \A q \in Ids : Writing(q) =>
                 q \in Ids' /\ InFlightOp(q)' /\ ops'[q].lease \in {"live", "expired"}
    BY <1>2 DEF RowsSuperseded
  <1>3. ASSUME NEW w \in Workers, NEW n \in Nat, RowInserted(w, n)
        PROVE  \A q \in Ids : Writing(q) =>
                 q \in Ids' /\ InFlightOp(q)' /\ ops'[q].lease \in {"live", "expired"}
    BY <1>3 DEF RowInserted
  <1>4. ASSUME NEW w \in Workers, RowClaimed(w)
        PROVE  \A q \in Ids : Writing(q) =>
                 q \in Ids' /\ InFlightOp(q)' /\ ops'[q].lease \in {"live", "expired"}
    BY <1>4 DEF RowClaimed
  <1>5. ASSUME NEW w \in Workers, RowRecorded(w)
        PROVE  \A q \in Ids : Writing(q) =>
                 q \in Ids' /\ InFlightOp(q)' /\ ops'[q].lease \in {"live", "expired"}
    BY <1>5 DEF RowRecorded
  <1>6. ASSUME NEW w \in Workers, RowNotApplied(w)
        PROVE  \A q \in Ids : Writing(q) =>
                 q \in Ids' /\ InFlightOp(q)' /\ ops'[q].lease \in {"live", "expired"}
    BY <1>6 DEF RowNotApplied
  <1>7. ASSUME NEW w \in Workers, RowClosed(w)
        PROVE  \A q \in Ids : Writing(q) =>
                 q \in Ids' /\ InFlightOp(q)' /\ ops'[q].lease \in {"live", "expired"}
    BY <1>7 DEF RowClosed
  <1>8. ASSUME NEW w \in Workers, RowFailed(w)
        PROVE  \A q \in Ids : Writing(q) =>
                 q \in Ids' /\ InFlightOp(q)' /\ ops'[q].lease \in {"live", "expired"}
    BY <1>8 DEF RowFailed
  <1>9. ASSUME NEW w \in Workers, RowKeptOpen(w)
        PROVE  \A q \in Ids : Writing(q) =>
                 q \in Ids' /\ InFlightOp(q)' /\ ops'[q].lease \in {"live", "expired"}
    BY <1>9 DEF RowKeptOpen
  <1>10. ASSUME NEW o \in Ids, RowRecovered(o)
        PROVE  \A q \in Ids : Writing(q) =>
                 q \in Ids' /\ InFlightOp(q)' /\ ops'[q].lease \in {"live", "expired"}
    BY <1>10 DEF RowRecovered
  <1>11. ASSUME NEW o \in Ids, RowAged(o)
        PROVE  \A q \in Ids : Writing(q) =>
                 q \in Ids' /\ InFlightOp(q)' /\ ops'[q].lease \in {"live", "expired"}
    BY <1>11 DEF RowAged
  <1> QED
    BY <1>1, <1>2, <1>3, <1>4, <1>5, <1>6, <1>7, <1>8, <1>9, <1>10, <1>11
         DEF RowStep


\* A request is under way for no new row but that of the handler that sends one.
WritingKept ==
  /\ \A r \in wire' : r.op \in Ids
  /\ \A o \in Ids' : Writing(o)' =>
       \/ o \in Ids /\ Writing(o)
       \/ /\ o \in Ids /\ UNCHANGED <<ops, Ids>>
          /\ \E w \in Workers : h[w].op = o /\ HoldsLease(w)

\* A request is under way for no new row but that of the handler that sends
\* one.
LEMMA WritingStep ==
  ASSUME TypeOK, TypeOK', StepOf, Baselines, RequestRows, [Next]_vars
  PROVE  WritingKept
  <1> USE ProjectionAssumption, Rows DEF WritingKept, Writing, RequestRows,
       StepOf, ApplyPcs, RecoverPcs, SameCall, Others, Moves, Leaves, Starts
  <1>1. ASSUME NEW w \in Workers, NEW c \in Contracts, PreviewBegin(w, c)
        PROVE  WritingKept
    BY <1>1, PreviewBeginEffect
  <1>2. ASSUME NEW w \in Workers, NEW o \in Ids, ApplyBegin(w, o) PROVE WritingKept
    BY <1>2, ApplyBeginEffect
  <1>3. ASSUME NEW w \in Workers, PreviewInsert(w) PROVE WritingKept
    BY <1>3, PreviewInsertEffect
  <1>4. ASSUME NEW w \in Workers, ApplyCheck(w) PROVE WritingKept
    BY <1>4, ApplyCheckEffect
  <1>5. ASSUME NEW w \in Workers, Send(w) PROVE WritingKept
    BY <1>5, SendEffect
  <1>6. ASSUME NEW w \in Workers, Receive(w) PROVE WritingKept
    BY <1>6, ReceiveEffect
  <1>7. ASSUME NEW w \in Workers, VerifyTarget(w) PROVE WritingKept
    BY <1>7, VerifyTargetEffect
  <1>8. ASSUME NEW w \in Workers, Persist(w) PROVE WritingKept
    BY <1>8, PersistEffect
  <1>9. ASSUME NEW w \in Workers, NEW o \in Ids, RecoverBegin(w, o)
        PROVE  WritingKept
    BY <1>9, RecoverBeginEffect
  <1>10. ASSUME NEW w \in Workers, RecoverInspect(w) PROVE WritingKept
    BY <1>10, RecoverInspectEffect
  <1>11. ASSUME NEW w \in Workers, RecoverDecide(w) PROVE WritingKept
    BY <1>11, RecoverDecideEffect
  <1>12. ASSUME NEW w \in Workers, VerifyClosed(w) PROVE WritingKept
    BY <1>12, VerifyClosedEffect
  <1>13. ASSUME NEW w \in Workers, MarkClosed(w) PROVE WritingKept
    BY <1>13, MarkClosedEffect
  <1>14. ASSUME NEW w \in Workers, MarkFailed(w) PROVE WritingKept
    BY <1>14, MarkFailedEffect
  <1>15. ASSUME NEW w \in Workers, MarkRecoveryRequired(w) PROVE WritingKept
    BY <1>15, MarkRecoveryRequiredEffect
  <1>16. ASSUME NEW w \in Workers, DeadSession(w) PROVE WritingKept
    BY <1>16, DeadSessionEffect
  <1>17. ASSUME NEW r \in wire, HasuraApplies(r) PROVE WritingKept
    BY <1>17, HasuraAppliesEffect
  <1>18. ASSUME NEW r \in wire, HasuraRejects(r) PROVE WritingKept
    BY <1>18, HasuraRejectsEffect
  <1>19. ASSUME NEW r \in wire, HasuraRefuses(r) PROVE WritingKept
    BY <1>19, HasuraRefusesEffect
  <1>20. ASSUME NEW w \in Workers, Timeout(w) PROVE WritingKept
    BY <1>20, TimeoutEffect
  <1>21. ASSUME NEW w \in Workers, Crash(w) PROVE WritingKept
    BY <1>21, CrashEffect
  <1>22. ASSUME NEW w \in Workers, DropSession(w) PROVE WritingKept
    BY <1>22, DropSessionEffect
  <1>23. ASSUME NEW w \in Workers, CommitLost(w) PROVE WritingKept
    BY <1>23, CommitLostEffect
  <1>24. ASSUME NEW w \in Workers, ExportFails(w) PROVE WritingKept
    BY <1>24, ExportFailsEffect
  <1>25. ASSUME NEW o \in Ids, LeaseAges(o) PROVE WritingKept
    BY <1>25, LeaseAgesEffect
  <1>26. ASSUME OtherMetadataChange PROVE WritingKept
    BY <1>26, OtherMetadataChangeEffect
  <1>27. ASSUME NEW t \in Tables, ConsoleEdit(t) PROVE WritingKept
    BY <1>27, ConsoleEditEffect
  <1>28. ASSUME NEW t \in Tables, DirectDdl(t) PROVE WritingKept
    BY <1>28, DirectDdlEffect
  <1>29. ASSUME NEW t \in Tables, PolicyChange(t) PROVE WritingKept
    BY <1>29, PolicyChangeEffect
  <1>30. ASSUME OrdinaryMutation PROVE WritingKept
    BY <1>30, OrdinaryMutationEffect
  <1>31. ASSUME setProjectRuntimeContext PROVE WritingKept
    BY <1>31, SetProjectRuntimeContextEffect
  <1>32. ASSUME disableProjectRuntimeContext PROVE WritingKept
    BY <1>32, DisableProjectRuntimeContextEffect
  <1>33. ASSUME NEW w \in Workers, ExportRejected(w) PROVE WritingKept
    BY <1>33, ExportRejectedEffect
  <1>34. CASE UNCHANGED vars
    BY <1>34 DEF vars
  <1> QED
    BY <1>1, <1>2, <1>3, <1>4, <1>5, <1>6, <1>7, <1>8, <1>9, <1>10, <1>11,
         <1>12, <1>13, <1>14, <1>15, <1>16, <1>17, <1>18, <1>19, <1>20, <1>21,
         <1>22, <1>23, <1>24, <1>25, <1>26, <1>27, <1>28, <1>29, <1>30, <1>31,
         <1>32, <1>33, <1>34 DEF Next, HandlerStep, FaultStep, HasuraStep, Environment,
         Time, Recover


\* A row that a request is under way for is in flight, its lease not drained.
LEMMA RequestRowsStep ==
  ASSUME TypeOK, TypeOK', StepOf, Claims, Requests, RowStep, WritingKept
  PROVE  RequestRows'
  <1>1. \A q \in Ids : Writing(q) => q \in Ids' /\ InFlightOp(q)'
                                     /\ ops'[q].lease \in {"live", "expired"}
    BY WritingRows
  <1>2. \A o \in Ids : o \in Ids'
    BY RowsSameOrNew DEF RowsSame, RowInserted, Inserts
  <1>3. ASSUME NEW o \in Ids', Writing(o)'
        PROVE  InFlightOp(o)' /\ ops'[o].lease \in {"live", "expired"}
    <2>1. CASE o \in Ids /\ Writing(o)
      BY <1>1, <2>1
    <2>2. ASSUME o \in Ids, UNCHANGED ops, NEW w \in Workers, h[w].op = o, HoldsLease(w)
          PROVE  InFlightOp(o)' /\ ops'[o].lease \in {"live", "expired"}
      BY <2>2 DEF HoldsLease, Op, InFlightOp, InFlight
    <2> QED
      BY <1>3, <2>1, <2>2 DEF WritingKept
  <1> QED
    BY <1>2, <1>3 DEF RequestRows, WritingKept


\* What a step does to the requests under way, the answers and those who wait.
WireSame ==
  /\ UNCHANGED <<wire, resp>>
  /\ \A v \in Workers : /\ h'[v].pc = "await" <=> h[v].pc = "await"
                        /\ h[v].pc = "await" => h'[v].op = h[v].op
WireAdds(w) ==
  /\ h[w].pc = "send" /\ h'[w].pc = "await" /\ h'[w].op = h[w].op /\ Others(w)
  /\ \E r \in Request : wire' = wire \cup {r} /\ r.w = w /\ r.op = h[w].op
  /\ UNCHANGED resp
WireAnswers(r) ==
  /\ wire' = wire \ {r} /\ UNCHANGED h
  /\ \A w \in Workers : r.w # w => resp'[w] = resp[w]
WireDone(w) ==
  /\ h[w].pc = "await" /\ resp[w] # "none" /\ resp'[w] = "none" /\ h'[w].pc # "await"
  /\ \A v \in Workers \ {w} : resp'[v] = resp[v]
  /\ Others(w) /\ UNCHANGED wire
WireOrphaned(w) ==
  /\ resp'[w] = "none" /\ \A v \in Workers \ {w} : resp'[v] = resp[v]
  /\ h'[w].pc # "await" /\ Others(w)
  /\ \A q \in wire' : \E r \in wire :
       /\ q.op = r.op /\ q.ver = r.ver /\ q.meta = r.meta
       /\ q.w = IF r.w = w THEN NoWorker ELSE r.w
\* Every step is one of these.
RequestStep ==
  \/ WireSame
  \/ \E w \in Workers : WireAdds(w) \/ WireDone(w) \/ WireOrphaned(w)
  \/ \E r \in wire : WireAnswers(r)

\* Every step does one of these things to the requests.
LEMMA RequestSteps ==
  ASSUME TypeOK, TypeOK', StepOf, Baselines, [Next]_vars
  PROVE  RequestStep
  <1> USE DEF SameCall, Others, Moves, Leaves, Starts
  <1>1. ASSUME NEW w \in Workers, NEW c \in Contracts, PreviewBegin(w, c)
        PROVE  RequestStep
    BY <1>1, PreviewBeginEffect DEF RequestStep, WireSame
  <1>2. ASSUME NEW w \in Workers, NEW o \in Ids, ApplyBegin(w, o) PROVE RequestStep
    BY <1>2, ApplyBeginEffect DEF RequestStep, WireSame
  <1>3. ASSUME NEW w \in Workers, PreviewInsert(w) PROVE RequestStep
    BY <1>3, PreviewInsertEffect DEF RequestStep, WireSame
  <1>4. ASSUME NEW w \in Workers, ApplyCheck(w) PROVE RequestStep
    BY <1>4, ApplyCheckEffect DEF RequestStep, WireSame
  <1>5. ASSUME NEW w \in Workers, Send(w) PROVE RequestStep
    BY <1>5, SendEffect DEF RequestStep, WireSame, WireAdds
  <1>6. ASSUME NEW w \in Workers, Receive(w) PROVE RequestStep
    BY <1>6, ReceiveEffect DEF RequestStep, WireDone
  <1>7. ASSUME NEW w \in Workers, VerifyTarget(w) PROVE RequestStep
    BY <1>7, VerifyTargetEffect DEF RequestStep, WireSame
  <1>8. ASSUME NEW w \in Workers, Persist(w) PROVE RequestStep
    BY <1>8, PersistEffect DEF RequestStep, WireSame
  <1>9. ASSUME NEW w \in Workers, NEW o \in Ids, RecoverBegin(w, o)
        PROVE  RequestStep
    BY <1>9, RecoverBeginEffect DEF RequestStep, WireSame
  <1>10. ASSUME NEW w \in Workers, RecoverInspect(w) PROVE RequestStep
    BY <1>10, RecoverInspectEffect DEF RequestStep, WireSame
  <1>11. ASSUME NEW w \in Workers, RecoverDecide(w) PROVE RequestStep
    BY <1>11, RecoverDecideEffect DEF RequestStep, WireSame
  <1>12. ASSUME NEW w \in Workers, VerifyClosed(w) PROVE RequestStep
    BY <1>12, VerifyClosedEffect DEF RequestStep, WireSame
  <1>13. ASSUME NEW w \in Workers, MarkClosed(w) PROVE RequestStep
    BY <1>13, MarkClosedEffect DEF RequestStep, WireSame
  <1>14. ASSUME NEW w \in Workers, MarkFailed(w) PROVE RequestStep
    BY <1>14, MarkFailedEffect DEF RequestStep, WireSame
  <1>15. ASSUME NEW w \in Workers, MarkRecoveryRequired(w) PROVE RequestStep
    BY <1>15, MarkRecoveryRequiredEffect DEF RequestStep, WireSame
  <1>16. ASSUME NEW w \in Workers, DeadSession(w) PROVE RequestStep
    BY <1>16, DeadSessionEffect DEF RequestStep, WireSame
  <1>17. ASSUME NEW r \in wire, HasuraApplies(r) PROVE RequestStep
    BY <1>17, HasuraAppliesEffect DEF RequestStep, WireAnswers
  <1>18. ASSUME NEW r \in wire, HasuraRejects(r) PROVE RequestStep
    BY <1>18, HasuraRejectsEffect DEF RequestStep, WireAnswers
  <1>19. ASSUME NEW r \in wire, HasuraRefuses(r) PROVE RequestStep
    BY <1>19, HasuraRefusesEffect DEF RequestStep, WireAnswers
  <1>20. ASSUME NEW w \in Workers, Timeout(w) PROVE RequestStep
    BY <1>20, TimeoutEffect DEF RequestStep, WireOrphaned
  <1>21. ASSUME NEW w \in Workers, Crash(w) PROVE RequestStep
    BY <1>21, CrashEffect DEF RequestStep, WireOrphaned
  <1>22. ASSUME NEW w \in Workers, DropSession(w) PROVE RequestStep
    BY <1>22, DropSessionEffect DEF RequestStep, WireSame
  <1>23. ASSUME NEW w \in Workers, CommitLost(w) PROVE RequestStep
    BY <1>23, CommitLostEffect DEF RequestStep, WireSame
  <1>24. ASSUME NEW w \in Workers, ExportFails(w) PROVE RequestStep
    BY <1>24, ExportFailsEffect DEF RequestStep, WireSame
  <1>25. ASSUME NEW o \in Ids, LeaseAges(o) PROVE RequestStep
    BY <1>25, LeaseAgesEffect DEF RequestStep, WireSame
  <1>26. ASSUME OtherMetadataChange PROVE RequestStep
    BY <1>26, OtherMetadataChangeEffect DEF RequestStep, WireSame
  <1>27. ASSUME NEW t \in Tables, ConsoleEdit(t) PROVE RequestStep
    BY <1>27, ConsoleEditEffect DEF RequestStep, WireSame
  <1>28. ASSUME NEW t \in Tables, DirectDdl(t) PROVE RequestStep
    BY <1>28, DirectDdlEffect DEF RequestStep, WireSame
  <1>29. ASSUME NEW t \in Tables, PolicyChange(t) PROVE RequestStep
    BY <1>29, PolicyChangeEffect DEF RequestStep, WireSame
  <1>30. ASSUME OrdinaryMutation PROVE RequestStep
    BY <1>30, OrdinaryMutationEffect DEF RequestStep, WireSame
  <1>31. ASSUME setProjectRuntimeContext PROVE RequestStep
    BY <1>31, SetProjectRuntimeContextEffect DEF RequestStep, WireSame
  <1>32. ASSUME disableProjectRuntimeContext PROVE RequestStep
    BY <1>32, DisableProjectRuntimeContextEffect DEF RequestStep, WireSame
  <1>33. ASSUME NEW w \in Workers, ExportRejected(w) PROVE RequestStep
    BY <1>33, ExportRejectedEffect DEF RequestStep, WireSame
  <1>34. CASE UNCHANGED vars
    BY <1>34 DEF vars, RequestStep, WireSame
  <1> QED
    BY <1>1, <1>2, <1>3, <1>4, <1>5, <1>6, <1>7, <1>8, <1>9, <1>10, <1>11,
         <1>12, <1>13, <1>14, <1>15, <1>16, <1>17, <1>18, <1>19, <1>20, <1>21,
         <1>22, <1>23, <1>24, <1>25, <1>26, <1>27, <1>28, <1>29, <1>30, <1>31,
         <1>32, <1>33, <1>34 DEF Next, HandlerStep, FaultStep, HasuraStep, Environment,
         Time, Recover


\* A request with a sender is the one that its sender waits for.
LEMMA RequestOwnersStep ==
  ASSUME TypeOK, TypeOK', RequestOwners, RequestStep
  PROVE  RequestOwners'
  <1>1. CASE WireSame
    BY <1>1, Numbers DEF WireSame, RequestOwners
  <1>2. ASSUME NEW w \in Workers, WireAdds(w) PROVE RequestOwners'
    <2>1. /\ h[w].pc = "send" /\ h'[w].pc = "await" /\ h'[w].op = h[w].op
          /\ \A v \in Workers \ {w} : h'[v] = h[v]
          /\ UNCHANGED resp
      BY <1>2 DEF WireAdds, Others
    <2>2. PICK r \in Request : wire' = wire \cup {r} /\ r.w = w /\ r.op = h[w].op
      BY <1>2 DEF WireAdds
    <2>3. \A q \in wire : q.w # w /\ q.w \in Workers \cup {NoWorker}
      BY <2>1, Numbers, ProjectionAssumption DEF RequestOwners
    <2>4. resp[w] = "none" /\ \A v \in Workers : resp'[v] # "none" => h'[v].pc = "await"
      BY <2>1 DEF RequestOwners
    <2>5. \A q \in wire' : q.w # NoWorker =>
            /\ h'[q.w].pc = "await" /\ h'[q.w].op = q.op /\ resp'[q.w] = "none"
            /\ \A p \in wire' : p.w = q.w => p = q
      <3> SUFFICES ASSUME NEW q \in wire', q.w # NoWorker
                   PROVE  /\ h'[q.w].pc = "await" /\ h'[q.w].op = q.op /\ resp'[q.w] = "none"
                          /\ \A p \in wire' : p.w = q.w => p = q
        OBVIOUS
      <3>1. CASE q = r
        BY <3>1, <2>1, <2>2, <2>3, <2>4
      <3>2. CASE q \in wire
        BY <3>2, <2>1, <2>2, <2>3 DEF RequestOwners
      <3> QED
        BY <3>1, <3>2, <2>2
    <2> QED
      BY <2>4, <2>5 DEF RequestOwners
  <1>3. ASSUME NEW w \in Workers, WireDone(w) PROVE RequestOwners'
    BY <1>3, Numbers DEF WireDone, Others, RequestOwners
  <1>4. ASSUME NEW w \in Workers, WireOrphaned(w) PROVE RequestOwners'
    <2>1. \A v \in Workers : resp'[v] # "none" => h'[v].pc = "await"
      BY <1>4 DEF WireOrphaned, Others, RequestOwners
    <2>2. ASSUME NEW q \in wire', q.w # NoWorker
          PROVE  /\ q.w \in Workers \ {w} /\ h'[q.w].pc = "await" /\ h'[q.w].op = q.op
                 /\ resp'[q.w] = "none"
                 /\ \E r \in wire : /\ r.w = q.w /\ q.op = r.op /\ q.ver = r.ver
                                    /\ q.meta = r.meta
      <3>1. PICK r \in wire : /\ q.op = r.op /\ q.ver = r.ver /\ q.meta = r.meta
                              /\ q.w = IF r.w = w THEN NoWorker ELSE r.w
        BY <1>4 DEF WireOrphaned
      <3>2. r.w \in Workers \ {w} /\ q.w = r.w
        BY <2>2, <3>1, Numbers
      <3>3. h[r.w].pc = "await" /\ h[r.w].op = r.op /\ resp[r.w] = "none"
        BY <3>2, ProjectionAssumption DEF RequestOwners
      <3> QED
        BY <1>4, <3>1, <3>2, <3>3 DEF WireOrphaned, Others
    <2>3. ASSUME NEW q \in wire', q.w # NoWorker, NEW p \in wire', p.w = q.w
          PROVE  p = q
      <3>1. PICK r \in wire : r.w = q.w /\ q.op = r.op /\ q.ver = r.ver /\ q.meta = r.meta
        BY <2>2, <2>3
      <3>2. PICK s \in wire : s.w = p.w /\ p.op = s.op /\ p.ver = s.ver /\ p.meta = s.meta
        BY <2>2, <2>3
      <3>3. s = r
        BY <3>1, <3>2, <2>3 DEF RequestOwners
      <3>4. p \in Request /\ q \in Request
        BY DEF TypeOK
      <3> QED
        BY <3>1, <3>2, <3>3, <3>4, <2>3 DEF Request
    <2> QED
      BY <2>1, <2>2, <2>3 DEF RequestOwners
  <1>5. ASSUME NEW r \in wire, WireAnswers(r) PROVE RequestOwners'
    <2>1. \A q \in wire' : q \in wire /\ q # r
      BY <1>5 DEF WireAnswers
    <2>2. \A q \in wire' : q.w # NoWorker => q.w # r.w /\ q.w \in Workers
      BY <2>1, Numbers DEF RequestOwners
    <2>3. r.w # NoWorker => h[r.w].pc = "await"
      BY DEF RequestOwners
    <2>4. UNCHANGED h /\ \A v \in Workers : r.w # v => resp'[v] = resp[v]
      BY <1>5 DEF WireAnswers
    <2>5. \A v \in Workers : resp'[v] # "none" => h'[v].pc = "await"
      BY <2>3, <2>4, ProjectionAssumption DEF RequestOwners
    <2>6. ASSUME NEW q \in wire', q.w # NoWorker
          PROVE  /\ h'[q.w].pc = "await" /\ h'[q.w].op = q.op /\ resp'[q.w] = "none"
                 /\ \A p \in wire' : p.w = q.w => p = q
      <3>1. q \in wire /\ q.w # r.w /\ q.w \in Workers /\ \A p \in wire' : p \in wire
        BY <2>1, <2>2, <2>6
      <3>2. /\ h[q.w].pc = "await" /\ h[q.w].op = q.op /\ resp[q.w] = "none"
            /\ \A p \in wire : p.w = q.w => p = q
        BY <3>1, <2>6 DEF RequestOwners
      <3> QED
        BY <3>1, <3>2, <2>4
    <2> QED
      BY <2>5, <2>6 DEF RequestOwners
  <1> QED
    BY <1>1, <1>2, <1>3, <1>4, <1>5 DEF RequestStep

\* A handler starts when no request is under way, or for a row whose requests
\* are drained.
LEMMA LiveAloneStep ==
  ASSUME TypeOK, TypeOK', StepOf, Baselines, OneActive, LockOfLive, Claims,
       Requests, [Next]_vars
  PROVE  LiveAlone'
  <1> USE ProjectionAssumption, Rows, Numbers DEF Requests, LiveAlone,
       RequestRows, RequestOwners, OneActive, LockOfLive, Live, Writing,
       Blocked, InFlight, Active, InFlightOp, StepOf, ApplyPcs, RecoverPcs,
       SameCall, Others, Moves, Leaves, Starts
  <1>1. ASSUME NEW w \in Workers, NEW c \in Contracts, PreviewBegin(w, c)
        PROVE  LiveAlone'
    <2> HIDE DEF Blocked, InFlightOp, InFlight, Active, ApplyPcs, RecoverPcs,
    OneActive, Writing
    <2>1. /\ h[w].pc = "idle" /\ lock = NoWorker /\ lock' = w /\ UNCHANGED <<conn, wire>>
          /\ h'[w].pc \notin {"await", "toRecovery"} /\ Others(w)
      BY <1>1, PreviewBeginEffect DEF Starts
    <2>2. \A p \in Ids : ~Writing(p)
      <3>1. \A p \in Ids : ops[p].status \notin InFlight
        BY <1>1, PreviewBeginEffect DEF Blocked, InFlight
      <3> QED
        BY <3>1 DEF RequestRows, InFlightOp
    <2>3. \A v \in Workers : h[v].pc # "await"
      BY <2>2 DEF Writing, StepOf
    <2>4. wire = {}
      BY <2>2 DEF Writing, RequestRows
    <2>5. \A v \in Workers \ {w} : ~(conn'[v] /\ h'[v].pc # "idle")
      BY <2>1 DEF LockOfLive, Others
    <2> QED
      BY <2>1, <2>3, <2>4, <2>5
  <1>2. ASSUME NEW w \in Workers, NEW o \in Ids, ApplyBegin(w, o) PROVE LiveAlone'
    <2> HIDE DEF Blocked, InFlightOp, InFlight, Active, ApplyPcs, RecoverPcs,
    OneActive, Writing
    <2>1. /\ h[w].pc = "idle" /\ lock = NoWorker /\ lock' = w /\ UNCHANGED <<conn, wire>>
          /\ h'[w].pc \notin {"await", "toRecovery"} /\ Others(w)
      BY <1>2, ApplyBeginEffect DEF Starts
    <2>2. \A p \in Ids : ~Writing(p)
      <3>1. \A p \in Ids : ops[p].status \notin InFlight
        BY <1>2, ApplyBeginEffect DEF Blocked, InFlight
      <3> QED
        BY <3>1 DEF RequestRows, InFlightOp
    <2>3. \A v \in Workers : h[v].pc # "await"
      BY <2>2 DEF Writing, StepOf
    <2>4. wire = {}
      BY <2>2 DEF Writing, RequestRows
    <2>5. \A v \in Workers \ {w} : ~(conn'[v] /\ h'[v].pc # "idle")
      BY <2>1 DEF LockOfLive, Others
    <2> QED
      BY <2>1, <2>3, <2>4, <2>5
  <1>3. ASSUME NEW w \in Workers, PreviewInsert(w) PROVE LiveAlone'
    BY <1>3, PreviewInsertEffect, SMTT(20)
  <1>4. ASSUME NEW w \in Workers, ApplyCheck(w) PROVE LiveAlone'
    BY <1>4, ApplyCheckEffect, SMTT(20)
  <1>5. ASSUME NEW w \in Workers, Send(w) PROVE LiveAlone'
    BY <1>5, SendEffect, SMTT(20)
  <1>6. ASSUME NEW w \in Workers, Receive(w) PROVE LiveAlone'
    BY <1>6, ReceiveEffect
  <1>7. ASSUME NEW w \in Workers, VerifyTarget(w) PROVE LiveAlone'
    BY <1>7, VerifyTargetEffect
  <1>8. ASSUME NEW w \in Workers, Persist(w) PROVE LiveAlone'
    BY <1>8, PersistEffect, SMTT(20)
  <1>9. ASSUME NEW w \in Workers, NEW o \in Ids, RecoverBegin(w, o) PROVE LiveAlone'
    <2> HIDE DEF Blocked, InFlightOp, InFlight, Active, ApplyPcs, RecoverPcs,
    OneActive, Writing
    <2>1. /\ h[w].pc = "idle" /\ lock = NoWorker /\ lock' = w /\ UNCHANGED <<conn, wire>>
          /\ h'[w].pc \notin {"await", "toRecovery"} /\ Others(w)
      BY <1>9, RecoverBeginEffect DEF Starts
    <2>2. \A p \in Ids : ~Writing(p)
      <3>1. ops[o].status \notin InFlight \/ ops[o].lease = "drained"
        BY <1>9, RecoverBeginEffect DEF InFlight
      <3>2. \A p \in Ids \ {o} : ops[p].status \notin InFlight
        BY <1>9, RecoverBeginEffect DEF Blocked
      <3> QED
        BY <3>1, <3>2 DEF RequestRows, InFlightOp
    <2>3. \A v \in Workers : h[v].pc # "await"
      BY <2>2 DEF Writing, StepOf
    <2>4. wire = {}
      BY <2>2 DEF Writing, RequestRows
    <2>5. \A v \in Workers \ {w} : ~(conn'[v] /\ h'[v].pc # "idle")
      BY <2>1 DEF LockOfLive, Others
    <2> QED
      BY <2>1, <2>3, <2>4, <2>5
  <1>10. ASSUME NEW w \in Workers, RecoverInspect(w) PROVE LiveAlone'
    BY <1>10, RecoverInspectEffect
  <1>11. ASSUME NEW w \in Workers, RecoverDecide(w) PROVE LiveAlone'
    BY <1>11, RecoverDecideEffect, SMTT(20)
  <1>12. ASSUME NEW w \in Workers, VerifyClosed(w) PROVE LiveAlone'
    BY <1>12, VerifyClosedEffect, SMTT(20)
  <1>13. ASSUME NEW w \in Workers, MarkClosed(w) PROVE LiveAlone'
    BY <1>13, MarkClosedEffect, SMTT(20)
  <1>14. ASSUME NEW w \in Workers, MarkFailed(w) PROVE LiveAlone'
    BY <1>14, MarkFailedEffect, SMTT(20)
  <1>15. ASSUME NEW w \in Workers, MarkRecoveryRequired(w) PROVE LiveAlone'
    BY <1>15, MarkRecoveryRequiredEffect, SMTT(20)
  <1>16. ASSUME NEW w \in Workers, DeadSession(w) PROVE LiveAlone'
    BY <1>16, DeadSessionEffect, SMTT(20)
  <1>17. ASSUME NEW r \in wire, HasuraApplies(r) PROVE LiveAlone'
    BY <1>17, HasuraAppliesEffect
  <1>18. ASSUME NEW r \in wire, HasuraRejects(r) PROVE LiveAlone'
    BY <1>18, HasuraRejectsEffect
  <1>19. ASSUME NEW r \in wire, HasuraRefuses(r) PROVE LiveAlone'
    BY <1>19, HasuraRefusesEffect
  <1>20. ASSUME NEW w \in Workers, Timeout(w) PROVE LiveAlone'
    BY <1>20, TimeoutEffect, SMTT(20)
  <1>21. ASSUME NEW w \in Workers, Crash(w) PROVE LiveAlone'
    <2>1. /\ h'[w].pc = "idle" /\ \A v \in Workers \ {w} : h'[v] = h[v] /\ conn'[v] = conn[v]
          /\ \A q \in wire' : \E r \in wire : q.w = IF r.w = w THEN NoWorker ELSE r.w
      BY <1>21, CrashEffect
    <2>2. ASSUME NEW v \in Workers, Live(v)'
          PROVE  /\ \A u \in Workers \ {v} : h'[u].pc # "await"
                 /\ h'[v].pc \notin {"await", "toRecovery"} => wire' = {}
                 /\ h'[v].pc = "await" => \A r \in wire' : r.w = v
      <3>1. v # w /\ h'[v] = h[v] /\ Live(v)
        BY <2>1, <2>2 DEF Live
      <3>2. /\ \A u \in Workers \ {v} : h[u].pc # "await"
            /\ h[v].pc \notin {"await", "toRecovery"} => wire = {}
            /\ h[v].pc = "await" => \A r \in wire : r.w = v
        BY <3>1 DEF LiveAlone
      <3> QED
        BY <2>1, <3>1, <3>2, SMTT(20)
    <2> QED
      BY <2>2 DEF LiveAlone
  <1>22. ASSUME NEW w \in Workers, DropSession(w) PROVE LiveAlone'
    BY <1>22, DropSessionEffect
  <1>23. ASSUME NEW w \in Workers, CommitLost(w) PROVE LiveAlone'
    BY <1>23, CommitLostEffect, SMTT(20)
  <1>24. ASSUME NEW w \in Workers, ExportFails(w) PROVE LiveAlone'
    <2>1. /\ h'[w].pc = "toRecovery" /\ \A v \in Workers \ {w} : h'[v] = h[v]
          /\ UNCHANGED <<conn, wire>> /\ h[w].pc \in {"inspect", "verify"}
      BY <1>24, ExportFailsEffect
    <2> QED
      BY <2>1, SMTT(20) DEF LiveAlone, Live
  <1>25. ASSUME NEW o \in Ids, LeaseAges(o) PROVE LiveAlone'
    BY <1>25, LeaseAgesEffect
  <1>26. ASSUME OtherMetadataChange PROVE LiveAlone'
    BY <1>26, OtherMetadataChangeEffect
  <1>27. ASSUME NEW t \in Tables, ConsoleEdit(t) PROVE LiveAlone'
    BY <1>27, ConsoleEditEffect
  <1>28. ASSUME NEW t \in Tables, DirectDdl(t) PROVE LiveAlone'
    BY <1>28, DirectDdlEffect
  <1>29. ASSUME NEW t \in Tables, PolicyChange(t) PROVE LiveAlone'
    BY <1>29, PolicyChangeEffect
  <1>30. ASSUME OrdinaryMutation PROVE LiveAlone'
    BY <1>30, OrdinaryMutationEffect
  <1>31. ASSUME setProjectRuntimeContext PROVE LiveAlone'
    BY <1>31, SetProjectRuntimeContextEffect
  <1>32. ASSUME disableProjectRuntimeContext PROVE LiveAlone'
    BY <1>32, DisableProjectRuntimeContextEffect
  <1>33. ASSUME NEW w \in Workers, ExportRejected(w) PROVE LiveAlone'
    <2>1. /\ h'[w].pc = "toFailed" /\ \A v \in Workers \ {w} : h'[v] = h[v]
          /\ UNCHANGED <<conn, wire>> /\ h[w].pc = "verify"
      BY <1>33, ExportRejectedEffect
    <2> QED
      BY <2>1, SMTT(20) DEF LiveAlone, Live
  <1>34. CASE UNCHANGED vars
    BY <1>34 DEF vars
  <1> QED
    BY <1>1, <1>2, <1>3, <1>4, <1>5, <1>6, <1>7, <1>8, <1>9, <1>10, <1>11,
         <1>12, <1>13, <1>14, <1>15, <1>16, <1>17, <1>18, <1>19, <1>20, <1>21,
         <1>22, <1>23, <1>24, <1>25, <1>26, <1>27, <1>28, <1>29, <1>30, <1>31,
         <1>32, <1>33, <1>34 DEF Next, HandlerStep, FaultStep, HasuraStep, Environment,
         Time, Recover


-----------------------------------------------------------------------------
(* What the tables enforce.                                                *)

\* Every row in flight stays in flight.
InFlightKept ==
  \A q \in Ids : InFlightOp(q) => q \in Ids' /\ InFlightOp(q)' /\ ops'[q].con = ops[q].con

\* A batch that failed a table closed stays the one, until a batch over the table
\* completes.
ClosedKept ==
  \A q \in Ids, t \in Tables : ClosedBy(q, t) =>
    \/ q \in Ids' /\ ClosedBy(q, t)'
    \/ \E p \in Ids : InFlightOp(p) /\ ops'[p].status = "completed" /\ t \in ops[p].con.tables

\* A table stays closed by the batch that closed it, until a batch over the
\* table completes.
LEMMA ClosedStep ==
  ASSUME TypeOK, StepOf, ClosedFailed, Claims, RowStep
  PROVE  ClosedKept
  <1> USE Rows DEF ClosedKept, ClosedBy, ClosedFailed, Claims, Live, StepOf,
       ApplyPcs, RecoverPcs, InFlight, Active, InFlightOp, SameRow, Updates,
       SameBut, Supersedes, Inserts, Records
  <1>1. ASSUME RowsKept PROVE ClosedKept
    BY <1>1 DEF RowsKept
  <1>2. ASSUME RowsSuperseded PROVE ClosedKept
    BY <1>2 DEF RowsSuperseded
  <1>3. ASSUME NEW w \in Workers, NEW n \in Nat, RowInserted(w, n) PROVE ClosedKept
    BY <1>3 DEF RowInserted
  <1>4. ASSUME NEW w \in Workers, RowClaimed(w) PROVE ClosedKept
    BY <1>4 DEF RowClaimed
  <1>5. ASSUME NEW w \in Workers, RowRecorded(w) PROVE ClosedKept
    BY <1>5 DEF RowRecorded
  <1>6. ASSUME NEW w \in Workers, RowNotApplied(w) PROVE ClosedKept
    BY <1>6 DEF RowNotApplied
  <1>7. ASSUME NEW w \in Workers, RowClosed(w) PROVE ClosedKept
    BY <1>7 DEF RowClosed
  <1>8. ASSUME NEW w \in Workers, RowFailed(w) PROVE ClosedKept
    BY <1>8 DEF RowFailed
  <1>9. ASSUME NEW w \in Workers, RowKeptOpen(w) PROVE ClosedKept
    BY <1>9 DEF RowKeptOpen
  <1>10. ASSUME NEW o \in Ids, RowRecovered(o) PROVE ClosedKept
    BY <1>10 DEF RowRecovered
  <1>11. ASSUME NEW o \in Ids, RowAged(o) PROVE ClosedKept
    BY <1>11 DEF RowAged
  <1> QED
    BY <1>1, <1>2, <1>3, <1>4, <1>5, <1>6, <1>7, <1>8, <1>9, <1>10, <1>11
         DEF RowStep


\* The select of a table stays, and is not forgotten to be misjudged.
SelStays(t) ==
  meta'.perms[t].sel = meta.perms[t].sel /\ (t \in misjudged => t \in misjudged')
\* The select of a table stays, is edited in the console, or is that of a request
\* for a batch over the table.
SelStep(t) ==
  \/ SelStays(t)
  \/ t \in astray' /\ meta'.perms[t].sel = "owner"
  \/ /\ UNCHANGED <<ops, Ids, base, astray>> /\ version' = version + 1
     /\ \E r \in wire :
          /\ t \in ops[r.op].con.tables /\ r.op \in Ids /\ InFlightOp(r.op)
          /\ meta'.perms[t].sel \in {ops[r.op].con.sel, "closed"}

\* The select of a table changes only in these ways.
LEMMA SelSteps ==
  ASSUME TypeOK, TypeOK', StepOf, Baselines, WireCopies, Requests, DataStep
  PROVE  \A u \in Tables : SelStep(u)
  <1> USE Numbers DEF SelStep, SelStays
  <1>1. ASSUME DataKept PROVE \A u \in Tables : SelStep(u)
    BY <1>1 DEF DataKept
  <1>2. ASSUME DataForeign PROVE \A u \in Tables : SelStep(u)
    BY <1>2 DEF DataForeign
  <1>3. ASSUME NEW w \in Workers, DataRecorded(w) PROVE \A u \in Tables : SelStep(u)
    BY <1>3 DEF DataRecorded
  <1>4. ASSUME NEW r \in wire, DataApplied(r) PROVE \A u \in Tables : SelStep(u)
    <2>1. r.meta \in {TargetMetadata(meta, ops[r.op].con), FailClosed(meta, ops[r.op].con)}
          /\ r.op \in Ids /\ ops[r.op].con \in Contracts
      BY <1>4, RowTables DEF DataApplied, WireCopies, Requests, RequestRows
    <2>2. InFlightOp(r.op)
      BY <2>1 DEF Requests, RequestRows, Writing
    <2>3. \A u \in Tables : IF u \in ops[r.op].con.tables
                            THEN r.meta.perms[u].sel \in {ops[r.op].con.sel, "closed"}
                            ELSE r.meta.perms[u].sel = meta.perms[u].sel
      <3>1. PICK c \in Contracts : c = ops[r.op].con
        BY <2>1
      <3>2. meta \in Metadata
        BY Numbers
      <3>3. \A u \in Tables :
              /\ TargetMetadata(meta, c).perms[u].sel =
                   IF u \in c.tables THEN c.sel ELSE meta.perms[u].sel
              /\ FailClosed(meta, c).perms[u].sel =
                   IF u \in c.tables THEN "closed" ELSE meta.perms[u].sel
        BY <3>2, Rewritten
      <3>4. r.meta = TargetMetadata(meta, c) \/ r.meta = FailClosed(meta, c)
        BY <2>1, <3>1
      <3> QED
        BY <3>1, <3>3, <3>4
    <2> QED
      BY <1>4, <2>1, <2>2, <2>3 DEF DataApplied
  <1>5. ASSUME NEW t \in Tables, DataEdited(t) PROVE \A u \in Tables : SelStep(u)
    BY <1>5 DEF DataEdited
  <1>6. ASSUME NEW t \in Tables, DataChanged(t) PROVE \A u \in Tables : SelStep(u)
    BY <1>6 DEF DataChanged
  <1> QED
    BY <1>1, <1>2, <1>3, <1>4, <1>5, <1>6 DEF DataStep


\* No select of an environment-scoped contract is the owner's or closed, and no
\* baseline is closed.
LEMMA SelFacts ==
  ASSUME Baselines
  PROVE  /\ "owner" \notin EnvSels /\ "closed" \notin EnvSels
         /\ \A t \in Tables : base[t].perms.sel # "closed"
  BY ProjectionAssumption DEF Baselines

\* Only the row of a live handler can be in flight while it is open.
LEMMA OnlyInFlight ==
  ASSUME OneActive, NEW o \in Ids, InFlightOp(o)
  PROVE  \A p \in Ids : InFlightOp(p) => p = o
  BY DEF OneActive, InFlightOp, Active

\* A table that is kept stays so while its select, its baseline and what closed it do.
LEMMA KeptStays ==
  ASSUME NEW t \in Tables, Kept(t), SelStays(t),
         base'[t].perms.sel = base[t].perms.sel, t \in astray => t \in astray',
         \A q \in Ids : ClosedBy(q, t) => q \in Ids' /\ ClosedBy(q, t)'
  PROVE  Kept(t)'
  <1>1. CASE t \in astray
    BY <1>1 DEF Kept, SelStays
  <1>2. CASE meta.perms[t].sel = base[t].perms.sel
    BY <1>2 DEF Kept, Agrees, SelStays
  <1>3. CASE meta.perms[t].sel = "closed" /\ \E o \in Ids : ClosedBy(o, t)
    <2>1. PICK o \in Ids : ClosedBy(o, t)
      BY <1>3
    <2>2. o \in Ids' /\ ClosedBy(o, t)'
      BY <2>1
    <2>3. Agrees(t)'
      BY <1>3, <2>2 DEF Agrees, SelStays
    <2> QED
      BY <2>3 DEF Kept, SelStays
  <1> QED
    BY <1>1, <1>2, <1>3 DEF Kept, Agrees, SelStays

\* While every batch in flight stays so, each table is kept or has one.
LEMMA OpenKept ==
  ASSUME TypeOK, Baselines, KeptUnlessInFlight, InFlightKept, ClosedKept, BaseKept,
         \A t \in Tables : SelStep(t),
         \A t \in astray : \/ t \in astray'
                           \/ \E p \in Ids' : InFlightOp(p)' /\ t \in ops'[p].con.tables
  PROVE  KeptUnlessInFlight'
  <1> SUFFICES ASSUME NEW t \in Tables,
                      ~\E p \in Ids' : InFlightOp(p)' /\ t \in ops'[p].con.tables
               PROVE  Kept(t)'
    BY DEF KeptUnlessInFlight
  <1>1. ~\E o \in Ids : InFlightOp(o) /\ t \in ops[o].con.tables
    BY DEF InFlightKept
  <1>2. Kept(t) /\ (t \in astray => t \in astray')
    BY <1>1 DEF KeptUnlessInFlight
  <1>3. CASE SelStays(t)
    <2>1. \A q \in Ids : ClosedBy(q, t) => q \in Ids' /\ ClosedBy(q, t)'
      BY <1>1 DEF ClosedKept
    <2>2. base'[t].perms.sel = base[t].perms.sel
      BY DEF BaseKept
    <2> QED
      BY <1>2, <1>3, <2>1, <2>2, KeptStays
  <1>4. CASE t \in astray' /\ meta'.perms[t].sel = "owner"
    BY <1>4, SelFacts DEF Kept
  <1>5. CASE \E r \in wire : t \in ops[r.op].con.tables /\ r.op \in Ids /\ InFlightOp(r.op)
    BY <1>1, <1>5
  <1> QED
    BY <1>3, <1>4, <1>5 DEF SelStep

\* When the only batch in flight ends, the tables it leaves out are kept.
LEMMA OthersKept ==
  ASSUME TypeOK, OneActive, KeptUnlessInFlight, NEW o \in Ids, InFlightOp(o),
         NEW t \in Tables, t \notin ops[o].con.tables
  PROVE  Kept(t)
  BY OnlyInFlight DEF KeptUnlessInFlight

\* Tables that are kept stay so when a batch ends without a trace.
LEMMA AllKeptStays ==
  ASSUME AllKept, ClosedKept, BaseKept, Quiet,
         \A p \in Ids : InFlightOp(p) => ops'[p].status # "completed"
  PROVE  AllKept'
  <1> SUFFICES ASSUME NEW t \in Tables
               PROVE  Kept(t)'
    BY DEF AllKept
  <1>1. \A q \in Ids : ClosedBy(q, t) => q \in Ids' /\ ClosedBy(q, t)'
    BY DEF ClosedKept
  <1> QED
    BY <1>1, KeptStays DEF AllKept, BaseKept, Quiet, SelStays

\* A table is kept when the last batch over it ends.
LEMMA KeptStep ==
  ASSUME TypeOK, StepOf, Baselines, OneActive, NoNewerWrote, CompletedWrote,
       ClosedFailed, Claims, Progress, KeptUnlessInFlight, ClosedKept, \A u \in
       Tables : SelStep(u), RowStep
  PROVE  KeptUnlessInFlight'
  <1>1. ASSUME RowsKept PROVE KeptUnlessInFlight'
    <2>1. InFlightKept /\ BaseKept
      BY <1>1
         DEF RowsKept, SameRow, Updates, SameBut, Supersedes, Inserts, Records,
             InFlight, Active, InFlightOp, StepOf, ApplyPcs, RecoverPcs, InFlightKept,
             Claims, Settled, Live
    <2>2. astray \subseteq astray'
      BY <1>1 DEF RowsKept, Quiet
    <2> QED
      BY <2>1, <2>2, OpenKept
  <1>2. ASSUME RowsSuperseded PROVE KeptUnlessInFlight'
    <2>1. InFlightKept /\ BaseKept
      BY <1>2
         DEF RowsSuperseded, SameRow, Updates, SameBut, Supersedes, Inserts, Records,
             InFlight, Active, InFlightOp, StepOf, ApplyPcs, RecoverPcs, InFlightKept,
             Claims, Settled, Live
    <2>2. astray \subseteq astray'
      BY <1>2 DEF RowsSuperseded, Quiet
    <2> QED
      BY <2>1, <2>2, OpenKept
  <1>3. ASSUME NEW w \in Workers, NEW n \in Nat, RowInserted(w, n)
        PROVE  KeptUnlessInFlight'
    <2>1. InFlightKept /\ BaseKept
      BY <1>3
         DEF RowInserted, SameRow, Updates, SameBut, Supersedes, Inserts, Records,
             InFlight, Active, InFlightOp, StepOf, ApplyPcs, RecoverPcs, InFlightKept,
             Claims, Settled, Live
    <2>2. astray \subseteq astray'
      BY <1>3 DEF RowInserted, Quiet
    <2> QED
      BY <2>1, <2>2, OpenKept
  <1>4. ASSUME NEW w \in Workers, RowClaimed(w) PROVE KeptUnlessInFlight'
    <2>1. InFlightKept /\ BaseKept
      BY <1>4
         DEF RowClaimed, SameRow, Updates, SameBut, Supersedes, Inserts, Records,
             InFlight, Active, InFlightOp, StepOf, ApplyPcs, RecoverPcs, InFlightKept,
             Claims, Settled, Live
    <2>2. astray \subseteq astray'
      BY <1>4 DEF RowClaimed, Quiet
    <2> QED
      BY <2>1, <2>2, OpenKept
  <1>5. ASSUME NEW w \in Workers, RowRecorded(w) PROVE KeptUnlessInFlight'
    <2>1. /\ h[w].op \in Ids /\ InFlightOp(h[w].op) /\ h[w].con = ops[h[w].op].con
          /\ \A t \in h[w].con.tables : Shows(w, t, h[w].con.sel)
          /\ Records(w) /\ Quiet
      BY <1>5 DEF RowRecorded, Progress, Claims, Live, StepOf, ApplyPcs, RecoverPcs
    <2> SUFFICES ASSUME NEW t \in Tables
                 PROVE  Kept(t)'
      BY DEF KeptUnlessInFlight
    <2>2. CASE t \in h[w].con.tables
      <3>1. /\ meta'.perms[t].sel \in {h[w].con.sel, "owner"} /\ base'[t].perms.sel = h[w].con.sel
            /\ t \notin astray' => meta'.perms[t].sel = h[w].con.sel
        BY <2>1, <2>2 DEF Shows, Records, Quiet
      <3> QED
        BY <3>1, SelFacts DEF Kept, Agrees
    <2>3. CASE t \notin h[w].con.tables
      <3>1. Kept(t)
        BY <2>1, <2>3, OthersKept
      <3>2. base'[t] = base[t] /\ \A p \in Ids : InFlightOp(p) => p = h[w].op
        BY <2>1, <2>3, OnlyInFlight DEF Records
      <3>3. \A q \in Ids : ClosedBy(q, t) => q \in Ids' /\ ClosedBy(q, t)'
        BY <2>1, <2>3, <3>2 DEF ClosedKept
      <3> QED
        BY <2>1, <3>1, <3>2, <3>3, KeptStays DEF Quiet, SelStays
    <2> QED
      BY <2>2, <2>3
  <1>6. ASSUME NEW w \in Workers, RowNotApplied(w) PROVE KeptUnlessInFlight'
    <2>1. /\ h[w].op \in Ids /\ InFlightOp(h[w].op) /\ AllKept
          /\ Updates(h[w].op, "failed", ops'[h[w].op].error, ops[h[w].op].wrote)
          /\ BaseKept /\ Quiet
      BY <1>6
         DEF RowNotApplied, Progress, Claims, Live, StepOf, ApplyPcs, RecoverPcs,
             Updates
    <2>2. \A p \in Ids : InFlightOp(p) => ops'[p].status # "completed"
      BY <2>1, OnlyInFlight DEF Updates
    <2> QED
      BY <2>1, <2>2, AllKeptStays DEF AllKept, KeptUnlessInFlight
  <1>7. ASSUME NEW w \in Workers, RowClosed(w) PROVE KeptUnlessInFlight'
    <2>1. /\ h[w].op \in Ids /\ InFlightOp(h[w].op) /\ h[w].con = ops[h[w].op].con
          /\ \A t \in h[w].con.tables : Shows(w, t, "closed")
          /\ Updates(h[w].op, "failed", "failed_closed", ops[h[w].op].wrote)
          /\ BaseKept /\ Quiet
      BY <1>7 DEF RowClosed, Progress, Claims, Live, StepOf, ApplyPcs, RecoverPcs
    <2> SUFFICES ASSUME NEW t \in Tables
                 PROVE  Kept(t)'
      BY DEF KeptUnlessInFlight
    <2>2. CASE t \in h[w].con.tables
      <3>1. /\ meta'.perms[t].sel \in {"closed", "owner"}
            /\ t \notin astray' => meta'.perms[t].sel = "closed"
        BY <2>1, <2>2 DEF Shows, Quiet
      <3>2. \A p \in Ids : p > h[w].op => ops[p].status # "completed"
        BY <2>1 DEF NoNewerWrote, LatestCompleted, CompletedWrote, InFlightOp, Active
      <3>3. PICK o \in Ids : o = h[w].op
        BY <2>1
      <3>4. o \in Ids' /\ ClosedBy(o, t)'
        BY <2>1, <2>2, <3>2, <3>3, Rows DEF ClosedBy, Updates, SameRow
      <3>5. t \notin astray' => Agrees(t)'
        BY <3>1, <3>4 DEF Agrees
      <3> QED
        BY <3>1, <3>5, SelFacts DEF Kept
    <2>3. CASE t \notin h[w].con.tables
      <3>1. Kept(t)
        BY <2>1, <2>3, OthersKept
      <3>2. \A p \in Ids : InFlightOp(p) => p = h[w].op
        BY <2>1, OnlyInFlight
      <3>3. \A q \in Ids : ClosedBy(q, t) => q \in Ids' /\ ClosedBy(q, t)'
        BY <2>1, <2>3, <3>2 DEF ClosedKept
      <3> QED
        BY <2>1, <3>1, <3>3, KeptStays DEF Quiet, BaseKept, SelStays
    <2> QED
      BY <2>2, <2>3
  <1>8. ASSUME NEW w \in Workers, RowFailed(w) PROVE KeptUnlessInFlight'
    <2>1. /\ h[w].op \in Ids /\ InFlightOp(h[w].op) /\ AllKept
          /\ Updates(h[w].op, "failed", ops'[h[w].op].error, ops[h[w].op].wrote)
          /\ BaseKept /\ Quiet
      BY <1>8
         DEF RowFailed, Progress, Claims, Live, StepOf, ApplyPcs, RecoverPcs, Updates
    <2>2. \A p \in Ids : InFlightOp(p) => ops'[p].status # "completed"
      BY <2>1, OnlyInFlight DEF Updates
    <2> QED
      BY <2>1, <2>2, AllKeptStays DEF AllKept, KeptUnlessInFlight
  <1>9. ASSUME NEW w \in Workers, RowKeptOpen(w) PROVE KeptUnlessInFlight'
    <2>1. InFlightKept /\ BaseKept
      BY <1>9
         DEF RowKeptOpen, SameRow, Updates, SameBut, Supersedes, Inserts, Records,
             InFlight, Active, InFlightOp, StepOf, ApplyPcs, RecoverPcs, InFlightKept,
             Claims, Settled, Live
    <2>2. astray \subseteq astray'
      BY <1>9 DEF RowKeptOpen, Quiet
    <2> QED
      BY <2>1, <2>2, OpenKept
  <1>10. ASSUME NEW o \in Ids, RowRecovered(o) PROVE KeptUnlessInFlight'
    <2>1. InFlightKept /\ BaseKept
      BY <1>10
         DEF RowRecovered, SameRow, SameBut, InFlightKept, InFlightOp, InFlight,
             Blocked
    <2>2. astray' = astray \ ops[o].con.tables /\ o \in Ids' /\ InFlightOp(o)'
          /\ ops'[o].con = ops[o].con
      BY <1>10 DEF RowRecovered, SameRow, InFlightOp, InFlight
    <2>3. \A t \in astray : \/ t \in astray'
                            \/ \E p \in Ids' : InFlightOp(p)' /\ t \in ops'[p].con.tables
      BY <2>2
    <2> QED
      BY <2>1, <2>3, OpenKept
  <1>11. ASSUME NEW o \in Ids, RowAged(o) PROVE KeptUnlessInFlight'
    <2>1. InFlightKept /\ BaseKept
      BY <1>11
         DEF RowAged, SameRow, Updates, SameBut, Supersedes, Inserts, Records,
             InFlight, Active, InFlightOp, StepOf, ApplyPcs, RecoverPcs, InFlightKept,
             Claims, Settled, Live
    <2>2. astray \subseteq astray'
      BY <1>11 DEF RowAged, Quiet
    <2> QED
      BY <2>1, <2>2, OpenKept
  <1> QED
    BY <1>1, <1>2, <1>3, <1>4, <1>5, <1>6, <1>7, <1>8, <1>9, <1>10, <1>11
         DEF RowStep

\* An operation that has still to write is one that had, and no baseline
\* changed its projection.
LEMMA FreshStays ==
  ASSUME TypeOK, StepOf, OneActive, CompletedWrote, Claims, RowStep
  PROVE  \A q \in Ids : q \in Ids' /\ (Fresh(q)' => Fresh(q) /\ BaseKept)
  <1> USE Rows DEF OneActive, CompletedWrote, Fresh, Claims, Live, StepOf,
       ApplyPcs, RecoverPcs, InFlight, Active, InFlightOp, SameRow, Updates,
       SameBut, Supersedes, Inserts, Records
  <1>1. ASSUME RowsKept
        PROVE  \A q \in Ids : q \in Ids' /\ (Fresh(q)' => Fresh(q) /\ BaseKept)
    BY <1>1 DEF RowsKept
  <1>2. ASSUME RowsSuperseded
        PROVE  \A q \in Ids : q \in Ids' /\ (Fresh(q)' => Fresh(q) /\ BaseKept)
    BY <1>2 DEF RowsSuperseded
  <1>3. ASSUME NEW w \in Workers, NEW n \in Nat, RowInserted(w, n)
        PROVE  \A q \in Ids : q \in Ids' /\ (Fresh(q)' => Fresh(q) /\ BaseKept)
    BY <1>3 DEF RowInserted
  <1>4. ASSUME NEW w \in Workers, RowClaimed(w)
        PROVE  \A q \in Ids : q \in Ids' /\ (Fresh(q)' => Fresh(q) /\ BaseKept)
    BY <1>4 DEF RowClaimed
  <1>5. ASSUME NEW w \in Workers, RowRecorded(w)
        PROVE  \A q \in Ids : q \in Ids' /\ (Fresh(q)' => Fresh(q) /\ BaseKept)
    BY <1>5 DEF RowRecorded
  <1>6. ASSUME NEW w \in Workers, RowNotApplied(w)
        PROVE  \A q \in Ids : q \in Ids' /\ (Fresh(q)' => Fresh(q) /\ BaseKept)
    BY <1>6 DEF RowNotApplied
  <1>7. ASSUME NEW w \in Workers, RowClosed(w)
        PROVE  \A q \in Ids : q \in Ids' /\ (Fresh(q)' => Fresh(q) /\ BaseKept)
    BY <1>7 DEF RowClosed
  <1>8. ASSUME NEW w \in Workers, RowFailed(w)
        PROVE  \A q \in Ids : q \in Ids' /\ (Fresh(q)' => Fresh(q) /\ BaseKept)
    BY <1>8 DEF RowFailed
  <1>9. ASSUME NEW w \in Workers, RowKeptOpen(w)
        PROVE  \A q \in Ids : q \in Ids' /\ (Fresh(q)' => Fresh(q) /\ BaseKept)
    BY <1>9 DEF RowKeptOpen
  <1>10. ASSUME NEW o \in Ids, RowRecovered(o)
        PROVE  \A q \in Ids : q \in Ids' /\ (Fresh(q)' => Fresh(q) /\ BaseKept)
    BY <1>10 DEF RowRecovered
  <1>11. ASSUME NEW o \in Ids, RowAged(o)
        PROVE  \A q \in Ids : q \in Ids' /\ (Fresh(q)' => Fresh(q) /\ BaseKept)
    BY <1>11 DEF RowAged
  <1> QED
    BY <1>1, <1>2, <1>3, <1>4, <1>5, <1>6, <1>7, <1>8, <1>9, <1>10, <1>11
         DEF RowStep


\* An operation that has still to write, at the version it was made from, was made
\* over tables that agree with their baselines.
LEMMA FreshSourceStep ==
  ASSUME TypeOK, TypeOK', StepOf, OneActive, CompletedWrote, Claims, Copies, FreshSource,
         ClosedKept, RowStep, DataStep
  PROVE  FreshSource'
  <1>1. \A q \in Ids : q \in Ids' /\ (Fresh(q)' => Fresh(q) /\ BaseKept)
    BY FreshStays
  <1>2. ASSUME UNCHANGED <<meta, version>>, NEW q \in Ids, Fresh(q)',
               ops'[q].ver = ops[q].ver,
               ops'[q].con = ops[q].con, ops'[q].ver = version',
               NEW t \in Tables, t \in ops'[q].con.tables
        PROVE  Agrees(t)'
    <2>1. Fresh(q) /\ BaseKept /\ Agrees(t)
      BY <1>1, <1>2 DEF FreshSource
    <2>2. ASSUME NEW p \in Ids, InFlightOp(p), ops'[p].status = "completed"
          PROVE  FALSE
      <3>1. p = q
        BY <2>1, <2>2 DEF OneActive, Fresh, InFlightOp, Active
      <3>2. ops'[q].status \in InFlight \cup {"preview_ready"}
        BY <1>2 DEF Fresh, InFlightOp
      <3> QED
        BY <2>2, <3>1, <3>2 DEF InFlight
    <2>3. \A p \in Ids : ClosedBy(p, t) => p \in Ids' /\ ClosedBy(p, t)'
      BY <2>2 DEF ClosedKept
    <2>4. CASE meta.perms[t].sel = base[t].perms.sel
      BY <1>2, <2>1, <2>4 DEF Agrees, BaseKept
    <2>5. CASE meta.perms[t].sel = "closed" /\ \E o \in Ids : ClosedBy(o, t)
      <3>1. PICK o \in Ids : ClosedBy(o, t)
        BY <2>5
      <3>2. o \in Ids' /\ ClosedBy(o, t)'
        BY <2>3, <3>1
      <3> QED
        BY <1>2, <2>5, <3>2 DEF Agrees
    <2> QED
      BY <2>1, <2>4, <2>5 DEF Agrees
  <1>3. version \in Nat /\ (UNCHANGED <<meta, version>> \/ version' = version + 1)
    BY Numbers, VersionStep
  <1>4. CASE RowsSame
    <2>1. \A q \in Ids : /\ ops'[q].ver = ops[q].ver /\ ops'[q].con = ops[q].con
                         /\ ops[q].ver <= version /\ ops[q].ver \in Nat
                         /\ ops[q].con.tables \subseteq Tables
      BY <1>4, Numbers, RowTables DEF RowsSame, SameRow, Copies
    <2>2. ASSUME NEW q \in Ids', Fresh(q)', ops'[q].ver = version',
                 NEW t \in ops'[q].con.tables
          PROVE  Agrees(t)'
      <3>1. q \in Ids /\ t \in Tables
        BY <1>4, <2>1, <2>2 DEF RowsSame
      <3>2. UNCHANGED <<meta, version>>
        BY <1>3, <2>1, <2>2, <3>1
      <3> QED
        BY <1>2, <2>1, <2>2, <3>1, <3>2
    <2> QED
      BY <2>2 DEF FreshSource
  <1>5. ASSUME NEW w \in Workers, NEW n \in Nat, RowInserted(w, n)
        PROVE  FreshSource'
    <2>1. /\ Ids' = Ids \cup {n} /\ n \notin Ids /\ ops'[n].con = h[w].con /\ ops'[n].ver = h[w].ver
          /\ \A q \in Ids : ops'[q].ver = ops[q].ver /\ ops'[q].con = ops[q].con
          /\ PreviewAdmits(h[w].meta, h[w].con) /\ BaseKept /\ UNCHANGED <<meta, version>>
      BY <1>5 DEF RowInserted, Inserts, SameBut, SameRow, Quiet
    <2>2. \A q \in Ids : ops[q].con.tables \subseteq Tables
      BY RowTables
    <2>3. ASSUME h[w].ver = version, NEW t \in h[w].con.tables
          PROVE  Agrees(t)'
      <3>1. h[w].meta = meta /\ t \in Tables
        BY <2>3, RowTables DEF Copies
      <3>2. meta.perms[t] = base[t].perms \/ RecordedFailClosed(meta, t, h[w].con)
        BY <2>1, <2>3, <3>1 DEF PreviewAdmits, ManagedSources
      <3>3. CASE meta.perms[t] = base[t].perms
        BY <2>1, <3>1, <3>3 DEF Agrees, BaseKept
      <3>4. CASE RecordedFailClosed(meta, t, h[w].con)
        <4>1. PICK o \in EffectiveFailClosed : ops[o].con.tables = h[w].con.tables
          BY <3>4 DEF RecordedFailClosed
        <4>2. o \in Ids /\ ClosedBy(o, t)
          BY <4>1, <2>3 DEF EffectiveFailClosed, ClosedBy
        <4>3. \A p \in Ids : InFlightOp(p) => ops'[p].status # "completed"
          BY <1>5 DEF RowInserted, Inserts, InFlightOp, InFlight
        <4>4. o \in Ids' /\ ClosedBy(o, t)'
          BY <4>2, <4>3, <3>1 DEF ClosedKept
        <4>5. meta.perms[t].sel = "closed"
          <5>1. base[t].perms \in Permission
            BY <3>1 DEF TypeOK, Baseline
          <5> QED
            BY <3>4, <5>1 DEF RecordedFailClosed, Permission
        <4> QED
          BY <2>1, <4>4, <4>5 DEF Agrees
      <3> QED
        BY <3>2, <3>3, <3>4
    <2>4. ASSUME NEW q \in Ids', Fresh(q)', ops'[q].ver = version',
                 NEW t \in ops'[q].con.tables
          PROVE  Agrees(t)'
      <3>1. CASE q = n
        BY <2>1, <2>3, <2>4, <3>1
      <3>2. CASE q \in Ids
        BY <1>2, <2>1, <2>2, <2>4, <3>2
      <3> QED
        BY <2>1, <3>1, <3>2
    <2> QED
      BY <2>4 DEF FreshSource
  <1> QED
    BY <1>4, <1>5, RowsSameOrNew


-----------------------------------------------------------------------------
(* The runtime context.                                                    *)

\* An environment-scoped select that is enforced is that of a baseline, of a batch
\* in flight or of a batch misjudged as failed.
EnvBacked ==
  \A t \in Tables \ misjudged : meta.perms[t].sel \in EnvSels =>
    \/ base[t].perms.sel \in EnvSels
    \/ \E o \in Ids : InFlightOp(o) /\ ops[o].con.sel \in EnvSels
\* The context stays, is set, or is disabled when nothing needs it.
ContextStep ==
  \/ UNCHANGED context \/ context'
  \/ lock = NoWorker /\ ~ContextRequired /\ UNCHANGED <<ops, Ids, base, meta, h, conn>>
\* A handler before its check was so before, or started with the context it needs.
CheckStep ==
  \A w \in Workers : conn'[w] /\ h'[w].pc = "check" =>
    \/ Live(w) /\ h[w].pc = "check" /\ h'[w].con = h[w].con
    \/ UNCHANGED context /\ (h'[w].con.sel \in EnvSels => context)

\* The context is disabled only when nothing needs it.
LEMMA ContextSteps ==
  ASSUME TypeOK, TypeOK', StepOf, Baselines, [Next]_vars
  PROVE  ContextStep
  <1> USE ProjectionAssumption, Rows DEF ContextStep, Ids
  <1>1. ASSUME NEW w \in Workers, NEW c \in Contracts, PreviewBegin(w, c)
        PROVE  ContextStep
    BY <1>1, PreviewBeginEffect
  <1>2. ASSUME NEW w \in Workers, NEW o \in Ids, ApplyBegin(w, o) PROVE ContextStep
    BY <1>2, ApplyBeginEffect
  <1>3. ASSUME NEW w \in Workers, PreviewInsert(w) PROVE ContextStep
    BY <1>3, PreviewInsertEffect
  <1>4. ASSUME NEW w \in Workers, ApplyCheck(w) PROVE ContextStep
    BY <1>4, ApplyCheckEffect
  <1>5. ASSUME NEW w \in Workers, Send(w) PROVE ContextStep
    BY <1>5, SendEffect
  <1>6. ASSUME NEW w \in Workers, Receive(w) PROVE ContextStep
    BY <1>6, ReceiveEffect
  <1>7. ASSUME NEW w \in Workers, VerifyTarget(w) PROVE ContextStep
    BY <1>7, VerifyTargetEffect
  <1>8. ASSUME NEW w \in Workers, Persist(w) PROVE ContextStep
    BY <1>8, PersistEffect
  <1>9. ASSUME NEW w \in Workers, NEW o \in Ids, RecoverBegin(w, o)
        PROVE  ContextStep
    BY <1>9, RecoverBeginEffect
  <1>10. ASSUME NEW w \in Workers, RecoverInspect(w) PROVE ContextStep
    BY <1>10, RecoverInspectEffect
  <1>11. ASSUME NEW w \in Workers, RecoverDecide(w) PROVE ContextStep
    BY <1>11, RecoverDecideEffect
  <1>12. ASSUME NEW w \in Workers, VerifyClosed(w) PROVE ContextStep
    BY <1>12, VerifyClosedEffect
  <1>13. ASSUME NEW w \in Workers, MarkClosed(w) PROVE ContextStep
    BY <1>13, MarkClosedEffect
  <1>14. ASSUME NEW w \in Workers, MarkFailed(w) PROVE ContextStep
    BY <1>14, MarkFailedEffect
  <1>15. ASSUME NEW w \in Workers, MarkRecoveryRequired(w) PROVE ContextStep
    BY <1>15, MarkRecoveryRequiredEffect
  <1>16. ASSUME NEW w \in Workers, DeadSession(w) PROVE ContextStep
    BY <1>16, DeadSessionEffect
  <1>17. ASSUME NEW r \in wire, HasuraApplies(r) PROVE ContextStep
    BY <1>17, HasuraAppliesEffect
  <1>18. ASSUME NEW r \in wire, HasuraRejects(r) PROVE ContextStep
    BY <1>18, HasuraRejectsEffect
  <1>19. ASSUME NEW r \in wire, HasuraRefuses(r) PROVE ContextStep
    BY <1>19, HasuraRefusesEffect
  <1>20. ASSUME NEW w \in Workers, Timeout(w) PROVE ContextStep
    BY <1>20, TimeoutEffect
  <1>21. ASSUME NEW w \in Workers, Crash(w) PROVE ContextStep
    BY <1>21, CrashEffect
  <1>22. ASSUME NEW w \in Workers, DropSession(w) PROVE ContextStep
    BY <1>22, DropSessionEffect
  <1>23. ASSUME NEW w \in Workers, CommitLost(w) PROVE ContextStep
    BY <1>23, CommitLostEffect
  <1>24. ASSUME NEW w \in Workers, ExportFails(w) PROVE ContextStep
    BY <1>24, ExportFailsEffect
  <1>25. ASSUME NEW o \in Ids, LeaseAges(o) PROVE ContextStep
    BY <1>25, LeaseAgesEffect
  <1>26. ASSUME OtherMetadataChange PROVE ContextStep
    BY <1>26, OtherMetadataChangeEffect
  <1>27. ASSUME NEW t \in Tables, ConsoleEdit(t) PROVE ContextStep
    BY <1>27, ConsoleEditEffect
  <1>28. ASSUME NEW t \in Tables, DirectDdl(t) PROVE ContextStep
    BY <1>28, DirectDdlEffect
  <1>29. ASSUME NEW t \in Tables, PolicyChange(t) PROVE ContextStep
    BY <1>29, PolicyChangeEffect
  <1>30. ASSUME OrdinaryMutation PROVE ContextStep
    BY <1>30, OrdinaryMutationEffect
  <1>31. ASSUME setProjectRuntimeContext PROVE ContextStep
    BY <1>31, SetProjectRuntimeContextEffect
  <1>32. ASSUME disableProjectRuntimeContext PROVE ContextStep
    BY <1>32, DisableProjectRuntimeContextEffect
  <1>33. ASSUME NEW w \in Workers, ExportRejected(w) PROVE ContextStep
    BY <1>33, ExportRejectedEffect
  <1>34. CASE UNCHANGED vars
    BY <1>34 DEF vars
  <1> QED
    BY <1>1, <1>2, <1>3, <1>4, <1>5, <1>6, <1>7, <1>8, <1>9, <1>10, <1>11,
         <1>12, <1>13, <1>14, <1>15, <1>16, <1>17, <1>18, <1>19, <1>20, <1>21,
         <1>22, <1>23, <1>24, <1>25, <1>26, <1>27, <1>28, <1>29, <1>30, <1>31,
         <1>32, <1>33, <1>34 DEF Next, HandlerStep, FaultStep, HasuraStep, Environment,
         Time, Recover

\* An apply starts only with the context that its contract needs.
LEMMA CheckSteps ==
  ASSUME TypeOK, TypeOK', StepOf, Baselines, [Next]_vars
  PROVE  CheckStep
  <1> USE ProjectionAssumption, Rows DEF CheckStep, EnvironmentReady, Live,
       SameCall, Others, Moves, Leaves, Starts
  <1>1. ASSUME NEW w \in Workers, NEW c \in Contracts, PreviewBegin(w, c)
        PROVE  CheckStep
    BY <1>1, PreviewBeginEffect
  <1>2. ASSUME NEW w \in Workers, NEW o \in Ids, ApplyBegin(w, o) PROVE CheckStep
    BY <1>2, ApplyBeginEffect
  <1>3. ASSUME NEW w \in Workers, PreviewInsert(w) PROVE CheckStep
    BY <1>3, PreviewInsertEffect
  <1>4. ASSUME NEW w \in Workers, ApplyCheck(w) PROVE CheckStep
    BY <1>4, ApplyCheckEffect
  <1>5. ASSUME NEW w \in Workers, Send(w) PROVE CheckStep
    BY <1>5, SendEffect
  <1>6. ASSUME NEW w \in Workers, Receive(w) PROVE CheckStep
    BY <1>6, ReceiveEffect
  <1>7. ASSUME NEW w \in Workers, VerifyTarget(w) PROVE CheckStep
    BY <1>7, VerifyTargetEffect
  <1>8. ASSUME NEW w \in Workers, Persist(w) PROVE CheckStep
    BY <1>8, PersistEffect
  <1>9. ASSUME NEW w \in Workers, NEW o \in Ids, RecoverBegin(w, o) PROVE CheckStep
    BY <1>9, RecoverBeginEffect
  <1>10. ASSUME NEW w \in Workers, RecoverInspect(w) PROVE CheckStep
    BY <1>10, RecoverInspectEffect
  <1>11. ASSUME NEW w \in Workers, RecoverDecide(w) PROVE CheckStep
    BY <1>11, RecoverDecideEffect
  <1>12. ASSUME NEW w \in Workers, VerifyClosed(w) PROVE CheckStep
    BY <1>12, VerifyClosedEffect
  <1>13. ASSUME NEW w \in Workers, MarkClosed(w) PROVE CheckStep
    BY <1>13, MarkClosedEffect
  <1>14. ASSUME NEW w \in Workers, MarkFailed(w) PROVE CheckStep
    BY <1>14, MarkFailedEffect
  <1>15. ASSUME NEW w \in Workers, MarkRecoveryRequired(w) PROVE CheckStep
    BY <1>15, MarkRecoveryRequiredEffect
  <1>16. ASSUME NEW w \in Workers, DeadSession(w) PROVE CheckStep
    BY <1>16, DeadSessionEffect
  <1>17. ASSUME NEW r \in wire, HasuraApplies(r) PROVE CheckStep
    BY <1>17, HasuraAppliesEffect
  <1>18. ASSUME NEW r \in wire, HasuraRejects(r) PROVE CheckStep
    BY <1>18, HasuraRejectsEffect
  <1>19. ASSUME NEW r \in wire, HasuraRefuses(r) PROVE CheckStep
    BY <1>19, HasuraRefusesEffect
  <1>20. ASSUME NEW w \in Workers, Timeout(w) PROVE CheckStep
    BY <1>20, TimeoutEffect
  <1>21. ASSUME NEW w \in Workers, Crash(w) PROVE CheckStep
    BY <1>21, CrashEffect
  <1>22. ASSUME NEW w \in Workers, DropSession(w) PROVE CheckStep
    BY <1>22, DropSessionEffect
  <1>23. ASSUME NEW w \in Workers, CommitLost(w) PROVE CheckStep
    BY <1>23, CommitLostEffect
  <1>24. ASSUME NEW w \in Workers, ExportFails(w) PROVE CheckStep
    BY <1>24, ExportFailsEffect
  <1>25. ASSUME NEW o \in Ids, LeaseAges(o) PROVE CheckStep
    BY <1>25, LeaseAgesEffect
  <1>26. ASSUME OtherMetadataChange PROVE CheckStep
    BY <1>26, OtherMetadataChangeEffect
  <1>27. ASSUME NEW t \in Tables, ConsoleEdit(t) PROVE CheckStep
    BY <1>27, ConsoleEditEffect
  <1>28. ASSUME NEW t \in Tables, DirectDdl(t) PROVE CheckStep
    BY <1>28, DirectDdlEffect
  <1>29. ASSUME NEW t \in Tables, PolicyChange(t) PROVE CheckStep
    BY <1>29, PolicyChangeEffect
  <1>30. ASSUME OrdinaryMutation PROVE CheckStep
    BY <1>30, OrdinaryMutationEffect
  <1>31. ASSUME setProjectRuntimeContext PROVE CheckStep
    BY <1>31, SetProjectRuntimeContextEffect
  <1>32. ASSUME disableProjectRuntimeContext PROVE CheckStep
    BY <1>32, DisableProjectRuntimeContextEffect
  <1>33. ASSUME NEW w \in Workers, ExportRejected(w) PROVE CheckStep
    BY <1>33, ExportRejectedEffect
  <1>34. CASE UNCHANGED vars
    BY <1>34 DEF vars
  <1> QED
    BY <1>1, <1>2, <1>3, <1>4, <1>5, <1>6, <1>7, <1>8, <1>9, <1>10, <1>11,
         <1>12, <1>13, <1>14, <1>15, <1>16, <1>17, <1>18, <1>19, <1>20, <1>21,
         <1>22, <1>23, <1>24, <1>25, <1>26, <1>27, <1>28, <1>29, <1>30, <1>31,
         <1>32, <1>33, <1>34 DEF Next, HandlerStep, FaultStep, HasuraStep, Environment,
         Time, Recover


\* While the batches in flight stay so, an environment-scoped select stays backed.
LEMMA EnvOpen ==
  ASSUME TypeOK, Baselines, EnvBacked, InFlightKept, BaseKept, \A u \in Tables : SelStep(u)
  PROVE  EnvBacked'
  <1> SUFFICES ASSUME NEW t \in Tables \ misjudged', meta'.perms[t].sel \in EnvSels
               PROVE  \/ base'[t].perms.sel \in EnvSels
                      \/ \E o \in Ids' : InFlightOp(o)' /\ ops'[o].con.sel \in EnvSels
    BY DEF EnvBacked
  <1>1. CASE SelStays(t)
    BY <1>1 DEF SelStays, EnvBacked, InFlightKept, BaseKept
  <1>2. CASE t \in astray' /\ meta'.perms[t].sel = "owner"
    BY <1>2, SelFacts
  <1>3. CASE \E r \in wire : /\ r.op \in Ids /\ InFlightOp(r.op)
                             /\ meta'.perms[t].sel \in {ops[r.op].con.sel, "closed"}
    BY <1>3, SelFacts DEF InFlightKept
  <1> QED
    BY <1>1, <1>2, <1>3 DEF SelStep

\* An environment-scoped select stays backed when a batch ends, because the
\* tables are then kept.
LEMMA EnvBackedStep ==
  ASSUME TypeOK, StepOf, Baselines, OneActive, Claims, EnvBacked,
       KeptUnlessInFlight', \A u \in Tables : SelStep(u), RowStep
  PROVE  EnvBacked'
  <1>1. ASSUME RowsKept PROVE EnvBacked'
    <2>1. InFlightKept /\ BaseKept
      BY <1>1
         DEF RowsKept, SameRow, Updates, SameBut, Supersedes, Inserts, Records,
             InFlight, Active, InFlightOp, StepOf, ApplyPcs, RecoverPcs, InFlightKept,
             Claims, Settled, Live, Blocked
    <2> QED
      BY <2>1, EnvOpen
  <1>2. ASSUME RowsSuperseded PROVE EnvBacked'
    <2>1. InFlightKept /\ BaseKept
      BY <1>2
         DEF RowsSuperseded, SameRow, Updates, SameBut, Supersedes, Inserts, Records,
             InFlight, Active, InFlightOp, StepOf, ApplyPcs, RecoverPcs, InFlightKept,
             Claims, Settled, Live, Blocked
    <2> QED
      BY <2>1, EnvOpen
  <1>3. ASSUME NEW w \in Workers, NEW n \in Nat, RowInserted(w, n) PROVE EnvBacked'
    <2>1. InFlightKept /\ BaseKept
      BY <1>3
         DEF RowInserted, SameRow, Updates, SameBut, Supersedes, Inserts, Records,
             InFlight, Active, InFlightOp, StepOf, ApplyPcs, RecoverPcs, InFlightKept,
             Claims, Settled, Live, Blocked
    <2> QED
      BY <2>1, EnvOpen
  <1>4. ASSUME NEW w \in Workers, RowClaimed(w) PROVE EnvBacked'
    <2>1. InFlightKept /\ BaseKept
      BY <1>4
         DEF RowClaimed, SameRow, Updates, SameBut, Supersedes, Inserts, Records,
             InFlight, Active, InFlightOp, StepOf, ApplyPcs, RecoverPcs, InFlightKept,
             Claims, Settled, Live, Blocked
    <2> QED
      BY <2>1, EnvOpen
  <1>5. ASSUME NEW w \in Workers, RowRecorded(w) PROVE EnvBacked'
    <2>1. \A p \in Ids' : ~InFlightOp(p)'
      BY <1>5
         DEF RowRecorded, SameRow, Updates, SameBut, Supersedes, Inserts, Records,
             InFlight, Active, InFlightOp, StepOf, ApplyPcs, RecoverPcs, OneActive,
             Claims, Live
    <2> QED
      BY <2>1 DEF EnvBacked, KeptUnlessInFlight, Kept
  <1>6. ASSUME NEW w \in Workers, RowNotApplied(w) PROVE EnvBacked'
    <2>1. \A p \in Ids' : ~InFlightOp(p)'
      BY <1>6
         DEF RowNotApplied, SameRow, Updates, SameBut, Supersedes, Inserts, Records,
             InFlight, Active, InFlightOp, StepOf, ApplyPcs, RecoverPcs, OneActive,
             Claims, Live
    <2> QED
      BY <2>1 DEF EnvBacked, KeptUnlessInFlight, Kept
  <1>7. ASSUME NEW w \in Workers, RowClosed(w) PROVE EnvBacked'
    <2>1. \A p \in Ids' : ~InFlightOp(p)'
      BY <1>7
         DEF RowClosed, SameRow, Updates, SameBut, Supersedes, Inserts, Records,
             InFlight, Active, InFlightOp, StepOf, ApplyPcs, RecoverPcs, OneActive,
             Claims, Live
    <2> QED
      BY <2>1 DEF EnvBacked, KeptUnlessInFlight, Kept
  <1>8. ASSUME NEW w \in Workers, RowFailed(w) PROVE EnvBacked'
    <2>1. \A p \in Ids' : ~InFlightOp(p)'
      BY <1>8
         DEF RowFailed, SameRow, Updates, SameBut, Supersedes, Inserts, Records,
             InFlight, Active, InFlightOp, StepOf, ApplyPcs, RecoverPcs, OneActive,
             Claims, Live
    <2> QED
      BY <2>1 DEF EnvBacked, KeptUnlessInFlight, Kept
  <1>9. ASSUME NEW w \in Workers, RowKeptOpen(w) PROVE EnvBacked'
    <2>1. InFlightKept /\ BaseKept
      BY <1>9
         DEF RowKeptOpen, SameRow, Updates, SameBut, Supersedes, Inserts, Records,
             InFlight, Active, InFlightOp, StepOf, ApplyPcs, RecoverPcs, InFlightKept,
             Claims, Settled, Live, Blocked
    <2> QED
      BY <2>1, EnvOpen
  <1>10. ASSUME NEW o \in Ids, RowRecovered(o) PROVE EnvBacked'
    <2>1. InFlightKept /\ BaseKept
      BY <1>10
         DEF RowRecovered, SameRow, Updates, SameBut, Supersedes, Inserts, Records,
             InFlight, Active, InFlightOp, StepOf, ApplyPcs, RecoverPcs, InFlightKept,
             Claims, Settled, Live, Blocked
    <2> QED
      BY <2>1, EnvOpen
  <1>11. ASSUME NEW o \in Ids, RowAged(o) PROVE EnvBacked'
    <2>1. InFlightKept /\ BaseKept
      BY <1>11
         DEF RowAged, SameRow, Updates, SameBut, Supersedes, Inserts, Records,
             InFlight, Active, InFlightOp, StepOf, ApplyPcs, RecoverPcs, InFlightKept,
             Claims, Settled, Live, Blocked
    <2> QED
      BY <2>1, EnvOpen
  <1> QED
    BY <1>1, <1>2, <1>3, <1>4, <1>5, <1>6, <1>7, <1>8, <1>9, <1>10, <1>11
         DEF RowStep


\* The baselines and the batches in flight that need a context.
ContextNeeded ==
  \/ \E t \in Tables : base[t].perms.sel \in EnvSels
  \/ \E o \in Ids : InFlightOp(o) /\ ops[o].con.sel \in EnvSels

\* What needs a context after a step needed it before, or its call found one.
LEMMA NeedStep ==
  ASSUME TypeOK, StepOf, LatestRecorded, CompletedWrote, Claims, Contexts,
       RowStep
  PROVE  ContextNeeded' => ContextNeeded \/ context
  <1>1. ASSUME RowsKept PROVE ContextNeeded' => ContextNeeded \/ context
    <2>1. /\ \A q \in Ids' : InFlightOp(q)' =>
               q \in Ids /\ InFlightOp(q) /\ ops'[q].con = ops[q].con
          /\ BaseKept
      BY <1>1
         DEF RowsKept, SameRow, Updates, SameBut, Supersedes, Inserts, Records,
             InFlight, Active, InFlightOp, StepOf, ApplyPcs, RecoverPcs, Claims,
             Settled, Live
    <2> QED
      BY <2>1 DEF ContextNeeded, BaseKept
  <1>2. ASSUME RowsSuperseded PROVE ContextNeeded' => ContextNeeded \/ context
    <2>1. /\ \A q \in Ids' : InFlightOp(q)' =>
               q \in Ids /\ InFlightOp(q) /\ ops'[q].con = ops[q].con
          /\ BaseKept
      BY <1>2
         DEF RowsSuperseded, SameRow, Updates, SameBut, Supersedes, Inserts, Records,
             InFlight, Active, InFlightOp, StepOf, ApplyPcs, RecoverPcs, Claims,
             Settled, Live
    <2> QED
      BY <2>1 DEF ContextNeeded, BaseKept
  <1>3. ASSUME NEW w \in Workers, NEW n \in Nat, RowInserted(w, n)
        PROVE  ContextNeeded' => ContextNeeded \/ context
    <2>1. /\ \A q \in Ids' : InFlightOp(q)' =>
               q \in Ids /\ InFlightOp(q) /\ ops'[q].con = ops[q].con
          /\ BaseKept
      BY <1>3
         DEF RowInserted, SameRow, Updates, SameBut, Supersedes, Inserts, Records,
             InFlight, Active, InFlightOp, StepOf, ApplyPcs, RecoverPcs, Claims,
             Settled, Live
    <2> QED
      BY <2>1 DEF ContextNeeded, BaseKept
  <1>4. ASSUME NEW w \in Workers, RowClaimed(w)
        PROVE  ContextNeeded' => ContextNeeded \/ context
    <2>1. /\ h[w].op \in Ids /\ h[w].con = ops[h[w].op].con /\ ops'[h[w].op].con = ops[h[w].op].con
          /\ h[w].con.sel \in EnvSels => context
          /\ Ids' = Ids /\ \A q \in Ids \ {h[w].op} : ops'[q] = ops[q]
          /\ BaseKept
      BY <1>4 DEF RowClaimed, Updates, SameRow, StepOf, ApplyPcs, RecoverPcs, Contexts
    <2> QED
      BY <2>1 DEF ContextNeeded, BaseKept, InFlightOp
  <1>5. ASSUME NEW w \in Workers, RowRecorded(w)
        PROVE  ContextNeeded' => ContextNeeded \/ context
    <2>1. /\ h[w].op \in Ids /\ h[w].con = ops[h[w].op].con /\ InFlightOp(h[w].op)
          /\ \A t \in Tables : base'[t].perms.sel \in {base[t].perms.sel, h[w].con.sel}
          /\ Ids' = Ids /\ \A q \in Ids \ {h[w].op} : ops'[q] = ops[q]
          /\ ops'[h[w].op].status = "completed"
      BY <1>5
         DEF RowRecorded, Records, Updates, SameRow, StepOf, ApplyPcs, RecoverPcs,
             Claims, Live
    <2> QED
      BY <2>1 DEF ContextNeeded, InFlightOp, InFlight
  <1>6. ASSUME NEW w \in Workers, RowNotApplied(w)
        PROVE  ContextNeeded' => ContextNeeded \/ context
    <2>1. /\ \A q \in Ids' : InFlightOp(q)' =>
               q \in Ids /\ InFlightOp(q) /\ ops'[q].con = ops[q].con
          /\ BaseKept
      BY <1>6
         DEF RowNotApplied, SameRow, Updates, SameBut, Supersedes, Inserts, Records,
             InFlight, Active, InFlightOp, StepOf, ApplyPcs, RecoverPcs, Claims,
             Settled, Live
    <2> QED
      BY <2>1 DEF ContextNeeded, BaseKept
  <1>7. ASSUME NEW w \in Workers, RowClosed(w)
        PROVE  ContextNeeded' => ContextNeeded \/ context
    <2>1. /\ \A q \in Ids' : InFlightOp(q)' =>
               q \in Ids /\ InFlightOp(q) /\ ops'[q].con = ops[q].con
          /\ BaseKept
      BY <1>7
         DEF RowClosed, SameRow, Updates, SameBut, Supersedes, Inserts, Records,
             InFlight, Active, InFlightOp, StepOf, ApplyPcs, RecoverPcs, Claims,
             Settled, Live
    <2> QED
      BY <2>1 DEF ContextNeeded, BaseKept
  <1>8. ASSUME NEW w \in Workers, RowFailed(w)
        PROVE  ContextNeeded' => ContextNeeded \/ context
    <2>1. /\ \A q \in Ids' : InFlightOp(q)' =>
               q \in Ids /\ InFlightOp(q) /\ ops'[q].con = ops[q].con
          /\ BaseKept
      BY <1>8
         DEF RowFailed, SameRow, Updates, SameBut, Supersedes, Inserts, Records,
             InFlight, Active, InFlightOp, StepOf, ApplyPcs, RecoverPcs, Claims,
             Settled, Live
    <2> QED
      BY <2>1 DEF ContextNeeded, BaseKept
  <1>9. ASSUME NEW w \in Workers, RowKeptOpen(w)
        PROVE  ContextNeeded' => ContextNeeded \/ context
    <2>1. /\ \A q \in Ids' : InFlightOp(q)' =>
               q \in Ids /\ InFlightOp(q) /\ ops'[q].con = ops[q].con
          /\ BaseKept
      BY <1>9
         DEF RowKeptOpen, SameRow, Updates, SameBut, Supersedes, Inserts, Records,
             InFlight, Active, InFlightOp, StepOf, ApplyPcs, RecoverPcs, Claims,
             Settled, Live
    <2> QED
      BY <2>1 DEF ContextNeeded, BaseKept
  <1>10. ASSUME NEW o \in Ids, RowRecovered(o)
        PROVE  ContextNeeded' => ContextNeeded \/ context
    <2>1. /\ Ids' = Ids /\ ops'[o].con = ops[o].con /\ BaseKept
          /\ \A q \in Ids \ {o} : InFlightOp(q)' =>
               InFlightOp(q) /\ ops'[q].con = ops[q].con
      BY <1>10 DEF RowRecovered, SameBut, SameRow, InFlightOp, InFlight
    <2>2. ops[o].con.sel \in EnvSels => ContextNeeded
      <3>1. CASE InFlightOp(o)
        BY <3>1 DEF ContextNeeded
      <3>2. CASE ops[o].status = "completed" /\ LatestCompleted(o)
        <4>1. \A t \in ops[o].con.tables : base[t].perms.sel = ops[o].con.sel
          BY <3>2 DEF LatestRecorded, CompletedWrote
        <4>2. ops[o].con.tables # {} /\ ops[o].con.tables \subseteq Tables
          BY RowTables, ProjectionAssumption
        <4> QED
          BY <4>1, <4>2 DEF ContextNeeded
      <3> QED
        BY <1>10, <3>1, <3>2 DEF RowRecovered, InFlightOp
    <2> QED
      BY <2>1, <2>2 DEF ContextNeeded, BaseKept
  <1>11. ASSUME NEW o \in Ids, RowAged(o)
        PROVE  ContextNeeded' => ContextNeeded \/ context
    <2>1. /\ \A q \in Ids' : InFlightOp(q)' =>
               q \in Ids /\ InFlightOp(q) /\ ops'[q].con = ops[q].con
          /\ BaseKept
      BY <1>11
         DEF RowAged, SameRow, Updates, SameBut, Supersedes, Inserts, Records,
             InFlight, Active, InFlightOp, StepOf, ApplyPcs, RecoverPcs, Claims,
             Settled, Live
    <2> QED
      BY <2>1 DEF ContextNeeded, BaseKept
  <1> QED
    BY <1>1, <1>2, <1>3, <1>4, <1>5, <1>6, <1>7, <1>8, <1>9, <1>10, <1>11
         DEF RowStep


\* An environment-scoped select is enforced, recorded or under way only in a project
\* with a runtime context.
LEMMA ContextsStep ==
  ASSUME TypeOK, TypeOK', StepOf, Baselines, OneActive, LockOfLive, LatestRecorded,
         CompletedWrote, Claims, Contexts, KeptUnlessInFlight',
         \A u \in Tables : SelStep(u), RowStep, ContextStep, CheckStep
  PROVE  Contexts'
  <1>1. EnvBacked /\ (ContextNeeded => context)
    BY DEF EnvBacked, ContextNeeded, Contexts
  <1>2. EnvBacked'
    BY <1>1, EnvBackedStep
  <1>3. ContextNeeded' => context
    BY <1>1, NeedStep
  <1>4. ContextNeeded' => context'
    <2>1. ASSUME ~ContextRequired, UNCHANGED <<ops, Ids, base, meta, h, conn>>
          PROVE  ~ContextNeeded'
      BY <2>1 DEF ContextRequired, ContextNeeded, InFlightOp
    <2>2. context \in BOOLEAN /\ context' \in BOOLEAN
      BY DEF TypeOK
    <2>3. CASE UNCHANGED context
      BY <1>3, <2>2, <2>3
    <2>4. CASE ~ContextRequired /\ UNCHANGED <<ops, Ids, base, meta, h, conn>>
      BY <2>1, <2>4
    <2> QED
      BY <2>3, <2>4 DEF ContextStep
  <1>5. \A w \in Workers : Live(w)' /\ h'[w].pc = "check" /\ h'[w].con.sel \in EnvSels =>
            context'
    <2> SUFFICES ASSUME NEW w \in Workers, Live(w)', h'[w].pc = "check",
    h'[w].con.sel \in EnvSels
                 PROVE  context'
      OBVIOUS
    <2>1. \/ Live(w) /\ h[w].pc = "check" /\ h'[w].con = h[w].con
          \/ UNCHANGED context /\ (h'[w].con.sel \in EnvSels => context)
      BY DEF CheckStep, Live
    <2>2. CASE Live(w) /\ h[w].pc = "check" /\ h'[w].con = h[w].con
      <3>1. context /\ lock # NoWorker
        BY <2>2, ProjectionAssumption DEF Contexts, LockOfLive
      <3> QED
        BY <3>1 DEF ContextStep
    <2> QED
      BY <2>1, <2>2
  <1> QED
    BY <1>2, <1>4, <1>5 DEF Contexts, EnvBacked, ContextNeeded


-----------------------------------------------------------------------------
(* How far a live handler got.                                             *)

\* Nothing changes but the handler.
Frozen == UNCHANGED <<ops, Ids, base, meta, version, astray, misjudged>>

\* No row ends, no baseline changes its projection and no edit is recovered.
Still ==
  /\ BaseKept /\ astray \subseteq astray' /\ Ids' = Ids
  /\ \A q \in Ids :
       /\ SameRow(ops'[q], ops[q]) /\ ops'[q].wrote = ops[q].wrote
       /\ ops'[q].error = ops[q].error
       /\ ops'[q].status = "completed" => ops[q].status = "completed"

\* A handler that only sees others move: no request under way is applied unless it
\* is the one it waits for.
Stays(v) ==
  /\ Live(v) /\ h'[v] = h[v] /\ Still
  /\ resp'[v] # "ok" => resp[v] # "ok"
  /\ (h[v].pc \notin {"await", "toRecovery"} \/ (h[v].pc = "await" /\ resp'[v] # "ok")) =>
       \A t \in Tables : SelStays(t) \/ (t \in astray' /\ meta'.perms[t].sel = "owner")

\* A handler that moves to a place where something is known of the tables.
GoesOn(v) ==
  /\ Live(v) /\ h'[v].mode = h[v].mode /\ h'[v].op = h[v].op /\ h'[v].con = h[v].con
  /\ \/ h[v].pc = "check" /\ h'[v].pc = "send" /\ RowClaimed(v)
     \/ h[v].pc = "send" /\ h'[v].pc = "await" /\ Frozen
     \/ /\ h[v].pc = "await" /\ h'[v].pc = "toFailed" /\ Frozen
        /\ h[v].mode = "apply" /\ resp[v] # "ok"
     \/ /\ h[v].pc = "verify" /\ h'[v].pc = "toFailed" /\ h[v].mode = "apply"
        /\ astray' = astray \cup h[v].con.tables
        /\ misjudged' = misjudged \cup h[v].con.tables
        /\ UNCHANGED <<ops, Ids, base, meta, version>>
     \/ /\ h[v].pc = "verify" /\ h'[v].pc = "persist" /\ Frozen
        /\ MetadataDigest(meta, h[v].con) = MetadataDigest(Target(v), h[v].con)
     \/ h[v].pc = "decide" /\ h'[v].pc = "persist" /\ Frozen /\ TargetActive(v)
     \/ /\ h[v].pc = "verify" /\ h'[v].pc = "closed" /\ Frozen
        /\ MetadataDigest(meta, h[v].con)
             = MetadataDigest(FailClosed(h[v].meta, h[v].con), h[v].con)
     \/ /\ h[v].pc = "inspect" /\ h'[v].pc = "decide" /\ Frozen
        /\ h'[v].meta = meta /\ h'[v].ver = version

\* A live handler after a step: it saw others move, or got on itself.
MoveStep(v) ==
  \/ Stays(v) \/ GoesOn(v)
  \/ h'[v].pc \in {"insert", "check", "inspect", "verify", "toRecovery"}
  \/ h'[v].mode = "recover" /\ h'[v].pc = "send"

\* While a handler is live the others do nothing to the rows, the baselines or
\* the tables, and Hasura applies no request but its own.
LEMMA MoveSteps ==
  ASSUME TypeOK, TypeOK', StepOf, Baselines, LockOfLive, Requests, [Next]_vars
  PROVE  \A u \in Workers : Live(u)' => MoveStep(u)
  <1> USE ProjectionAssumption, Rows, Numbers DEF LockOfLive, Live, Requests,
       LiveAlone, RequestOwners, StepOf, ApplyPcs, RecoverPcs
  <1>1. ASSUME NEW w \in Workers, NEW c \in Contracts, PreviewBegin(w, c)
        PROVE  \A u \in Workers : Live(u)' => MoveStep(u)
    <2>1. ASSUME NEW v \in Workers \ {w}, Live(v)' PROVE Stays(v)
      BY <1>1, <2>1, PreviewBeginEffect
         DEF Stays, SelStays, Still, BaseKept, SameCall, Others, Moves, Leaves, Starts,
             SameRow, Updates, SameBut, Supersedes, Inserts, Records
    <2>2. ASSUME Live(w)' PROVE MoveStep(w)
      BY <1>1, <2>2, PreviewBeginEffect
         DEF MoveStep, SameCall, Others, Moves, Leaves, Starts
    <2> QED
      BY <2>1, <2>2 DEF MoveStep
  <1>2. ASSUME NEW w \in Workers, NEW o \in Ids, ApplyBegin(w, o)
        PROVE  \A u \in Workers : Live(u)' => MoveStep(u)
    <2>1. ASSUME NEW v \in Workers \ {w}, Live(v)' PROVE Stays(v)
      BY <1>2, <2>1, ApplyBeginEffect
         DEF Stays, SelStays, Still, BaseKept, SameCall, Others, Moves, Leaves, Starts,
             SameRow, Updates, SameBut, Supersedes, Inserts, Records
    <2>2. ASSUME Live(w)' PROVE MoveStep(w)
      BY <1>2, <2>2, ApplyBeginEffect
         DEF MoveStep, SameCall, Others, Moves, Leaves, Starts
    <2> QED
      BY <2>1, <2>2 DEF MoveStep
  <1>3. ASSUME NEW w \in Workers, PreviewInsert(w)
        PROVE  \A u \in Workers : Live(u)' => MoveStep(u)
    <2>1. ASSUME NEW v \in Workers \ {w}, Live(v)' PROVE Stays(v)
      BY <1>3, <2>1, PreviewInsertEffect
         DEF Stays, SelStays, Still, BaseKept, SameCall, Others, Moves, Leaves, Starts,
             SameRow, Updates, SameBut, Supersedes, Inserts, Records
    <2>2. ASSUME Live(w)' PROVE MoveStep(w)
      BY <1>3, <2>2, PreviewInsertEffect
         DEF MoveStep, SameCall, Others, Moves, Leaves, Starts
    <2> QED
      BY <2>1, <2>2 DEF MoveStep
  <1>4. ASSUME NEW w \in Workers, ApplyCheck(w)
        PROVE  \A u \in Workers : Live(u)' => MoveStep(u)
    <2>1. ASSUME NEW v \in Workers \ {w}, Live(v)' PROVE Stays(v)
      BY <1>4, <2>1, ApplyCheckEffect
         DEF Stays, SelStays, Still, BaseKept, SameCall, Others, Moves, Leaves, Starts,
             SameRow, Updates, SameBut, Supersedes, Inserts, Records
    <2>2. ASSUME Live(w)' PROVE MoveStep(w)
      BY <1>4, <2>2, ApplyCheckEffect
         DEF MoveStep, GoesOn, RowClaimed, BaseKept, Quiet, SameCall, Others, Moves,
             Leaves, Starts
    <2> QED
      BY <2>1, <2>2 DEF MoveStep
  <1>5. ASSUME NEW w \in Workers, Send(w)
        PROVE  \A u \in Workers : Live(u)' => MoveStep(u)
    <2>1. ASSUME NEW v \in Workers \ {w}, Live(v)' PROVE Stays(v)
      BY <1>5, <2>1, SendEffect
         DEF Stays, SelStays, Still, BaseKept, SameCall, Others, Moves, Leaves, Starts,
             SameRow, Updates, SameBut, Supersedes, Inserts, Records
    <2>2. ASSUME Live(w)' PROVE MoveStep(w)
      BY <1>5, <2>2, SendEffect
         DEF MoveStep, GoesOn, Frozen, SameCall, Others, Moves, Leaves, Starts
    <2> QED
      BY <2>1, <2>2 DEF MoveStep
  <1>6. ASSUME NEW w \in Workers, Receive(w)
        PROVE  \A u \in Workers : Live(u)' => MoveStep(u)
    <2>1. ASSUME NEW v \in Workers \ {w}, Live(v)' PROVE Stays(v)
      BY <1>6, <2>1, ReceiveEffect
         DEF Stays, SelStays, Still, BaseKept, SameCall, Others, Moves, Leaves, Starts,
             SameRow, Updates, SameBut, Supersedes, Inserts, Records
    <2>2. ASSUME Live(w)' PROVE MoveStep(w)
      BY <1>6, <2>2, ReceiveEffect
         DEF MoveStep, GoesOn, Frozen, SameCall, Others, Moves, Leaves, Starts
    <2> QED
      BY <2>1, <2>2 DEF MoveStep
  <1>7. ASSUME NEW w \in Workers, VerifyTarget(w)
        PROVE  \A u \in Workers : Live(u)' => MoveStep(u)
    <2>1. ASSUME NEW v \in Workers \ {w}, Live(v)' PROVE Stays(v)
      BY <1>7, <2>1, VerifyTargetEffect
         DEF Stays, SelStays, Still, BaseKept, SameCall, Others, Moves, Leaves, Starts,
             SameRow, Updates, SameBut, Supersedes, Inserts, Records
    <2>2. ASSUME Live(w)' PROVE MoveStep(w)
      BY <1>7, <2>2, VerifyTargetEffect
         DEF MoveStep, GoesOn, Frozen, SameCall, Others, Moves, Leaves, Starts
    <2> QED
      BY <2>1, <2>2 DEF MoveStep
  <1>8. ASSUME NEW w \in Workers, Persist(w)
        PROVE  \A u \in Workers : Live(u)' => MoveStep(u)
    <2>1. /\ h[w].pc = "persist" /\ conn[w]
          /\ Moves(w, "toRecovery") \/ Leaves(w)
      BY <1>8, PersistEffect
    <2>2. ASSUME NEW v \in Workers \ {w} PROVE ~Live(v)'
      BY <2>1 DEF Moves, Leaves, Others
    <2>3. ASSUME Live(w)' PROVE MoveStep(w)
      BY <2>1, <2>3 DEF MoveStep, Moves, Leaves
    <2> QED
      BY <2>2, <2>3
  <1>9. ASSUME NEW w \in Workers, NEW o \in Ids, RecoverBegin(w, o)
        PROVE  \A u \in Workers : Live(u)' => MoveStep(u)
    <2>1. ASSUME NEW v \in Workers \ {w}, Live(v)' PROVE Stays(v)
      BY <1>9, <2>1, RecoverBeginEffect
         DEF Stays, SelStays, Still, BaseKept, SameCall, Others, Moves, Leaves, Starts,
             SameRow, Updates, SameBut, Supersedes, Inserts, Records
    <2>2. ASSUME Live(w)' PROVE MoveStep(w)
      BY <1>9, <2>2, RecoverBeginEffect
         DEF MoveStep, SameCall, Others, Moves, Leaves, Starts
    <2> QED
      BY <2>1, <2>2 DEF MoveStep
  <1>10. ASSUME NEW w \in Workers, RecoverInspect(w)
        PROVE  \A u \in Workers : Live(u)' => MoveStep(u)
    <2>1. ASSUME NEW v \in Workers \ {w}, Live(v)' PROVE Stays(v)
      BY <1>10, <2>1, RecoverInspectEffect
         DEF Stays, SelStays, Still, BaseKept, SameCall, Others, Moves, Leaves, Starts,
             SameRow, Updates, SameBut, Supersedes, Inserts, Records
    <2>2. ASSUME Live(w)' PROVE MoveStep(w)
      BY <1>10, <2>2, RecoverInspectEffect
         DEF MoveStep, GoesOn, Frozen, SameCall, Others, Moves, Leaves, Starts
    <2> QED
      BY <2>1, <2>2 DEF MoveStep
  <1>11. ASSUME NEW w \in Workers, RecoverDecide(w)
        PROVE  \A u \in Workers : Live(u)' => MoveStep(u)
    <2>1. ASSUME NEW v \in Workers \ {w}, Live(v)' PROVE Stays(v)
      BY <1>11, <2>1, RecoverDecideEffect, SMTT(20)
         DEF Stays, SelStays, Still, BaseKept, SameCall, Others, Moves, Leaves, Starts,
             SameRow, Updates, SameBut, Supersedes, Inserts, Records
    <2>2. ASSUME Live(w)' PROVE MoveStep(w)
      BY <1>11, <2>2, RecoverDecideEffect
         DEF MoveStep, GoesOn, Frozen, SameCall, Others, Moves, Leaves, Starts
    <2> QED
      BY <2>1, <2>2 DEF MoveStep
  <1>12. ASSUME NEW w \in Workers, VerifyClosed(w)
        PROVE  \A u \in Workers : Live(u)' => MoveStep(u)
    <2>1. ASSUME NEW v \in Workers \ {w}, Live(v)' PROVE Stays(v)
      BY <1>12, <2>1, VerifyClosedEffect
         DEF Stays, SelStays, Still, BaseKept, SameCall, Others, Moves, Leaves, Starts,
             SameRow, Updates, SameBut, Supersedes, Inserts, Records
    <2>2. ASSUME Live(w)' PROVE MoveStep(w)
      BY <1>12, <2>2, VerifyClosedEffect
         DEF MoveStep, GoesOn, Frozen, SameCall, Others, Moves, Leaves, Starts
    <2> QED
      BY <2>1, <2>2 DEF MoveStep
  <1>13. ASSUME NEW w \in Workers, MarkClosed(w)
        PROVE  \A u \in Workers : Live(u)' => MoveStep(u)
    <2>1. ASSUME NEW v \in Workers \ {w}, Live(v)' PROVE Stays(v)
      BY <1>13, <2>1, MarkClosedEffect
         DEF Stays, SelStays, Still, BaseKept, SameCall, Others, Moves, Leaves, Starts,
             SameRow, Updates, SameBut, Supersedes, Inserts, Records
    <2>2. ASSUME Live(w)' PROVE MoveStep(w)
      BY <1>13, <2>2, MarkClosedEffect
         DEF MoveStep, SameCall, Others, Moves, Leaves, Starts
    <2> QED
      BY <2>1, <2>2 DEF MoveStep
  <1>14. ASSUME NEW w \in Workers, MarkFailed(w)
        PROVE  \A u \in Workers : Live(u)' => MoveStep(u)
    <2>1. ASSUME NEW v \in Workers \ {w}, Live(v)' PROVE Stays(v)
      BY <1>14, <2>1, MarkFailedEffect, SMTT(20)
         DEF Stays, SelStays, Still, BaseKept, SameCall, Others, Moves, Leaves, Starts,
             SameRow, Updates, SameBut, Supersedes, Inserts, Records
    <2>2. ASSUME Live(w)' PROVE MoveStep(w)
      BY <1>14, <2>2, MarkFailedEffect
         DEF MoveStep, SameCall, Others, Moves, Leaves, Starts
    <2> QED
      BY <2>1, <2>2 DEF MoveStep
  <1>15. ASSUME NEW w \in Workers, MarkRecoveryRequired(w)
        PROVE  \A u \in Workers : Live(u)' => MoveStep(u)
    <2>1. ASSUME NEW v \in Workers \ {w}, Live(v)' PROVE Stays(v)
      BY <1>15, <2>1, MarkRecoveryRequiredEffect
         DEF Stays, SelStays, Still, BaseKept, SameCall, Others, Moves, Leaves, Starts,
             SameRow, Updates, SameBut, Supersedes, Inserts, Records
    <2>2. ASSUME Live(w)' PROVE MoveStep(w)
      BY <1>15, <2>2, MarkRecoveryRequiredEffect
         DEF MoveStep, SameCall, Others, Moves, Leaves, Starts
    <2> QED
      BY <2>1, <2>2 DEF MoveStep
  <1>16. ASSUME NEW w \in Workers, DeadSession(w)
        PROVE  \A u \in Workers : Live(u)' => MoveStep(u)
    <2>1. ASSUME NEW v \in Workers \ {w}, Live(v)' PROVE Stays(v)
      BY <1>16, <2>1, DeadSessionEffect
         DEF Stays, SelStays, Still, BaseKept, SameCall, Others, Moves, Leaves, Starts,
             SameRow, Updates, SameBut, Supersedes, Inserts, Records
    <2>2. ASSUME Live(w)' PROVE MoveStep(w)
      BY <1>16, <2>2, DeadSessionEffect
         DEF MoveStep, SameCall, Others, Moves, Leaves, Starts
    <2> QED
      BY <2>1, <2>2 DEF MoveStep
  <1>17. ASSUME NEW r \in wire, HasuraApplies(r)
        PROVE  \A u \in Workers : Live(u)' => MoveStep(u)
    <2>1. ASSUME NEW v \in Workers, Live(v)' PROVE Stays(v)
      BY <1>17, <2>1, HasuraAppliesEffect
         DEF Stays, SelStays, Still, BaseKept, SameRow, Updates, SameBut, Supersedes,
             Inserts, Records
    <2> QED
      BY <2>1 DEF MoveStep
  <1>18. ASSUME NEW r \in wire, HasuraRejects(r)
        PROVE  \A u \in Workers : Live(u)' => MoveStep(u)
    <2>1. ASSUME NEW v \in Workers, Live(v)' PROVE Stays(v)
      BY <1>18, <2>1, HasuraRejectsEffect
         DEF Stays, SelStays, Still, BaseKept, SameRow, Updates, SameBut, Supersedes,
             Inserts, Records
    <2> QED
      BY <2>1 DEF MoveStep
  <1>19. ASSUME NEW r \in wire, HasuraRefuses(r)
        PROVE  \A u \in Workers : Live(u)' => MoveStep(u)
    <2>1. ASSUME NEW v \in Workers, Live(v)' PROVE Stays(v)
      BY <1>19, <2>1, HasuraRefusesEffect
         DEF Stays, SelStays, Still, BaseKept, SameRow, Updates, SameBut, Supersedes,
             Inserts, Records
    <2> QED
      BY <2>1 DEF MoveStep
  <1>20. ASSUME NEW w \in Workers, Timeout(w)
        PROVE  \A u \in Workers : Live(u)' => MoveStep(u)
    <2>1. ASSUME NEW v \in Workers \ {w}, Live(v)' PROVE Stays(v)
      BY <1>20, <2>1, TimeoutEffect
         DEF Stays, SelStays, Still, BaseKept, SameCall, Others, Moves, Leaves, Starts,
             SameRow, Updates, SameBut, Supersedes, Inserts, Records
    <2>2. ASSUME Live(w)' PROVE MoveStep(w)
      BY <1>20, <2>2, TimeoutEffect
         DEF MoveStep, SameCall, Others, Moves, Leaves, Starts
    <2> QED
      BY <2>1, <2>2 DEF MoveStep
  <1>21. ASSUME NEW w \in Workers, Crash(w)
        PROVE  \A u \in Workers : Live(u)' => MoveStep(u)
    <2>1. ASSUME NEW v \in Workers \ {w}, Live(v)' PROVE Stays(v)
      BY <1>21, <2>1, CrashEffect
         DEF Stays, SelStays, Still, BaseKept, SameCall, Others, Moves, Leaves, Starts,
             SameRow, Updates, SameBut, Supersedes, Inserts, Records
    <2>2. ASSUME Live(w)' PROVE MoveStep(w)
      BY <1>21, <2>2, CrashEffect
         DEF MoveStep, SameCall, Others, Moves, Leaves, Starts
    <2> QED
      BY <2>1, <2>2 DEF MoveStep
  <1>22. ASSUME NEW w \in Workers, DropSession(w)
        PROVE  \A u \in Workers : Live(u)' => MoveStep(u)
    <2>1. ASSUME NEW v \in Workers \ {w}, Live(v)' PROVE Stays(v)
      BY <1>22, <2>1, DropSessionEffect
         DEF Stays, SelStays, Still, BaseKept, SameCall, Others, Moves, Leaves, Starts,
             SameRow, Updates, SameBut, Supersedes, Inserts, Records
    <2>2. ASSUME Live(w)' PROVE MoveStep(w)
      BY <1>22, <2>2, DropSessionEffect
         DEF MoveStep, SameCall, Others, Moves, Leaves, Starts
    <2> QED
      BY <2>1, <2>2 DEF MoveStep
  <1>23. ASSUME NEW w \in Workers, CommitLost(w)
        PROVE  \A u \in Workers : Live(u)' => MoveStep(u)
    <2>1. /\ h[w].pc = "persist" /\ conn[w]
          /\ Moves(w, "toRecovery") \/ Leaves(w)
      BY <1>23, CommitLostEffect
    <2>2. ASSUME NEW v \in Workers \ {w} PROVE ~Live(v)'
      BY <2>1 DEF Moves, Leaves, Others
    <2>3. ASSUME Live(w)' PROVE MoveStep(w)
      BY <2>1, <2>3 DEF MoveStep, Moves, Leaves
    <2> QED
      BY <2>2, <2>3
  <1>24. ASSUME NEW w \in Workers, ExportFails(w)
        PROVE  \A u \in Workers : Live(u)' => MoveStep(u)
    <2>1. ASSUME NEW v \in Workers \ {w}, Live(v)' PROVE Stays(v)
      BY <1>24, <2>1, ExportFailsEffect
         DEF Stays, SelStays, Still, BaseKept, SameCall, Others, Moves, Leaves, Starts,
             SameRow, Updates, SameBut, Supersedes, Inserts, Records
    <2>2. ASSUME Live(w)' PROVE MoveStep(w)
      BY <1>24, <2>2, ExportFailsEffect
         DEF MoveStep, SameCall, Others, Moves, Leaves, Starts
    <2> QED
      BY <2>1, <2>2 DEF MoveStep
  <1>25. ASSUME NEW o \in Ids, LeaseAges(o)
        PROVE  \A u \in Workers : Live(u)' => MoveStep(u)
    <2>1. /\ Updates(o, ops[o].status, ops[o].error, ops[o].wrote)
          /\ UNCHANGED <<base, meta, astray, misjudged, h, conn, resp>>
      BY <1>25, LeaseAgesEffect
    <2>2. Still
      BY <2>1, SMTT(20) DEF Still, BaseKept, Updates, SameRow
    <2> QED
      BY <2>1, <2>2 DEF MoveStep, Stays, SelStays
  <1>26. ASSUME OtherMetadataChange PROVE \A u \in Workers : Live(u)' => MoveStep(u)
    <2>1. ASSUME NEW v \in Workers, Live(v)' PROVE Stays(v)
      BY <1>26, <2>1, OtherMetadataChangeEffect
         DEF Stays, SelStays, Still, BaseKept, SameRow, Updates, SameBut, Supersedes,
             Inserts, Records
    <2> QED
      BY <2>1 DEF MoveStep
  <1>27. ASSUME NEW t \in Tables, ConsoleEdit(t)
        PROVE  \A u \in Workers : Live(u)' => MoveStep(u)
    <2>1. ASSUME NEW v \in Workers, Live(v)' PROVE Stays(v)
      BY <1>27, <2>1, ConsoleEditEffect, SMTT(20)
         DEF Stays, SelStays, Still, BaseKept, SameRow, Updates, SameBut, Supersedes,
             Inserts, Records
    <2> QED
      BY <2>1 DEF MoveStep
  <1>28. ASSUME NEW t \in Tables, DirectDdl(t)
        PROVE  \A u \in Workers : Live(u)' => MoveStep(u)
    <2>1. ASSUME NEW v \in Workers, Live(v)' PROVE Stays(v)
      BY <1>28, <2>1, DirectDdlEffect
         DEF Stays, SelStays, Still, BaseKept, SameRow, Updates, SameBut, Supersedes,
             Inserts, Records
    <2> QED
      BY <2>1 DEF MoveStep
  <1>29. ASSUME NEW t \in Tables, PolicyChange(t)
        PROVE  \A u \in Workers : Live(u)' => MoveStep(u)
    <2>1. ASSUME NEW v \in Workers, Live(v)' PROVE Stays(v)
      BY <1>29, <2>1, PolicyChangeEffect
         DEF Stays, SelStays, Still, BaseKept, SameRow, Updates, SameBut, Supersedes,
             Inserts, Records
    <2> QED
      BY <2>1 DEF MoveStep
  <1>30. ASSUME OrdinaryMutation PROVE \A u \in Workers : Live(u)' => MoveStep(u)
    <2>1. ASSUME NEW v \in Workers, Live(v)' PROVE Stays(v)
      BY <1>30, <2>1, OrdinaryMutationEffect
         DEF Stays, SelStays, Still, BaseKept, SameRow, Updates, SameBut, Supersedes,
             Inserts, Records
    <2> QED
      BY <2>1 DEF MoveStep
  <1>31. ASSUME setProjectRuntimeContext
        PROVE  \A u \in Workers : Live(u)' => MoveStep(u)
    <2>1. ASSUME NEW v \in Workers, Live(v)' PROVE Stays(v)
      BY <1>31, <2>1, SetProjectRuntimeContextEffect
         DEF Stays, SelStays, Still, BaseKept, SameRow, Updates, SameBut, Supersedes,
             Inserts, Records
    <2> QED
      BY <2>1 DEF MoveStep
  <1>32. ASSUME disableProjectRuntimeContext
        PROVE  \A u \in Workers : Live(u)' => MoveStep(u)
    <2>1. ASSUME NEW v \in Workers, Live(v)' PROVE Stays(v)
      BY <1>32, <2>1, DisableProjectRuntimeContextEffect
         DEF Stays, SelStays, Still, BaseKept, SameRow, Updates, SameBut, Supersedes,
             Inserts, Records
    <2> QED
      BY <2>1 DEF MoveStep
  <1>33. ASSUME NEW w \in Workers, ExportRejected(w)
        PROVE  \A u \in Workers : Live(u)' => MoveStep(u)
    <2>1. ASSUME NEW v \in Workers \ {w}, Live(v)' PROVE Stays(v)
      BY <1>33, <2>1, ExportRejectedEffect
         DEF Stays, SelStays, Still, BaseKept, SameCall, Others, Moves, Leaves, Starts,
             SameRow, Updates, SameBut, Supersedes, Inserts, Records
    <2>2. ASSUME Live(w)' PROVE MoveStep(w)
      BY <1>33, <2>2, ExportRejectedEffect
         DEF MoveStep, GoesOn, SameCall, Others, Moves, Leaves, Starts
    <2> QED
      BY <2>1, <2>2 DEF MoveStep
  <1>34. CASE UNCHANGED vars
    BY <1>34 DEF vars, MoveStep, Stays, SelStays, Still, BaseKept, SameRow, Ids
  <1> QED
    BY <1>1, <1>2, <1>3, <1>4, <1>5, <1>6, <1>7, <1>8, <1>9, <1>10, <1>11,
         <1>12, <1>13, <1>14, <1>15, <1>16, <1>17, <1>18, <1>19, <1>20, <1>21,
         <1>22, <1>23, <1>24, <1>25, <1>26, <1>27, <1>28, <1>29, <1>30, <1>31,
         <1>32, <1>33, <1>34 DEF Next, HandlerStep, FaultStep, HasuraStep, Environment,
         Time, Recover


\* What a digest of the tables of a contract says of their selects.
LEMMA DigestSels ==
  ASSUME NEW m \in Metadata, NEW c \in Contracts,
         MetadataDigest(meta, c) = MetadataDigest(TargetMetadata(m, c), c)
           \/ MetadataDigest(meta, c) = MetadataDigest(FailClosed(m, c), c)
  PROVE  /\ MetadataDigest(meta, c) = MetadataDigest(TargetMetadata(m, c), c)
              => \A t \in c.tables : meta.perms[t].sel = c.sel
         /\ MetadataDigest(meta, c) = MetadataDigest(FailClosed(m, c), c)
              => \A t \in c.tables : meta.perms[t].sel = "closed"
  <1>1. c.tables \subseteq Tables
    BY ProjectionAssumption
  <1>2. \A t \in c.tables : MetadataDigest(meta, c)[t] = meta.perms[t]
    BY DEF MetadataDigest
  <1>3. \A t \in c.tables : MetadataDigest(TargetMetadata(m, c), c)[t] = TargetMetadata(m, c).perms[t]
    BY DEF MetadataDigest
  <1>4. \A t \in c.tables : MetadataDigest(FailClosed(m, c), c)[t] = FailClosed(m, c).perms[t]
    BY DEF MetadataDigest
  <1>5. \A t \in c.tables : /\ TargetMetadata(m, c).perms[t].sel = c.sel
                            /\ FailClosed(m, c).perms[t].sel = "closed"
    BY <1>1, Rewritten
  <1> QED
    BY <1>2, <1>3, <1>4, <1>5

\* The same of the copy that a handler took.
LEMMA CopiedSels ==
  ASSUME NEW k \in Metadata, NEW m \in Metadata, NEW c \in Contracts,
         MetadataDigest(k, c) = MetadataDigest(TargetMetadata(m, c), c)
  PROVE  \A t \in c.tables : k.perms[t].sel = c.sel
  <1>1. c.tables \subseteq Tables
    BY ProjectionAssumption
  <1>2. \A t \in c.tables : MetadataDigest(k, c)[t] = k.perms[t]
    BY DEF MetadataDigest
  <1>3. \A t \in c.tables : MetadataDigest(TargetMetadata(m, c), c)[t] = TargetMetadata(m, c).perms[t]
    BY DEF MetadataDigest
  <1>4. \A t \in c.tables : TargetMetadata(m, c).perms[t].sel = c.sel
    BY <1>1, Rewritten
  <1> QED
    BY <1>2, <1>3, <1>4

\* When nothing ends, what is kept and what is shown stays so.
LEMMA StillKept ==
  ASSUME TypeOK, Baselines, Still,
         \A t \in Tables : SelStays(t) \/ (t \in astray' /\ meta'.perms[t].sel = "owner")
  PROVE  /\ AllKept => AllKept'
         /\ \A w \in Workers, t \in Tables, s \in Sels :
              Shows(w, t, s) => Shows(w, t, s)'
  <1>1. ASSUME AllKept, NEW t \in Tables
        PROVE  Kept(t)'
    <2>1. CASE SelStays(t)
      <3>1. \A q \in Ids : ClosedBy(q, t) => q \in Ids' /\ ClosedBy(q, t)'
        BY DEF Still, ClosedBy, SameRow
      <3> QED
        BY <1>1, <2>1, <3>1, KeptStays DEF AllKept, Still, BaseKept
    <2>2. CASE t \in astray' /\ meta'.perms[t].sel = "owner"
      BY <2>2, SelFacts DEF Kept
    <2> QED
      BY <2>1, <2>2
  <1>2. \A w \in Workers, t \in Tables, s \in Sels : Shows(w, t, s) => Shows(w, t, s)'
    BY DEF Shows, Still, SelStays
  <1> QED
    BY <1>1, <1>2 DEF AllKept

\* When nothing is in flight every table is kept.
LEMMA SettledKept ==
  ASSUME Settled, KeptUnlessInFlight
  PROVE  AllKept
  BY DEF Settled, KeptUnlessInFlight, AllKept, InFlightOp

\* A batch in flight that never wrote, at the version it started from, has changed
\* no table.
LEMMA SourceKept ==
  ASSUME TypeOK, Baselines, OneActive, FreshSource, KeptUnlessInFlight, NEW o \in Ids,
         InFlightOp(o), ~ops[o].wrote, ops[o].ver = version
  PROVE  AllKept
  <1> SUFFICES ASSUME NEW t \in Tables
               PROVE  Kept(t)
    BY DEF AllKept
  <1>1. CASE t \in ops[o].con.tables
    <2>1. Agrees(t)
      BY <1>1 DEF FreshSource, Fresh
    <2> QED
      BY <2>1, SelFacts DEF Kept, Agrees
  <1>2. CASE t \notin ops[o].con.tables
    BY <1>2, OthersKept
  <1> QED
    BY <1>1, <1>2

\* What is known of the tables where a handler is.
ProgressOf(w) ==
  /\ h[w].mode = "apply" /\ (h[w].pc \in {"send", "toFailed"}
                             \/ (h[w].pc = "await" /\ resp[w] # "ok")) => AllKept
  /\ h[w].pc = "persist" => \A t \in h[w].con.tables : Shows(w, t, h[w].con.sel)
  /\ h[w].pc = "closed" => \A t \in h[w].con.tables : Shows(w, t, "closed")
  /\ h[w].pc = "decide" => \A t \in Tables : Shows(w, t, h[w].meta.perms[t].sel)
  /\ h[w].pc = "decide" /\ SourceActive(w) => AllKept

\* A live handler knows what became of the tables of its batch.
LEMMA ProgressStep ==
  ASSUME TypeOK, TypeOK', StepOf, Baselines, OneActive, Claims, Progress, FreshSource,
         KeptUnlessInFlight, ClosedKept, \A u \in Workers : Live(u)' => MoveStep(u)
  PROVE  Progress'
  <1> SUFFICES ASSUME NEW v \in Workers, Live(v)'
               PROVE  ProgressOf(v)'
    BY DEF Progress, ProgressOf
  <1>0. /\ h[v].con \in Contracts /\ h[v].con.tables \subseteq Tables
        /\ h[v].con.sel \in Sels /\ "closed" \in Sels
        /\ h[v].meta \in Metadata /\ \A t \in Tables : h[v].meta.perms[t].sel \in Sels
    <2>1. h[v].meta \in Metadata
      BY Numbers
    <2> QED
      BY <2>1, RowTables DEF Sels, Metadata, Permission
  <1>1. CASE Stays(v)
    <2>1. /\ Live(v) /\ h'[v] = h[v] /\ Still /\ (resp'[v] # "ok" => resp[v] # "ok")
      BY <1>1 DEF Stays
    <2>2. ProgressOf(v)
      BY <2>1 DEF Progress, ProgressOf
    <2>3. h[v].pc = "decide" => h[v].op \in Ids /\ (SourceActive(v)' <=> SourceActive(v))
      <3>1. h[v].pc = "decide" => h[v].op \in Ids
        BY DEF StepOf, ApplyPcs, RecoverPcs
      <3> QED
        BY <2>1, <3>1
           DEF SourceActive, SourceUnchanged, MetadataDigest, Op, Still, SameRow
    <2>4. CASE h[v].pc \notin {"await", "toRecovery"} \/ (h[v].pc = "await" /\ resp'[v] # "ok")
      <3>1. \A t \in Tables :
              SelStays(t) \/ (t \in astray' /\ meta'.perms[t].sel = "owner")
        BY <1>1, <2>4 DEF Stays
      <3>2. /\ AllKept => AllKept'
            /\ \A t \in Tables, s \in Sels : Shows(v, t, s) => Shows(v, t, s)'
        BY <2>1, <3>1, StillKept
      <3>3. h[v].pc = "persist" => \A t \in h[v].con.tables : Shows(v, t, h[v].con.sel)'
        <4> PICK s \in Sels : s = h[v].con.sel
          BY <1>0
        <4> QED
          BY <1>0, <2>1, <2>2, <3>2 DEF ProgressOf, Shows
      <3>4. h[v].pc = "closed" => \A t \in h[v].con.tables : Shows(v, t, "closed")'
        BY <1>0, <2>2, <3>2 DEF ProgressOf
      <3>5. h[v].pc = "decide" => \A t \in Tables : Shows(v, t, h[v].meta.perms[t].sel)'
        BY <1>0, <2>1, <2>2, <3>2 DEF ProgressOf, Shows
      <3> QED
        BY <2>1, <2>2, <2>3, <3>2, <3>3, <3>4, <3>5 DEF ProgressOf
    <2>5. CASE ~(h[v].pc \notin {"await", "toRecovery"} \/ (h[v].pc = "await" /\ resp'[v] # "ok"))
      BY <2>1, <2>5 DEF ProgressOf
    <2> QED
      BY <2>4, <2>5
  <1>2. CASE GoesOn(v)
    <2>1. /\ Live(v) /\ h'[v].mode = h[v].mode /\ h'[v].op = h[v].op /\ h'[v].con = h[v].con
      BY <1>2 DEF GoesOn
    <2>2. ProgressOf(v)
      BY <2>1 DEF Progress, ProgressOf
    <2>3. Frozen => (AllKept => AllKept')
      BY DEF Frozen, AllKept, Kept, Agrees, ClosedBy, Ids
    <2>4. CASE h[v].pc = "check" /\ h'[v].pc = "send" /\ RowClaimed(v)
      <3>1. Settled
        BY <2>1, <2>4 DEF Claims
      <3>2. AllKept
        BY <3>1, SettledKept
      <3>3. BaseKept /\ Quiet
        BY <2>4 DEF RowClaimed
      <3>4. AllKept'
        BY <3>1, <3>2, <3>3, AllKeptStays DEF Settled, InFlightOp
      <3> QED
        BY <2>4, <3>4 DEF ProgressOf
    <2>5. CASE h[v].pc = "send" /\ h'[v].pc = "await" /\ Frozen
      BY <2>1, <2>2, <2>3, <2>5 DEF ProgressOf
    <2>6. CASE /\ h[v].pc = "await" /\ h'[v].pc = "toFailed" /\ Frozen
               /\ h[v].mode = "apply" /\ resp[v] # "ok"
      BY <2>1, <2>2, <2>3, <2>6 DEF ProgressOf
    <2>7. CASE /\ h[v].pc = "verify" /\ h'[v].pc = "persist" /\ Frozen
               /\ MetadataDigest(meta, h[v].con) = MetadataDigest(Target(v), h[v].con)
      <3>1. h[v].op \in Ids /\ Op(v).src \in Metadata
        BY <2>7, Numbers DEF StepOf, ApplyPcs, RecoverPcs, Op
      <3>2. \A t \in h[v].con.tables : meta.perms[t].sel = h[v].con.sel
        BY <1>0, <2>7, <3>1, DigestSels DEF Target
      <3>3. \A t \in h'[v].con.tables : meta'.perms[t].sel = h'[v].con.sel
        BY <2>1, <2>7, <3>2 DEF Frozen
      <3> QED
        BY <2>7, <3>3 DEF ProgressOf, Shows
    <2>8. CASE h[v].pc = "decide" /\ h'[v].pc = "persist" /\ Frozen /\ TargetActive(v)
      <3>1. h[v].op \in Ids /\ Op(v).src \in Metadata
        BY <2>8, Numbers DEF StepOf, ApplyPcs, RecoverPcs, Op
      <3>2. \A t \in h[v].con.tables : h[v].meta.perms[t].sel = h[v].con.sel
        BY <1>0, <2>8, <3>1, CopiedSels DEF Target, TargetActive
      <3>3. \A t \in h[v].con.tables : /\ meta.perms[t].sel \in {h[v].con.sel, "owner"}
                                       /\ t \notin astray =>
                                            meta.perms[t].sel = h[v].con.sel
        BY <1>0, <2>2, <2>8, <3>2 DEF ProgressOf, Shows
      <3>4. \A t \in h'[v].con.tables : /\ meta'.perms[t].sel \in {h'[v].con.sel, "owner"}
                                        /\ t \notin astray' =>
                                             meta'.perms[t].sel = h'[v].con.sel
        BY <2>1, <2>8, <3>3 DEF Frozen
      <3> QED
        BY <2>8, <3>4 DEF ProgressOf, Shows
    <2>9. CASE /\ h[v].pc = "verify" /\ h'[v].pc = "closed" /\ Frozen
               /\ MetadataDigest(meta, h[v].con)
                    = MetadataDigest(FailClosed(h[v].meta, h[v].con), h[v].con)
      <3>1. \A t \in h[v].con.tables : meta.perms[t].sel = "closed"
        BY <1>0, <2>9, DigestSels
      <3>2. \A t \in h'[v].con.tables : meta'.perms[t].sel = "closed"
        BY <2>1, <2>9, <3>1 DEF Frozen
      <3> QED
        BY <2>9, <3>2 DEF ProgressOf, Shows
    <2>10. CASE /\ h[v].pc = "inspect" /\ h'[v].pc = "decide" /\ Frozen
                /\ h'[v].meta = meta /\ h'[v].ver = version
      <3>1. h[v].op \in Ids /\ InFlightOp(h[v].op)
        BY <2>1, <2>10 DEF StepOf, ApplyPcs, RecoverPcs, Claims
      <3>2. SourceActive(v)' => ~ops[h[v].op].wrote /\ ops[h[v].op].ver = version
        BY <2>1, <2>10 DEF SourceActive, SourceUnchanged, Op, Frozen
      <3>3. SourceActive(v)' => AllKept'
        BY <2>3, <2>10, <3>1, <3>2, SourceKept
      <3>4. \A t \in Tables : Shows(v, t, h[v].meta.perms[t].sel)'
        BY <2>10 DEF Shows, Frozen
      <3> QED
        BY <2>10, <3>3, <3>4 DEF ProgressOf
    <2>11. CASE /\ h[v].pc = "verify" /\ h'[v].pc = "toFailed" /\ h[v].mode = "apply"
                /\ astray' = astray \cup h[v].con.tables
                /\ misjudged' = misjudged \cup h[v].con.tables
                /\ UNCHANGED <<ops, Ids, base, meta, version>>
      <3>1. /\ h[v].op \in Ids /\ InFlightOp(h[v].op)
            /\ h[v].con = ops[h[v].op].con
        BY <2>1, <2>11 DEF StepOf, ApplyPcs, RecoverPcs, Claims
      <3>2. ASSUME NEW t \in Tables, t \notin h[v].con.tables
            PROVE  Kept(t)'
        <4>1. Kept(t)
          BY <3>1, <3>2, OthersKept
        <4> QED
          BY <2>11, <4>1 DEF Kept, Agrees, ClosedBy
      <3>3. ASSUME NEW t \in Tables, t \in h[v].con.tables
            PROVE  Kept(t)'
        BY <2>11, <3>3 DEF Kept
      <3> QED
        BY <2>11, <3>2, <3>3 DEF ProgressOf, AllKept
    <2> QED
      BY <1>2, <2>4, <2>5, <2>6, <2>7, <2>8, <2>9, <2>10, <2>11 DEF GoesOn
  <1>3. CASE h'[v].pc \in {"insert", "check", "inspect", "verify", "toRecovery"}
    BY <1>3 DEF ProgressOf
  <1>4. CASE h'[v].mode = "recover" /\ h'[v].pc = "send"
    BY <1>4 DEF ProgressOf
  <1> QED
    BY <1>1, <1>2, <1>3, <1>4 DEF MoveStep


-----------------------------------------------------------------------------
(* The inductive invariant and what follows.                               *)

\* Who holds the lock, where the handlers are and what they know.
HandlersInv == LockOfLive /\ StepOf /\ Claims /\ ApplyCopied
\* The operation rows and the baselines.
RowsInv == OpsInv /\ OneProjection /\ Baselines
\* The copies of the metadata and the requests under way.
RequestsInv == Copies /\ WireCopies /\ Requests
\* What the tables enforce.
TablesInv == Contexts /\ KeptUnlessInFlight /\ FreshSource /\ Progress

\* The inductive invariant.
ProjectionInv == TypeOK /\ HandlersInv /\ RowsInv /\ RequestsInv /\ TablesInv

\* It holds before the first operation.
LEMMA InitInv ==
  ASSUME Init
  PROVE  ProjectionInv
  <1>1. /\ ops = <<>> /\ Ids = {} /\ wire = {} /\ lock = NoWorker /\ astray = {}
        /\ misjudged = {} /\ version = 1
    BY DEF Init, Ids
  <1>2. /\ h = [w \in Workers |-> Idle] /\ conn = [w \in Workers |-> TRUE]
        /\ resp = [w \in Workers |-> "none"]
    BY DEF Init
  <1>3. \A w \in Workers : /\ h[w].pc = "idle" /\ h[w].mode = "none" /\ h[w].ver = 0
                           /\ conn[w] /\ resp[w] = "none" /\ h[w] \in Handler
    BY <1>2, IdleType
  <1>4. \A t \in Tables : /\ base[t] = [rev |-> 1, dep |-> NoDigest,
                                        perms |-> [sel |-> "owner", grants |-> 0]]
                          /\ meta.perms[t] = base[t].perms
    BY DEF Init
  <1>5. \A t \in Tables : /\ base[t].perms.sel = "owner" /\ base[t].perms.grants = 0
                          /\ base[t].dep = NoDigest /\ meta.perms[t].sel = "owner"
                          /\ meta.perms[t].grants = 0 /\ ~IsV2(t)
    BY <1>4 DEF IsV2
  <1>6. TypeOK
    <2>1. [sel |-> "owner", grants |-> 0] \in Permission
      BY ProjectionAssumption DEF Permission, Sels
    <2>2. base \in [Tables -> Baseline]
      <3>1. [rev |-> 1, dep |-> NoDigest, perms |-> [sel |-> "owner", grants |-> 0]] \in Baseline
        BY <2>1 DEF Baseline, Digests
      <3> QED
        BY <3>1 DEF Init
    <2>3. meta \in Metadata
      <3>1. [t \in Tables |-> base[t].perms] \in [Tables -> Permission]
        BY <2>1, <1>4
      <3> QED
        BY <3>1 DEF Init, Metadata
    <2>4. h \in [Workers -> Handler] /\ conn \in [Workers -> BOOLEAN] /\ resp \in [Workers -> Answers]
      BY <1>2, IdleType DEF Answers
    <2>5. /\ view \in {1, 2} /\ caps \subseteq Tables /\ context \in BOOLEAN
          /\ reopened = 0 /\ faults = 0 /\ outside = 0
      BY DEF Init
    <2>6. ops \in Seq(OpRow)
      BY <1>1
    <2> QED
      BY <1>1, <2>2, <2>3, <2>4, <2>5, <2>6, ProjectionAssumption DEF TypeOK
  <1>7. HandlersInv
    <2>1. LockOfLive /\ StepOf /\ ApplyCopied
      BY <1>1, <1>3, ProjectionAssumption DEF LockOfLive, Live, StepOf, ApplyCopied
    <2>2. Claims
      BY <1>3 DEF Claims, Live
    <2> QED
      BY <2>1, <2>2 DEF HandlersInv
  <1>8. RowsInv
    <2>1. OpsInv
      BY <1>1 DEF OpsInv, OneActive, Leased, Newest, NoNewerWrote, PreviewUnwritten,
             CompletedWrote, WroteV2, ActiveCovers, LatestRecorded, ClosedFailed,
             ClosedCovers, ClosedLast, WroteEnds, Dependent
    <2>2. OneProjection
      BY <1>5 DEF OneProjection
    <2>3. Baselines
      <3>1. outside = 0
        BY DEF Init
      <3> QED
        BY <1>5, <3>1 DEF Baselines
    <2> QED
      BY <2>1, <2>2, <2>3 DEF RowsInv
  <1>9. RequestsInv
    <2>1. Copies
      BY <1>1, <1>3 DEF Copies
    <2>2. WireCopies
      BY <1>1 DEF WireCopies
    <2>3. RequestRows /\ RequestOwners /\ LiveAlone
      BY <1>1, <1>3 DEF RequestRows, RequestOwners, LiveAlone, Live
    <2> QED
      BY <2>1, <2>2, <2>3 DEF RequestsInv, Requests
  <1>10. TablesInv
    <2>1. "owner" \notin EnvSels
      BY ProjectionAssumption
    <2>2. Contexts
      BY <1>1, <1>3, <1>5, <2>1 DEF Contexts, Live
    <2>3. KeptUnlessInFlight
      BY <1>5, <2>1 DEF KeptUnlessInFlight, Kept, Agrees
    <2>4. FreshSource
      BY <1>1 DEF FreshSource
    <2>5. Progress
      BY <1>3 DEF Progress, Live
    <2> QED
      BY <2>2, <2>3, <2>4, <2>5 DEF TablesInv
  <1> QED
    BY <1>6, <1>7, <1>8, <1>9, <1>10 DEF ProjectionInv

\* Every step keeps it.
LEMMA NextInv ==
  ASSUME ProjectionInv, [Next]_vars
  PROVE  ProjectionInv'
  <1>1. TypeOK /\ LockOfLive /\ StepOf /\ Claims /\ ApplyCopied
    BY DEF ProjectionInv, HandlersInv
  <1>2. /\ OneActive /\ Leased /\ Newest /\ NoNewerWrote /\ PreviewUnwritten
        /\ CompletedWrote /\ WroteV2 /\ ActiveCovers /\ LatestRecorded /\ ClosedFailed
        /\ ClosedCovers /\ ClosedLast /\ WroteEnds /\ Dependent /\ OneProjection /\ Baselines
    BY DEF ProjectionInv, RowsInv, OpsInv
  <1>3. Copies /\ WireCopies /\ Requests /\ RequestRows /\ RequestOwners /\ LiveAlone
    BY DEF ProjectionInv, RequestsInv, Requests
  <1>4. Contexts /\ KeptUnlessInFlight /\ FreshSource /\ Progress
    BY DEF ProjectionInv, TablesInv
  <1>5. TypeOK'
    BY <1>1, <1>2, TypeStep
  <1>6. RowStep /\ DataStep /\ WireStep /\ RequestStep /\ HandlerCopied
    BY <1>1, <1>2, <1>5, RowSteps, DataSteps, WireSteps, RequestSteps, HandlerCopies
  <1>7. HandlersInv'
    <2>1. LockOfLive' /\ StepOf' /\ ApplyCopied'
      BY <1>1, <1>2, <1>5, LockStep, StepOfStep, ApplyCopiedStep
    <2>2. Claims'
      BY <1>1, <1>2, <1>5, ClaimsStep
    <2> QED
      BY <2>1, <2>2 DEF HandlersInv
  <1>8. RowsInv'
    <2>1. OneActive' /\ Leased' /\ Newest' /\ NoNewerWrote'
      BY <1>1, <1>2, <1>6, OneActiveStep, LeasedStep, NewestStep, NoNewerWroteStep
    <2>2. (PreviewUnwritten /\ CompletedWrote /\ WroteEnds /\ ClosedFailed /\ Dependent)'
      BY <1>1, <1>2, <1>6, WrittenStep
    <2>3. WroteV2' /\ ActiveCovers' /\ LatestRecorded'
      BY <1>1, <1>2, <1>6, WroteV2Step, ActiveCoversStep, LatestRecordedStep
    <2>4. ClosedCovers' /\ ClosedLast' /\ OneProjection'
      BY <1>1, <1>2, <1>6, ClosedCoversStep, ClosedLastStep, OneProjectionStep
    <2>5. Baselines'
      BY <1>1, <1>2, <1>3, <1>5, <1>6, BaselinesStep
    <2> QED
      BY <2>1, <2>2, <2>3, <2>4, <2>5 DEF RowsInv, OpsInv
  <1>9. RequestsInv'
    <2>1. Copies'
      BY <1>1, <1>3, <1>5, <1>6, <1>7, CopiesStep DEF HandlersInv
    <2>2. WireCopies'
      BY <1>1, <1>2, <1>3, <1>5, <1>6, WireCopiesStep
    <2>3. WritingKept
      BY <1>1, <1>2, <1>3, <1>5, WritingStep
    <2>4. RequestRows'
      BY <1>1, <1>3, <1>5, <1>6, <2>3, RequestRowsStep
    <2>5. RequestOwners'
      BY <1>1, <1>3, <1>5, <1>6, RequestOwnersStep
    <2>6. LiveAlone'
      BY <1>1, <1>2, <1>3, <1>5, LiveAloneStep
    <2> QED
      BY <2>1, <2>2, <2>4, <2>5, <2>6 DEF RequestsInv, Requests
  <1>10. TablesInv'
    <2>1. ClosedKept
      BY <1>1, <1>2, <1>6, ClosedStep
    <2>2. \A u \in Tables : SelStep(u)
      BY <1>1, <1>2, <1>3, <1>5, <1>6, SelSteps
    <2>3. KeptUnlessInFlight'
      BY <1>1, <1>2, <1>4, <1>6, <2>1, <2>2, KeptStep
    <2>4. FreshSource'
      BY <1>1, <1>2, <1>3, <1>4, <1>5, <1>6, <2>1, FreshSourceStep
    <2>5. ContextStep /\ CheckStep
      BY <1>1, <1>2, <1>5, ContextSteps, CheckSteps
    <2>6. Contexts'
      BY <1>1, <1>2, <1>4, <1>5, <1>6, <2>2, <2>3, <2>5, ContextsStep
    <2>7. \A u \in Workers : Live(u)' => MoveStep(u)
      BY <1>1, <1>2, <1>3, <1>5, MoveSteps
    <2>8. Progress'
      BY <1>1, <1>2, <1>4, <1>5, <2>1, <2>7, ProgressStep
    <2> QED
      BY <2>3, <2>4, <2>6, <2>8 DEF TablesInv
  <1> QED
    BY <1>5, <1>7, <1>8, <1>9, <1>10 DEF ProjectionInv

\* The invariant holds in every state of every run.
LEMMA InvHolds == Spec => []ProjectionInv
  <1>1. Init => ProjectionInv
    BY InitInv
  <1>2. ProjectionInv /\ [Next]_vars => ProjectionInv'
    BY NextInv
  <1> QED
    BY <1>1, <1>2, PTL DEF Spec

\* What is recorded and enforced is sound, for any tables, contracts and workers:
\* the project has one open operation, a batch is recorded for all its tables or for
\* none, and an environment-scoped select is enforced only with a runtime context,
\* unless a batch that was misjudged as failed left it behind (a definitive 4xx of
\* the export that verifies an apply, markApplyFailure).
THEOREM RecordsAreSound == Spec => []ProjectionsSound
  <1>1. ProjectionInv => ProjectionsSound
    BY DEF ProjectionInv, RowsInv, OpsInv, TablesInv, Contexts, ProjectionsSound,
           EnforcedHasContext
  <1> QED
    BY <1>1, InvHolds, PTL

\* Two permissions that differ in nothing are one.
LEMMA SamePermission ==
  ASSUME TypeOK, Baselines, NEW t \in Tables
  PROVE  /\ meta.perms[t].sel = base[t].perms.sel => meta.perms[t] = base[t].perms
         /\ meta.perms[t].sel = "closed" => meta.perms[t] = [base[t].perms EXCEPT !.sel = "closed"]
  <1>1. meta.perms[t] \in Permission /\ base[t].perms \in Permission
    BY DEF TypeOK, Metadata, Baseline
  <1>2. meta.perms[t].grants = base[t].perms.grants
    BY DEF Baselines
  <1> QED
    BY <1>1, <1>2 DEF Permission

\* Once no batch is in flight each table enforces what its baseline records, or is
\* closed by a batch that says so, however the requests, the sessions and the
\* console edits were interleaved.  Excepted are the tables changed in the console
\* or left behind by a batch misjudged as failed, until a recovery takes them up.
THEOREM SettledTablesAgree == Spec => []SettledAgrees
  <1>1. ASSUME ProjectionInv
        PROVE  SettledAgrees
    <2>1. TypeOK /\ Baselines /\ KeptUnlessInFlight
      BY <1>1 DEF ProjectionInv, RowsInv, TablesInv
    <2> SUFFICES ASSUME Settled, NEW t \in Tables \ astray
                 PROVE  \/ meta.perms[t] = base[t].perms
                        \/ /\ meta.perms[t] = [base[t].perms EXCEPT !.sel = "closed"]
                           /\ \E o \in Ids : ops[o].error = "failed_closed"
                                             /\ t \in ops[o].con.tables
      BY DEF SettledAgrees
    <2>2. Agrees(t)
      BY <2>1, SettledKept DEF AllKept, Kept
    <2> QED
      BY <2>1, <2>2, SamePermission DEF Agrees, ClosedBy
  <1>2. ProjectionInv => SettledAgrees
    BY <1>1
  <1> QED
    BY <1>2, InvHolds, PTL

\* A rewritten metadata holds the foreign part of the one it replaces.
LEMMA ForeignStep ==
  ASSUME TypeOK, TypeOK', StepOf, Baselines, WireCopies, Requests, DataStep
  PROVE  meta'.foreign >= meta.foreign
  <1> USE Numbers, RowTables
  <1>1. ASSUME DataKept PROVE meta'.foreign >= meta.foreign
    BY <1>1 DEF DataKept
  <1>2. ASSUME DataForeign PROVE meta'.foreign >= meta.foreign
    BY <1>2 DEF DataForeign
  <1>3. ASSUME NEW w \in Workers, DataRecorded(w)
        PROVE  meta'.foreign >= meta.foreign
    BY <1>3 DEF DataRecorded
  <1>4. ASSUME NEW r \in wire, DataApplied(r) PROVE meta'.foreign >= meta.foreign
    <2>1. r.meta \in {TargetMetadata(meta, ops[r.op].con), FailClosed(meta, ops[r.op].con)}
          /\ ops[r.op].con \in Contracts
      BY <1>4 DEF DataApplied, WireCopies, Requests, RequestRows
    <2>2. r.meta.foreign = meta.foreign
      BY <2>1, Rewritten
    <2> QED
      BY <1>4, <2>2 DEF DataApplied
  <1>5. ASSUME NEW t \in Tables, DataEdited(t) PROVE meta'.foreign >= meta.foreign
    BY <1>5 DEF DataEdited
  <1>6. ASSUME NEW t \in Tables, DataChanged(t) PROVE meta'.foreign >= meta.foreign
    BY <1>6 DEF DataChanged
  <1> QED
    BY <1>1, <1>2, <1>3, <1>4, <1>5, <1>6 DEF DataStep


\* No replace_metadata undoes what another project changed meanwhile: a request that
\* Hasura applies was made from the metadata of the moment.
THEOREM ForeignChangesKept == Spec => ForeignMetadataKept
  <1>1. ASSUME ProjectionInv, ProjectionInv', [Next]_vars
        PROVE  [meta'.foreign >= meta.foreign]_vars
    <2>1. TypeOK /\ TypeOK' /\ StepOf /\ Baselines /\ WireCopies /\ Requests
      BY <1>1 DEF ProjectionInv, HandlersInv, RowsInv, RequestsInv
    <2>2. DataStep
      BY <1>1, <2>1, DataSteps
    <2> QED
      BY <2>1, <2>2, ForeignStep
  <1>2. ProjectionInv /\ ProjectionInv' /\ [Next]_vars =>
            [meta'.foreign >= meta.foreign]_vars
    BY <1>1
  <1> QED
    BY <1>2, InvHolds, PTL DEF Spec, ForeignMetadataKept

\* A batch that failed a table closed can be followed by a preview of the same
\* tables, unless a newer batch that leaves the table out has settled: the newest
\* batch that failed closed covers the table and every table under a projection.
THEOREM ClosedTablesReopen == Spec => []ClosedCanReopen
  <1>1. ASSUME ProjectionInv
        PROVE  ClosedCanReopen
    <2>1. /\ TypeOK /\ Baselines /\ KeptUnlessInFlight /\ ClosedLast /\ ClosedCovers
          /\ ClosedFailed /\ WroteEnds
      BY <1>1 DEF ProjectionInv, RowsInv, OpsInv, TablesInv
    <2> SUFFICES ASSUME Settled, astray = {}, NEW t \in Tables,
    meta.perms[t].sel = "closed",
                        ~Overtaken(t)
                 PROVE  CanReopen(t)
      BY DEF ClosedCanReopen
    <2>2. \A u \in Tables : Agrees(u)
      BY <2>1, SettledKept DEF AllKept, Kept
    <2>3. PICK o \in Ids : ClosedBy(o, t)
      BY <2>1, <2>2, SelFacts DEF Agrees
    <2>4. PICK e \in Ids : /\ ops[e].error = "failed_closed"
                           /\ \A p \in Ids : p > e => ops[p].error # "failed_closed"
      BY <2>1, <2>3 DEF ClosedLast, ClosedBy
    <2>5. Ids \subseteq Nat /\ e >= o
      BY <2>1, <2>3, <2>4, Rows DEF ClosedBy
    <2>6. t \in ops[e].con.tables
      BY <2>3, <2>4, <2>5 DEF ClosedBy, Overtaken
    <2>7. \A p \in Ids : p > e => ops[p].status # "completed"
      BY <2>3, <2>4, <2>5 DEF ClosedBy, Overtaken
    <2>8. \A p \in Ids : p > e => ~ops[p].wrote
      BY <2>1, <2>4, <2>7 DEF WroteEnds, Settled
    <2>9. CoversExistingBaselines(ops[e].con)
      BY <2>1, <2>4, <2>8 DEF ClosedCovers
    <2>10. e \in EffectiveFailClosed
      BY <2>1, <2>4, <2>7 DEF EffectiveFailClosed, ClosedFailed
    <2>11. /\ ops[e].con.tables \subseteq Tables /\ ops[e].con.sel \in Constraints
      BY <2>1, RowTables
    <2>12. PICK s \in Constraints :
             s \notin EnvSels => \A u \in ops[e].con.tables : base[u].perms.sel \notin EnvSels
      <3>1. CASE \E u \in ops[e].con.tables : base[u].perms.sel \in EnvSels
        BY <3>1, ProjectionAssumption
      <3>2. CASE \A u \in ops[e].con.tables : base[u].perms.sel \notin EnvSels
        BY <2>11, <3>2
      <3> QED
        BY <3>1, <3>2
    <2> DEFINE c == [tables |-> ops[e].con.tables, sel |-> s]
    <2>13. c \in [tables: SUBSET Tables, sel: Constraints] /\ t \in c.tables
      BY <2>6, <2>11
    <2>14. c.tables = ops[e].con.tables /\ c.sel = s
      OBVIOUS
    <2> HIDE DEF c
    <2>15. CoversExistingBaselines(c)
      BY <2>9, <2>14 DEF CoversExistingBaselines
    <2>16. BaselinesFit(c)
      BY <2>1, <2>11, <2>12, <2>14 DEF BaselinesFit, Baselines
    <2>17. ManagedSources(meta, c)
      <3> SUFFICES ASSUME NEW u \in c.tables
                   PROVE  meta.perms[u] = base[u].perms \/ RecordedFailClosed(meta, u, c)
        BY DEF ManagedSources
      <3>1. u \in Tables /\ Agrees(u)
        BY <2>2, <2>11, <2>14
      <3>2. \/ meta.perms[u] = base[u].perms
            \/ meta.perms[u] = [base[u].perms EXCEPT !.sel = "closed"]
        BY <2>1, <3>1, SamePermission DEF Agrees
      <3> QED
        BY <2>10, <2>14, <3>2 DEF RecordedFailClosed
    <2> QED
      BY <2>13, <2>15, <2>16, <2>17 DEF CanReopen
  <1>2. ProjectionInv => ClosedCanReopen
    BY <1>1
  <1> QED
    BY <1>2, InvHolds, PTL
=============================================================================
