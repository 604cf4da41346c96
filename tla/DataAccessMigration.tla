------------------------- MODULE DataAccessMigration ------------------------
(***************************************************************************)
(* The upgrade of a project from the shared roles `user' and `anonymous'   *)
(* (mode compatibility) to roles of its own (mode explicit):               *)
(* data-access-migration.service.ts with its plan, inspection, verifier    *)
(* and repository, the rows and triggers of migration 019, and the         *)
(* project's mutation lock (data-access-mutation-lock.ts).                 *)
(*                                                                         *)
(* An upgrade runs through Hasura requests that are not transactional, so  *)
(* it is a persistent state machine: every effect is announced in the row, *)
(* an attempt that fails puts the recorded snapshot back, and one that     *)
(* dies leaves a row from which an operator recovers.  The tables of the   *)
(* project are one map from (role, operation) to a rule.  A rule keeps its *)
(* kind and the columns it was made for; columns are a version number.     *)
(***************************************************************************)
EXTENDS Integers, Sequences

CONSTANTS
  Sources,      \* the projects before their upgrade: rules, tracked view
  MaxRows,      \* bound on migration rows
  MaxFaults,    \* bound on crashes, failed statements, requests and probes,
                \* and requests that arrive late
  MaxEdits      \* bound on changes of columns and rules by others

Legacy == {"user", "anonymous"}
Scoped == {"auth", "anon"}
Operations == {"select", "insert"}
Slots == (Legacy \cup Scoped) \X Operations
Columns == 0..MaxEdits
NoRule == <<"none", 0>>
Rules == {NoRule} \cup ({"all", "owner", "custom"} \X Columns)
Modes == {"compatibility", "explicit"}
\* Parts of the snapshot no migration writes: unrelated roles and names, and
\* actor bindings outside the project's tables.
Extras == {"plain", "edited", "binding"}

ASSUME MigrationAssumption ==
  /\ Sources \subseteq [rules: [Slots -> Rules], view: BOOLEAN]
  /\ {MaxRows, MaxFaults, MaxEdits} \subseteq Nat

VARIABLES
  mode,     \* druvia_projects.data_access_mode
  rules,    \* Hasura: the rules of the four roles on the project's tables
  extra,    \* Hasura: the rest of what a snapshot covers
  cols,     \* PostgreSQL: the columns of the tables
  view,     \* a view of the schema is tracked without any of the four roles
  rows,     \* druvia_data_access_migrations, oldest first
  loc,      \* the handler that holds the project's lock: its place, its locals
  late,     \* command lists on their way to Hasura without a handler
  intact,   \* history: the handler has verified its result and it is unchanged
  delayed,  \* history: a request outlived its handler's wait
  bypassed, \* history: somebody changed the metadata behind the platform
  faults, edits    \* bounded counters

vars == <<mode, rules, extra, cols, view, rows, loc, late,
          intact, delayed, bypassed, faults, edits>>

Snapshots == [mode: Modes, rules: [Slots -> Rules], extra: Extras,
              cols: Columns]
Snapshot == [mode |-> mode, rules |-> rules, extra |-> extra, cols |-> cols]
NoSnapshot == [mode |-> "none"]

-----------------------------------------------------------------------------
(* The plan.                                                               *)

\* Exact historical rules on all columns; anything else is custom.
Recognized(rule, c) == rule = <<"all", c>>
Managed(rule, c) == rule[1] \in {"all", "owner"} /\ rule[2] = c

Blockers(s) ==
  \/ s.extra = "binding"
  \/ \E op \in Operations :
       \/ \E r \in Legacy : s.rules[r, op] # NoRule /\ ~Recognized(s.rules[r, op], s.cols)
       \/ s.rules["auth", op] # NoRule /\ ~Managed(s.rules["auth", op], s.cols)
  \/ s.rules["anon", "select"] \notin {NoRule, <<"all", s.cols>>}
  \/ s.rules["anon", "insert"] # NoRule

\* Mutant: an owner rule is inferred as an open one.
Inferred_Widening(s) ==
  {slot \in {<<"auth", "select">>, <<"auth", "insert">>, <<"anon", "select">>} :
     s.rules[IF slot[1] = "auth" THEN "user" ELSE "anonymous", slot[2]] # NoRule}

\* A scoped rule wins over the legacy rule of the same operation, and
\* anonymous writes are not carried over.
Inferred(s) ==
  {slot \in {<<"auth", "select">>, <<"auth", "insert">>, <<"anon", "select">>} :
     /\ s.rules[slot] = NoRule
     /\ s.rules[IF slot[1] = "auth" THEN "user" ELSE "anonymous", slot[2]] # NoRule}

\* The planned policy of each scoped slot.  An operator may ask for tables
\* to stay closed: nothing is inferred for them.
Policy(s, skip) ==
  [slot \in Scoped \X Operations |->
     IF ~skip /\ slot \in Inferred(s) THEN "all" ELSE s.rules[slot][1]]

Materialized(policy, slot, c) ==
  IF policy[slot] = "none" THEN NoRule ELSE <<policy[slot], c>>

Target(s, policy, preserveLegacy, runtimeMode) ==
  [s EXCEPT !.mode = runtimeMode,
            !.rules = [slot \in Slots |->
               IF slot[1] \in Scoped THEN Materialized(policy, slot, s.cols)
               ELSE IF preserveLegacy THEN s.rules[slot] ELSE NoRule]]

\* Digests are equal when the snapshots are.
SameDigest(s, t) == s = t

-----------------------------------------------------------------------------
(* Command lists and what Hasura makes of them.                            *)

Drops(from, to) == {slot \in Slots : from[slot] # NoRule /\ to[slot] # from[slot]}
Creates(from, to) == {slot \in Slots : to[slot] # NoRule /\ to[slot] # from[slot]}

SlotOrder == << <<"anonymous", "select">>, <<"anonymous", "insert">>,
                <<"anon", "select">>, <<"anon", "insert">>,
                <<"auth", "select">>, <<"auth", "insert">>,
                <<"user", "select">>, <<"user", "insert">> >>

\* Drops before creates, each by the role's name and then by operation.
DiffCommands(from, to) ==
  LET drops == SelectSeq(SlotOrder, LAMBDA slot : slot \in Drops(from, to))
      creates == SelectSeq(SlotOrder, LAMBDA slot : slot \in Creates(from, to))
  IN [i \in DOMAIN drops |-> [slot |-> drops[i], rule |-> NoRule]]
     \o [i \in DOMAIN creates |-> [slot |-> creates[i], rule |-> to[creates[i]]]]

\* Hasura refuses to drop what is missing and to create what exists.
Admits(now, cmds, i) ==
  LET c == cmds[i] IN
  IF c.rule = NoRule THEN now[c.slot] # NoRule
  ELSE \/ now[c.slot] = NoRule
       \/ \E j \in 1..(i - 1) : cmds[j] = [slot |-> c.slot, rule |-> NoRule]

Admitted(now, cmds) ==
  CHOOSE n \in 0..Len(cmds) :
    /\ \A i \in 1..n : Admits(now, cmds, i)
    /\ n < Len(cmds) => ~Admits(now, cmds, n + 1)

After(now, cmds, n) ==
  [slot \in Slots |->
     IF \E i \in 1..n : cmds[i].slot = slot
     THEN cmds[CHOOSE i \in 1..n : /\ cmds[i].slot = slot
                                   /\ \A j \in (i + 1)..n : cmds[j].slot # slot].rule
     ELSE now[slot]]

-----------------------------------------------------------------------------
(* Rows.                                                                   *)

Statuses == {"preview_ready", "applying", "applied", "rolling_back",
             "rolled_back", "recovered", "failed", "superseded"}
Row == [status: Statuses, recovery: {"none", "source", "applied"},
        source: Snapshots, policy: [Scoped \X Operations -> {"none", "all", "owner", "custom"}],
        blocked: BOOLEAN, applied: Snapshots \cup {NoSnapshot},
        rollbackPreview: BOOLEAN]

\* Mutant: an interrupted rollback is not taken for one that awaits recovery.
RecoveryRequired_NotRollingBack(row) ==
  row.recovery # "none" /\ row.status \in {"applying", "failed"}

\* In flight, or failed with one of the two recovery-required codes.
RecoveryRequired(row) ==
  row.recovery # "none" /\ row.status \in {"applying", "rolling_back", "failed"}

Active(row) == row.status = "preview_ready" \/ RecoveryRequired(row)

Latest == Len(rows)

\* protect_data_access_migration_update: the transitions the trigger lets
\* through and the recovery target each status demands.
TriggerAllows(old, new) ==
  /\ \/ new.status = old.status
     \/ old.status = "preview_ready" /\ new.status \in {"superseded", "applying"}
     \/ old.status = "applying" /\ new.status \in {"applied", "failed", "recovered"}
     \/ old.status = "applied" /\ new.status = "rolling_back"
     \/ old.status = "rolling_back" /\ new.status \in {"rolled_back", "applied", "failed"}
     \/ old.status = "failed" /\ old.recovery = "source" /\ new.status = "applying"
     \/ old.status = "failed" /\ old.recovery = "applied" /\ new.status = "rolling_back"
  /\ new.status = "applying" => new.recovery = "source"
  /\ new.status = "rolling_back" => new.recovery = "applied"
  /\ new.status \notin {"applying", "rolling_back", "failed"} => new.recovery = "none"
  /\ old.applied # NoSnapshot => new.applied = old.applied
  /\ new.applied # old.applied => old.status = "applying" /\ new.status = "applied"

\* UPDATE ... WHERE migration_id = $1 AND status = ANY($2): the row it leaves,
\* if it finds one.
Updated(i, expected, new) == rows[i].status = expected /\ TriggerAllows(rows[i], new)

-----------------------------------------------------------------------------
(* Handlers.                                                               *)

Idle == [pc |-> "idle"]
Forward == {"prepare", "metadata", "http", "realtime", "legacy", "mode",
            "setmode", "verify", "commit", "rbRestore", "rbMode", "rbVerify",
            "rbSetmode", "rbCommit"}
Restoring == {"restore", "reMode", "reSetmode", "reVerify"}
Pcs == {"idle", "supersede", "insert", "claim", "rbClaim", "reClaim", "request",
        "settle", "unsettled"} \cup Forward \cup Restoring

\* Mutant: a failure after the first command is recorded without restoring the source.
CaughtAt_NoRestore(l) ==
  LET place == IF l.pc = "request" THEN l.then ELSE l.pc
  IN IF place \in Forward THEN "settle"
     ELSE IF place \in Restoring THEN "unsettled" ELSE "idle"

\* Where an exception leads: out of the handler before the claim and after
\* the restoration (whose final update is returned, not awaited, inside its
\* try), into the restoration from the attempt, and from the restoration to
\* the recovery-required mark.
CaughtAt(l) ==
  LET place == IF l.pc = "request" THEN l.then ELSE l.pc
  IN IF place \in Forward THEN "restore"
     ELSE IF place \in Restoring THEN "unsettled" ELSE "idle"

Thrown(l) ==
  IF CaughtAt(l) = "idle" THEN Idle
  ELSE [pc |-> CaughtAt(l), task |-> l.task, id |-> l.id, status |-> l.status,
        target |-> IF l.task = "rollback" THEN "applied"
                   ELSE IF l.task = "apply" THEN "source" ELSE l.target]

\* The handler moves on; at its end it releases the lock.
Goto(l) == loc' = l

At(pc) == loc.pc = pc
To(pc) == [loc EXCEPT !.pc = pc]
RowOf == rows[loc.id]

\* phase(): a guarded update that changes nothing a decision rests on.
PhaseHolds == RowOf.status = loc.status

Counters == <<delayed, bypassed, faults, edits>>
World == <<mode, rules, extra, cols, view>>

\* Mutant: the lock does not look for a migration that awaits recovery.
NoOwedRow_Unchecked(except) == TRUE

\* No row of the project but the one the caller works on is owed a recovery.
NoOwedRow(except) == \A i \in 1..Len(rows) : i # except => ~RecoveryRequired(rows[i])

\* withProjectDataAccessMutationLock for purpose `migration'.
LockForMigration(i) ==
  /\ At("idle")
  /\ NoOwedRow(i)

Begin(l) == loc' = l

-----------------------------------------------------------------------------
(* previewMigration                                                        *)

PreviewBegin ==
  /\ LockForMigration(0)
  /\ mode = "compatibility"
  /\ \E skip \in BOOLEAN :
       /\ skip => ~Blockers(Snapshot)
       /\ Begin([pc |-> IF Latest > 0 /\ rows[Latest].status = "preview_ready"
                           THEN "supersede" ELSE "insert",
                    task |-> "preview", id |-> Latest, status |-> "preview_ready",
                    source |-> Snapshot, policy |-> Policy(Snapshot, skip)])
  /\ Len(rows) < MaxRows
  /\ UNCHANGED <<World, rows, late, intact, Counters>>

Supersede ==
  /\ At("supersede")
  /\ LET new == [RowOf EXCEPT !.status = "superseded"] IN
     IF Updated(loc.id, "preview_ready", new)
     THEN rows' = [rows EXCEPT ![loc.id] = new] /\ Goto(To("insert"))
     ELSE UNCHANGED rows /\ Goto(Idle)
  /\ UNCHANGED <<World, late, intact, Counters>>

\* The partial unique index admits one active row.
Insert ==
  /\ At("insert")
  /\ Len(rows) < MaxRows
  /\ rows' = IF \E i \in 1..Len(rows) : Active(rows[i]) THEN rows
             ELSE Append(rows,
                    [status |-> "preview_ready", recovery |-> "none",
                     source |-> loc.source, policy |-> loc.policy,
                     blocked |-> Blockers(loc.source), applied |-> NoSnapshot,
                     rollbackPreview |-> FALSE])
  /\ Goto(Idle)
  /\ UNCHANGED <<World, late, intact, Counters>>

-----------------------------------------------------------------------------
(* Claims: the one guarded update after which effects may follow.          *)

ApplyBegin ==
  \E i \in 1..Len(rows) :
    /\ LockForMigration(i)
    /\ rows[i].status = "preview_ready"
    /\ mode = "compatibility"
    /\ ~rows[i].blocked
    /\ SameDigest(Snapshot, rows[i].source)
    /\ Begin([pc |-> "claim", task |-> "apply", id |-> i, status |-> "applying",
                 current |-> Snapshot])
    /\ UNCHANGED <<World, rows, late, intact, Counters>>

RollbackBegin ==
  \E i \in 1..Len(rows) :
    /\ LockForMigration(i)
    /\ rows[i].status = "applied"
    /\ rows[i].rollbackPreview
    /\ SameDigest(Snapshot, rows[i].applied)
    /\ Begin([pc |-> "rbClaim", task |-> "rollback", id |-> i,
                 status |-> "rolling_back", current |-> Snapshot])
    /\ UNCHANGED <<World, rows, late, intact, Counters>>

RecoverBegin ==
  \E i \in 1..Len(rows) :
    /\ LockForMigration(i)
    /\ RecoveryRequired(rows[i])
    /\ Begin([pc |-> "reClaim", task |-> "recover", id |-> i,
                 status |-> IF rows[i].recovery = "source" THEN "applying"
                            ELSE "rolling_back",
                 target |-> rows[i].recovery, from |-> rows[i].status])
    /\ UNCHANGED <<World, rows, late, intact, Counters>>

Claim ==
  /\ loc.pc \in {"claim", "rbClaim", "reClaim"}
  /\ LET from == CASE At("claim") -> "preview_ready"
                   [] At("rbClaim") -> "applied"
                   [] OTHER -> loc.from
         new == [RowOf EXCEPT !.status = loc.status,
                   !.recovery = CASE At("claim") -> "source"
                                  [] At("rbClaim") -> "applied"
                                  [] OTHER -> loc.target,
                   !.rollbackPreview = IF At("rbClaim") THEN FALSE ELSE @]
         next == CASE At("claim") -> "prepare" [] At("rbClaim") -> "rbRestore"
                   [] OTHER -> "restore"
     IN IF Updated(loc.id, from, new)
        THEN rows' = [rows EXCEPT ![loc.id] = new] /\ Goto(To(next))
        ELSE UNCHANGED rows /\ Goto(Idle)
  /\ UNCHANGED <<World, late, intact, Counters>>

\* previewRollback: checks and one guarded update, all under the lock.
PreviewRollback ==
  \E i \in 1..Len(rows) :
    /\ At("idle") /\ NoOwedRow(i)
    /\ rows[i].status = "applied" /\ i = Latest
    /\ SameDigest(Snapshot, rows[i].applied)
    /\ rows' = [rows EXCEPT ![i].rollbackPreview = TRUE]
    /\ UNCHANGED <<World, loc, late, intact, Counters>>

-----------------------------------------------------------------------------
(* Effects.  A handler announces the phase, then sends the commands.       *)

Request(then, from, to) ==
  IF PhaseHolds
  THEN Goto([pc |-> "request", then |-> then, task |-> loc.task, id |-> loc.id,
                status |-> loc.status, cmds |-> DiffCommands(from, to),
                target |-> IF then = "reMode" THEN loc.target ELSE "none"])
  ELSE Goto(Thrown(loc))

Prepare ==
  /\ At("prepare")
  /\ LET current == loc.current IN
     Request("metadata", current.rules,
             Target(current, RowOf.policy, TRUE, "compatibility").rules)
  /\ UNCHANGED <<World, rows, late, intact, Counters>>

RemoveLegacy ==
  /\ At("legacy")
  /\ LET prepared == loc.current IN
     Request("mode", prepared.rules,
             Target(prepared, RowOf.policy, FALSE, "explicit").rules)
  /\ UNCHANGED <<World, rows, late, intact, Counters>>

RestoreSource ==
  /\ At("rbRestore")
  /\ Request("rbMode", loc.current.rules, RowOf.source.rules)
  /\ UNCHANGED <<World, rows, late, intact, Counters>>

RecoveryTarget(row, target) == IF target = "source" THEN row.source ELSE row.applied

Restore ==
  /\ At("restore")
  /\ Request("reMode", rules, RecoveryTarget(RowOf, loc.target).rules)
  /\ UNCHANGED <<World, rows, late, intact, Counters>>

\* The whole list is applied and the answer arrives.
Answered ==
  /\ At("request")
  /\ LET cmds == loc.cmds IN
     /\ Admitted(rules, cmds) = Len(cmds)
     /\ rules' = After(rules, cmds, Len(cmds))
     /\ Goto([pc |-> loc.then, task |-> loc.task, id |-> loc.id,
                 status |-> loc.status, target |-> loc.target])
  /\ UNCHANGED <<mode, extra, cols, view, rows, late, Counters, intact>>

\* Hasura stops at a command it does not admit.
Refused ==
  /\ At("request")
  /\ LET cmds == loc.cmds n == Admitted(rules, loc.cmds) IN
     /\ n < Len(cmds)
     /\ rules' = After(rules, cmds, n)
  /\ Goto(Thrown(loc))
  /\ UNCHANGED <<mode, extra, cols, view, rows, late, Counters, intact>>

\* A list is cut short, or the answer is lost; no request carries a resource
\* version, so one that is still on its way arrives whenever it does.
RequestFails ==
  /\ At("request") /\ loc.cmds # <<>>
  /\ faults < MaxFaults /\ faults' = faults + 1
  /\ \/ /\ \E n \in 0..Admitted(rules, loc.cmds) : rules' = After(rules, loc.cmds, n)
        /\ UNCHANGED <<late, delayed>>
     \/ /\ delayed' = TRUE
        /\ late' = late \cup {loc.cmds}
        /\ UNCHANGED rules
  /\ \/ Goto(Thrown(loc))
     \/ Goto(Idle)
  /\ UNCHANGED <<mode, extra, cols, view, rows, bypassed, edits, intact>>

LateArrives ==
  \E cmds \in late :
    /\ late' = late \ {cmds}
    /\ rules' = After(rules, cmds, Admitted(rules, cmds))
    /\ intact' = FALSE
    /\ UNCHANGED <<mode, extra, cols, view, rows, loc, Counters>>

-----------------------------------------------------------------------------
(* Checks.                                                                 *)

\* verifyMigrationMetadata: no binding outside, no tracked object without a
\* target, and exactly the planned scoped rules beside the legacy rules of
\* the source (before the removal) or none (after it).
MetadataVerified(s, source, policy, stage) ==
  /\ ~view
  /\ s.extra # "binding"
  /\ s.rules = [slot \in Slots |->
       IF slot[1] \in Scoped THEN Materialized(policy, slot, s.cols)
       ELSE IF stage = "prepared" THEN source.rules[slot] ELSE NoRule]

\* What each role sees in Hasura's schema against the snapshot.
RootsVisible(s, roles) ==
  \A slot \in roles \X Operations : (rules[slot] = NoRule) = (s.rules[slot] = NoRule)

RuntimeVerified(s, row, runtimeMode) ==
  IF runtimeMode = "explicit"
  THEN MetadataVerified(s, s, row.policy, "legacy_removed") /\ RootsVisible(s, Scoped)
  ELSE RootsVisible(s, Legacy)

\* One announced check: the next place, or the exception.
Check(pc, ok, next) ==
  /\ At(pc)
  /\ Goto(IF PhaseHolds /\ ok THEN next ELSE Thrown(loc))

Snapped(pc) == [pc |-> pc, task |-> loc.task, id |-> loc.id,
                   status |-> loc.status, current |-> Snapshot,
                   target |-> loc.target]

VerifyMetadata ==
  /\ Check("metadata",
           MetadataVerified(Snapshot, RowOf.source, RowOf.policy, "prepared"),
           Snapped("http"))
  /\ UNCHANGED <<World, rows, late, intact, Counters>>

VerifyHttp ==
  /\ Check("http", RootsVisible(loc.current, Scoped), To("realtime"))
  /\ UNCHANGED <<World, rows, late, intact, Counters>>

VerifyRealtime ==
  /\ Check("realtime", TRUE, To("legacy"))
  /\ UNCHANGED <<World, rows, late, intact, Counters>>

AnnounceMode ==
  /\ \/ Check("mode", TRUE, To("setmode"))
     \/ Check("rbMode", TRUE, To("rbSetmode"))
     \/ Check("reMode", TRUE, To("reSetmode"))
  /\ UNCHANGED <<World, rows, late, intact, Counters>>

\* activate_explicit_mode: UPDATE ... WHERE data_access_mode = 'compatibility'.
ActivateExplicit ==
  /\ At("setmode")
  /\ IF mode = "compatibility"
     THEN mode' = "explicit" /\ Goto(To("verify"))
     ELSE UNCHANGED mode /\ Goto(Thrown(loc))
  /\ UNCHANGED <<rules, extra, cols, view, rows, late, intact, Counters>>

ModeOf(target) == IF target = "source" THEN "compatibility" ELSE "explicit"

EnsureMode ==
  /\ \/ At("rbSetmode") /\ mode' = "compatibility" /\ Goto(To("rbVerify"))
     \/ At("reSetmode") /\ mode' = ModeOf(loc.target) /\ Goto(To("reVerify"))
  /\ UNCHANGED <<rules, extra, cols, view, rows, late, Counters, intact>>

Verify ==
  /\ \/ Check("verify", RuntimeVerified(Snapshot, RowOf, "explicit"),
              Snapped("commit"))
     \/ Check("rbVerify", /\ SameDigest(Snapshot, RowOf.source)
                             /\ RuntimeVerified(Snapshot, RowOf, "compatibility"),
              Snapped("rbCommit"))
     \/ Check("reVerify",
              /\ SameDigest(Snapshot, RecoveryTarget(RowOf, loc.target))
              /\ RuntimeVerified(Snapshot, RowOf, ModeOf(loc.target)),
              Snapped("settle"))
  /\ intact' = TRUE
  /\ UNCHANGED <<World, rows, late, Counters>>

-----------------------------------------------------------------------------
(* Final updates.                                                          *)

Final(new) ==
  /\ IF Updated(loc.id, loc.status, new)
     THEN rows' = [rows EXCEPT ![loc.id] = new] /\ Goto(Idle)
     ELSE UNCHANGED rows /\ Goto(Thrown(loc))
  /\ UNCHANGED <<World, late, intact, Counters>>

Commit ==
  \/ /\ At("commit")
     /\ Final([RowOf EXCEPT !.status = "applied", !.recovery = "none",
                                  !.applied = loc.current])
  \/ /\ At("rbCommit")
     /\ Final([RowOf EXCEPT !.status = "rolled_back", !.recovery = "none"])

\* After a verified restoration: an apply has failed, a rollback leaves the
\* migration applied, and an explicit recovery says which of the two.
Settle ==
  /\ At("settle")
  /\ Final([RowOf EXCEPT
       !.status = IF loc.target = "applied" THEN "applied"
                  ELSE IF loc.task = "recover" THEN "recovered" ELSE "failed",
       !.recovery = "none", !.rollbackPreview = FALSE])

Unsettled ==
  /\ At("unsettled")
  /\ Final([RowOf EXCEPT !.status = "failed", !.recovery = loc.target])

-----------------------------------------------------------------------------
(* Faults and the rest of the system.                                      *)

\* A statement, probe or export fails.
StepFails ==
  /\ loc.pc \notin {"idle", "request"}
  /\ faults < MaxFaults /\ faults' = faults + 1
  /\ Goto(Thrown(loc))
  /\ intact' = FALSE
  /\ UNCHANGED <<World, rows, late, delayed, bypassed, edits>>

\* The process ends; the session and the lock go with it.
Crash ==
  /\ loc.pc \notin {"idle", "request"}
  /\ faults < MaxFaults /\ faults' = faults + 1
  /\ Goto(Idle)
  /\ UNCHANGED <<World, rows, late, intact, delayed, bypassed, edits>>

\* Another request changes columns or a scoped rule, under the same lock.
OrdinaryMutation ==
  /\ At("idle") /\ NoOwedRow(0)
  /\ edits < MaxEdits /\ edits' = edits + 1
  /\ \/ cols' = cols + 1 /\ UNCHANGED rules
     \/ /\ \E rule \in {NoRule, <<"owner", cols>>} : rules' = [rules EXCEPT !["auth", "select"] = rule]
        /\ UNCHANGED cols
  /\ intact' = FALSE
  /\ UNCHANGED <<mode, extra, view, rows, loc, late, faults, delayed, bypassed>>

\* Somebody edits the metadata in the Hasura console.
ConsoleEdit ==
  /\ edits < MaxEdits /\ edits' = edits + 1
  /\ bypassed' = TRUE
  /\ \/ extra' \in Extras \ {extra} /\ UNCHANGED rules
     \/ /\ \E slot \in {<<"user", "select">>, <<"auth", "select">>} :
             rules' = [rules EXCEPT ![slot] = <<"custom", cols>>]
        /\ UNCHANGED extra
  /\ intact' = FALSE
  /\ UNCHANGED <<mode, cols, view, rows, loc, late, faults, delayed>>

-----------------------------------------------------------------------------
Init ==
  /\ mode = "compatibility"
  /\ \E source \in Sources : rules = source.rules /\ view = source.view
  /\ extra = "plain"
  /\ cols = 0
  /\ rows = <<>>
  /\ loc = Idle
  /\ late = {}
  /\ intact = FALSE
  /\ delayed = FALSE /\ bypassed = FALSE
  /\ faults = 0 /\ edits = 0

Step ==
  \/ Supersede \/ Insert \/ Claim
  \/ Prepare \/ RemoveLegacy \/ RestoreSource \/ Restore
  \/ Answered \/ Refused
  \/ VerifyMetadata \/ VerifyHttp \/ VerifyRealtime
  \/ AnnounceMode \/ ActivateExplicit \/ EnsureMode \/ Verify
  \/ Commit \/ Settle \/ Unsettled

Next ==
  \/ PreviewBegin \/ ApplyBegin \/ PreviewRollback \/ RollbackBegin \/ RecoverBegin
  \/ Step
  \/ RequestFails \/ StepFails \/ Crash
  \/ LateArrives
  \/ OrdinaryMutation \/ ConsoleEdit

Spec == Init /\ [][Next]_vars

\* Handlers run to their end, and the operator of a project that is owed a
\* recovery asks for it again.
FairSpec ==
  /\ Spec
  /\ WF_vars(Step)
  /\ WF_vars(RecoverBegin)

-----------------------------------------------------------------------------
(* Properties.                                                             *)

\* Every variable has the values its column or its code gives it.
TypeOK ==
  /\ Snapshot \in Snapshots
  /\ view \in BOOLEAN
  /\ rows \in Seq(Row)
  /\ loc.pc \in Pcs
  /\ {intact, delayed, bypassed} \subseteq BOOLEAN

Owed == \E i \in 1..Latest : rows[i].recovery # "none"

\* Unless a recovery is owed, the project serves its own roles exactly when
\* its latest migration is applied: no failure, crash or half-done command
\* list leaves the mode and the row apart (recoverMigration, restoreTarget).
SettledAgrees ==
  ~Owed => (mode = "explicit" <=> Latest > 0 /\ rows[Latest].status = "applied")

\* previewMigration and previewRollback look at the latest row only: every
\* earlier one is finished.
OnlyLatestIsLive ==
  \A i \in 1..(Latest - 1) :
    /\ rows[i].status \in {"superseded", "failed", "recovered", "rolled_back"}
    /\ rows[i].recovery = "none"

\* What the final update is about to record is what was restored or applied,
\* unless somebody changed it after the last look.
RecordedIsReal ==
  intact =>
    /\ At("settle") => Snapshot = RecoveryTarget(RowOf, loc.target)
    /\ At("rbCommit") => Snapshot = RowOf.source

\* The migration rows are sound: well typed, one live at a time, and what the
\* last of them is about to record is so.
HistorySound == TypeOK /\ OnlyLatestIsLive /\ RecordedIsReal

\* An applied migration gives nobody more than the project did: an owner rule
\* stays one, and nothing opens that neither role of the actor had
\* (inspectMigrationTable).
NothingWidened ==
  \A i \in 1..Latest : rows[i].applied # NoSnapshot =>
    \A op \in Operations :
      LET before == rows[i].source.rules after == rows[i].applied.rules IN
      /\ before["auth", op][1] = "owner" => after["auth", op][1] = "owner"
      /\ after["auth", op] # NoRule => before["auth", op] # NoRule \/ before["user", op] # NoRule
      /\ after["anon", op] # NoRule => op = "select"
      /\ after["user", op] = NoRule /\ after["anonymous", op] = NoRule

\* A recovery that is owed ends, as long as nothing bypasses the platform:
\* what it has to put back cannot be changed under it in the meantime.
RecoveryEnds ==
  Owed ~> ~Owed \/ delayed \/ bypassed
=============================================================================
