--------------------------- MODULE TableDeletion ---------------------------
(***************************************************************************)
(* Tables of a project: a relation in PostgreSQL, a baseline of the managed *)
(* policies, and an entry of the Hasura metadata that names the relation    *)
(* and carries the permissions granted on it.  (The row of _meta_tables is  *)
(* display data and nothing reads it here; it is left out.)                 *)
(*                                                                         *)
(* Hasura knows relations by NAME.  A table that is deleted and made again  *)
(* is another relation under the same name, so relations are numbered here: *)
(* rel[n] is the number of the relation that stands under n (0: none), and  *)
(* a permission or a baseline is the number of the relation it was granted  *)
(* for.  Deletion commits in PostgreSQL first, together with a row of the   *)
(* outbox; untracking follows, and is retried by the recovery loop.         *)
(*                                                                         *)
(* Sources: table.service.ts, table.controller.ts, table-deletion-outbox    *)
(* and -recovery, migration 024, data-access-mutation-lock.ts,              *)
(* sql.controller.ts and realtime.service.ts (configureTableSubscription).  *)
(***************************************************************************)
EXTENDS Naturals, FiniteSets

CONSTANTS
    Workers,      \* request handlers and recovery loops of the API processes
    Names,        \* tables, qualified by their schema
    Schemas,
    SchemaOf,     \* [Names -> Schemas]
    ScopeOf,      \* [Schemas -> projects], resolveProjectIdForDataSchema
    EnvSchemas,   \* schemas of an environment other than prod
    MaxBorn,      \* relations made under a name
    MaxDrops,     \* deletions asked for
    MaxSyncs,     \* schema synchronisations
    MaxFaults     \* requests that fail or crash

ASSUME SchemasAssumption ==
    /\ SchemaOf \in [Names -> Schemas]
    /\ EnvSchemas \subseteq Schemas
    /\ {MaxBorn, MaxDrops, MaxSyncs, MaxFaults} \subseteq Nat

VARIABLES
    rel,      \* the relation under each name, 0 if there is none
    born,     \* how many relations the name has had
    open,     \* names created in a transaction of a database user that is not committed
    policy,   \* the relation a managed baseline was saved for
    outbox,   \* names with a pending row
    hasura,   \* the metadata: an entry for each name
    late,     \* requests given up by their sender that Hasura may still carry out
    handler,  \* what each worker is doing
    deleted,  \* history: the last relation removed by dropTable under each name
    restored, \* history: names a late replacement of the metadata gave a grant, until
              \* they are granted anew
    spent     \* how much of each bound is used

vars == <<rel, born, open, policy, outbox, hasura, late, handler, deleted, restored, spent>>

Scope(n) == ScopeOf[SchemaOf[n]]

Untracked == [tracked |-> FALSE, grant |-> 0]
Idle == [pc |-> "idle", kind |-> "none", schema |-> "none", name |-> "none",
         listed |-> {}, copy |-> [n \in Names |-> Untracked]]

Relations == 0..MaxBorn
\* An entry of the metadata: permissions hang from a tracked table.
Entries == {e \in [tracked : BOOLEAN, grant : Relations] : e.grant # 0 => e.tracked}
\* What is sent to Hasura to change the metadata: about one table, or about all.
Requests == [type : {"track", "untrack"}, name : Names] \cup [type : {"inconsistent"}]
              \cup [type : {"replace"}, copy : [Names -> Entries]]
Bounds == [drops : 0..MaxDrops, syncs : 0..MaxSyncs,
           faults : 0..MaxFaults]

\* What a handler knows: its request, the tables it works on, and the metadata
\* document it is about to write.
Steps == {"idle", "track", "check", "tracked", "untrack", "recheck", "clear",
          "inconsistent", "status", "export", "replace"}
Frames == [pc : Steps, kind : {"none", "create", "drop", "recover", "sync"},
           schema : Schemas \cup {"none"}, name : Names \cup {"none"},
           listed : SUBSET Names, copy : [Names -> Entries]]

\* Every variable holds what its table, its document or its frame can hold.
TypeOK ==
    /\ rel \in [Names -> Relations] /\ born \in [Names -> Relations]
    /\ deleted \in [Names -> Relations] /\ policy \in [Names -> Relations]
    /\ open \subseteq Names /\ outbox \subseteq Names
    /\ hasura \in [Names -> Entries]
    /\ late \subseteq Requests /\ restored \subseteq Names
    /\ spent \in Bounds
    /\ handler \in [Workers -> Frames]

Init ==
    /\ rel = [n \in Names |-> 0] /\ born = [n \in Names |-> 0]
    /\ deleted = [n \in Names |-> 0] /\ policy = [n \in Names |-> 0]
    /\ open = {} /\ outbox = {} /\ late = {} /\ restored = {}
    /\ hasura = [n \in Names |-> Untracked]
    /\ handler = [w \in Workers |-> Idle]
    /\ spent = [drops |-> 0, syncs |-> 0, faults |-> 0]

-----------------------------------------------------------------------------
(* The mutation lock *)

\* Mutant: a synchronisation takes the lock of its own schema only.
LockMode_SharedSync(kind, schema) ==
    IF kind = "sync" THEN "shared"
    ELSE CASE kind \in {"drop", "recover", "import"} -> "exclusive"
           [] kind = "realtime" /\ schema \in EnvSchemas -> "none"
           [] OTHER -> "shared"

\* Which global lock each operation asks for; a realtime configuration outside
\* prod asks for none at all.
LockMode(kind, schema) ==
    CASE kind \in {"drop", "recover", "sync", "import"} -> "exclusive"
      [] kind = "realtime" /\ schema \in EnvSchemas -> "none"
      [] OTHER -> "shared"

Held(w) == IF handler[w].pc = "idle" THEN "none"
           ELSE LockMode(handler[w].kind, handler[w].schema)

\* A lock is tried, never waited for: an exclusive holder excludes everyone, a
\* shared one the exclusive operations and those of its own project.
TryLock(kind, schema) ==
    LET mode == LockMode(kind, schema) IN
    \/ mode = "none"
    \/ \A w \in Workers : Held(w) # "none" =>
         /\ mode = "shared" /\ Held(w) = "shared"
         /\ ScopeOf[handler[w].schema] # ScopeOf[schema]

\* Mutant: a pending deletion blocks its own completion as well.
NoPendingDeletion_Recovery(kind, schema) == ~ \E n \in outbox : Scope(n) = ScopeOf[schema]

\* A pending deletion of the project blocks every operation but its recovery.
NoPendingDeletion(kind, schema) ==
    kind = "recover" \/ ~ \E n \in outbox : Scope(n) = ScopeOf[schema]

\* withSchemaDataAccessMutationLock: who may start.  Only locked callers look at
\* the outbox at all.
Admitted(kind, schema) ==
    /\ TryLock(kind, schema)
    /\ LockMode(kind, schema) # "none" => NoPendingDeletion(kind, schema)

Start(w, kind, n, pc) ==
    /\ handler[w].pc = "idle"
    /\ Admitted(kind, SchemaOf[n])
    /\ handler' = [handler EXCEPT ![w] =
         [pc |-> pc, kind |-> kind, schema |-> SchemaOf[n], name |-> n,
          listed |-> {}, copy |-> Idle.copy]]

Goto(w, pc) == handler' = [handler EXCEPT ![w].pc = pc]
Finish(w) == handler' = [handler EXCEPT ![w] = Idle]
Spend(bound) == spent' = [spent EXCEPT ![bound] = @ + 1]
MayFail == spent.faults < MaxFaults

-----------------------------------------------------------------------------
(* Hasura *)

Request(type, n) == [type |-> type, name |-> n]
DroppingInconsistent == [type |-> "inconsistent"]
Replacing(copy) == [type |-> "replace", copy |-> copy]

Tracked(entry) == [tracked |-> TRUE, grant |-> entry.grant]

\* What a request makes of the metadata.  A relation that PostgreSQL does not
\* have cannot be tracked, and one already tracked is left as it is; untracking
\* cascades to the permissions.  drop_inconsistent_metadata removes the entries
\* whose relation is gone; replace_metadata puts its document in place whatever has
\* changed since it was read, entries without a relation included.
Applied(md, r) ==
    CASE r.type = "track" -> IF rel[r.name] = 0 THEN md ELSE [md EXCEPT ![r.name] = Tracked(@)]
      [] r.type = "untrack" -> [md EXCEPT ![r.name] = Untracked]
      [] r.type = "inconsistent" -> [n \in Names |-> IF rel[n] = 0 THEN Untracked ELSE md[n]]
      [] r.type = "replace" -> r.copy

Accepts(r) == CASE r.type = "track" -> rel[r.name] # 0
                [] r.type = "untrack" -> hasura[r.name].tracked
                [] OTHER -> TRUE

\* The sender sees a success.
Answered(r) == Accepts(r) /\ hasura' = Applied(hasura, r) /\ UNCHANGED <<late, spent>>

\* The sender sees an error: the request was refused; or it was lost on the way
\* there, or on the way back, or its sender stopped waiting while it was under way.
Refused(r) == ~Accepts(r) /\ UNCHANGED <<hasura, late, spent>>
Lost(r) ==
    /\ MayFail /\ Spend("faults")
    /\ \/ UNCHANGED <<hasura, late>>
       \/ Accepts(r) /\ hasura' = Applied(hasura, r) /\ UNCHANGED late
       \/ late' = late \cup {r} /\ UNCHANGED hasura

\* A request nobody waits for any more is carried out after all.
LateArrives(r) ==
    /\ r \in late
    /\ late' = late \ {r}
    /\ hasura' = Applied(hasura, r)
    /\ restored' = restored \cup {n \in Names : hasura'[n].grant \notin {0, hasura[n].grant}}
    /\ UNCHANGED <<rel, born, open, policy, outbox, handler, deleted, spent>>

-----------------------------------------------------------------------------
(* PostgreSQL *)

\* Mutant: the name of a pending deletion may be used again.
ReuseGuard_Off(n) == TRUE

\* The event trigger of migration 024: a statement that makes a relation fails
\* if a pending deletion it can see has its name.
ReuseGuard(n) == n \notin outbox

MayCreate(n) == rel[n] = 0 /\ n \notin open /\ ReuseGuard(n) /\ born[n] < MaxBorn
NewRelation(n) == /\ rel' = [rel EXCEPT ![n] = born[n] + 1]
                  /\ born' = [born EXCEPT ![n] = @ + 1]

\* createTable: the relation in a transaction; tracking follows the commit.
CreateTable(w, n) ==
    /\ Start(w, "create", n, "track")
    /\ MayCreate(n) /\ NewRelation(n)
    /\ UNCHANGED <<open, policy, outbox, hasura, late, deleted, restored, spent>>

\* trackTableInHasura at the end of createTable: any failure is logged and the
\* table is reported as created.  Under the lock the relation is still there.
TrackCreated(w) ==
    LET r == Request("track", handler[w].name) IN
    /\ handler[w].kind = "create" /\ handler[w].pc = "track"
    /\ Answered(r) \/ Lost(r)
    /\ Finish(w)
    /\ UNCHANGED <<rel, born, open, policy, outbox, deleted, restored>>

\* The single-table track endpoint, one locked request.
TrackTable(w, n) ==
    /\ handler[w].pc = "idle" /\ Admitted("track", SchemaOf[n])
    /\ rel[n] # 0 /\ ~hasura[n].tracked
    /\ Answered(Request("track", n)) \/ Lost(Request("track", n))
    /\ UNCHANGED <<rel, born, open, policy, outbox, deleted, restored, handler>>

\* importSql runs the statements of its file in a transaction of its own: it may
\* drop a table or make one, and tells Hasura nothing.
ImportSql(w, n) ==
    /\ handler[w].pc = "idle" /\ Admitted("import", SchemaOf[n])
    /\ \/ rel[n] # 0 /\ rel' = [rel EXCEPT ![n] = 0] /\ UNCHANGED born
       \/ MayCreate(n) /\ NewRelation(n)
    /\ UNCHANGED <<open, policy, outbox, hasura, late, handler, deleted, restored, spent>>

\* A database user makes a table in a transaction of its own, without any lock.
\* The event trigger looks when the statement runs, the name is taken at commit.
OpenCreate(n) ==
    /\ MayCreate(n)
    /\ open' = open \cup {n}
    /\ UNCHANGED <<rel, born, policy, outbox, hasura, late, handler, deleted, restored, spent>>

CloseCreate(n) ==
    /\ n \in open
    /\ open' = open \ {n}
    /\ \/ NewRelation(n)
       \/ UNCHANGED <<rel, born>>
    /\ UNCHANGED <<policy, outbox, hasura, late, handler, deleted, restored, spent>>

\* A managed policy is applied to a tracked table (module PolicyOperation): its
\* permissions and its baseline are of the relation that stands there.
GrantPolicy(w, n) ==
    /\ handler[w].pc = "idle" /\ Admitted("policy", SchemaOf[n])
    /\ rel[n] # 0 /\ hasura[n].tracked
    /\ hasura' = [hasura EXCEPT ![n] = [tracked |-> TRUE, grant |-> rel[n]]]
    /\ policy' = [policy EXCEPT ![n] = rel[n]]
    /\ restored' = restored \ {n}
    /\ UNCHANGED <<rel, born, open, outbox, late, handler, deleted, spent>>

-----------------------------------------------------------------------------
(* Deleting a table *)

\* dropTable: relation, baseline and outbox row in one transaction on the connection that holds the lock.
DropTable(w, n) ==
    /\ spent.drops < MaxDrops /\ Spend("drops")
    /\ Start(w, "drop", n, "check")
    /\ rel' = [rel EXCEPT ![n] = 0]
    /\ deleted' = [deleted EXCEPT ![n] = IF rel[n] = 0 THEN @ ELSE rel[n]]
    /\ policy' = [policy EXCEPT ![n] = 0]
    /\ outbox' = outbox \cup {n}
    /\ UNCHANGED <<born, open, hasura, late, restored>>

\* recoverPendingTableDeletions: a row listed as pending and still there once
\* the lock is held.
RecoverDeletion(w, n) ==
    /\ n \in outbox
    /\ Start(w, "recover", n, "check")
    /\ UNCHANGED <<rel, born, open, policy, outbox, hasura, late, deleted, restored, spent>>

\* completePendingTableDeletion: nothing is untracked while a relation has the name.
CheckRelation(w) ==
    /\ handler[w].pc = "check"
    /\ IF rel[handler[w].name] = 0 THEN Goto(w, "tracked") ELSE Finish(w)
    /\ UNCHANGED <<rel, born, open, policy, outbox, hasura, late, deleted, restored, spent>>

\* isTableTrackedInHasura before the request, and again after a failed one.  The
\* export itself may fail, which leaves the row for the recovery loop.
IsTracked(w) ==
    /\ handler[w].pc \in {"tracked", "recheck"}
    /\ \/ /\ CASE ~hasura[handler[w].name].tracked -> Goto(w, "clear")
               [] handler[w].pc = "tracked" -> Goto(w, "untrack")
               [] OTHER -> Finish(w)
          /\ UNCHANGED spent
       \/ MayFail /\ Spend("faults") /\ Finish(w)
    /\ UNCHANGED <<rel, born, open, policy, outbox, hasura, late, deleted, restored>>

\* After an error of pg_untrack_table the metadata is read again.
UntrackTable(w) ==
    LET r == Request("untrack", handler[w].name) IN
    /\ handler[w].pc = "untrack"
    /\ \/ Answered(r) /\ Goto(w, "clear")
       \/ (Refused(r) \/ Lost(r)) /\ Goto(w, "recheck")
    /\ UNCHANGED <<rel, born, open, policy, outbox, deleted, restored>>

\* deleteTableDeletionOutbox; if it fails the row stays.
ClearOutbox(w) ==
    /\ handler[w].pc = "clear"
    /\ \/ outbox' = outbox \ {handler[w].name} /\ UNCHANGED spent
       \/ MayFail /\ Spend("faults") /\ UNCHANGED outbox
    /\ Finish(w)
    /\ UNCHANGED <<rel, born, open, policy, hasura, late, deleted, restored>>

-----------------------------------------------------------------------------
(* Synchronising a schema *)

Tables(s) == {n \in Names : SchemaOf[n] = s /\ rel[n] # 0}

\* trackAllTablesInHasura lists the tables once and works from that list.
SyncSchema(w, n) ==
    /\ spent.syncs < MaxSyncs /\ Spend("syncs")
    /\ handler[w].pc = "idle"
    /\ Admitted("sync", SchemaOf[n])
    /\ handler' = [handler EXCEPT ![w] =
         [pc |-> "track", kind |-> "sync", schema |-> SchemaOf[n], name |-> "none",
          listed |-> Tables(SchemaOf[n]), copy |-> Idle.copy]]
    /\ UNCHANGED <<rel, born, open, policy, outbox, hasura, late, deleted, restored>>

Tracking(some) ==
    hasura' = [n \in Names |-> IF n \in some /\ rel[n] # 0
                               THEN Tracked(hasura[n]) ELSE hasura[n]]

\* Each listed table is tracked; the ones that fail are reported and passed over.
TrackListed(w) ==
    /\ handler[w].kind = "sync" /\ handler[w].pc = "track"
    /\ \/ Tracking(handler[w].listed) /\ UNCHANGED <<late, spent>>
       \/ /\ MayFail /\ Spend("faults")
          /\ \E n \in handler[w].listed :
               /\ Tracking(handler[w].listed \ {n})
               /\ late' \in {late, late \cup {Request("track", n)}}
    /\ Goto(w, "inconsistent")
    /\ UNCHANGED <<rel, born, open, policy, outbox, deleted, restored>>

\* drop_inconsistent_metadata.  An error from here on ends the synchronisation
\* silently, which gives the lock back.
DropInconsistent(w) ==
    /\ handler[w].pc = "inconsistent"
    /\ \/ Answered(DroppingInconsistent) /\ Goto(w, "status")
       \/ Lost(DroppingInconsistent) /\ Finish(w)
    /\ UNCHANGED <<rel, born, open, policy, outbox, deleted, restored>>

Stale(w, md) == {n \in Names : /\ SchemaOf[n] = handler[w].schema
                               /\ md[n].tracked /\ n \notin handler[w].listed}

\* getHasuraStatus names the stale tables; a second export is the document that
\* is written back without them, unversioned.
ReadStatus(w) ==
    /\ handler[w].pc = "status"
    /\ IF Stale(w, hasura) = {} THEN Finish(w)
       ELSE handler' = [handler EXCEPT ![w] =
              [pc |-> "export", kind |-> @.kind, schema |-> @.schema, name |-> @.name,
               listed |-> Names \ Stale(w, hasura), copy |-> @.copy]]
    /\ UNCHANGED <<rel, born, open, policy, outbox, hasura, late, deleted, restored, spent>>

ExportMetadata(w) ==
    /\ handler[w].pc = "export"
    /\ handler' = [handler EXCEPT ![w] =
         [pc |-> "replace", kind |-> @.kind, schema |-> @.schema, name |-> @.name,
          listed |-> @.listed,
          copy |-> [n \in Names |-> IF n \in handler[w].listed THEN hasura[n] ELSE Untracked]]]
    /\ UNCHANGED <<rel, born, open, policy, outbox, hasura, late, deleted, restored, spent>>

\* replace_metadata without a resource version; an error is ignored, also when
\* Hasura has yet to carry the request out.
ReplaceMetadata(w) ==
    LET r == Replacing(handler[w].copy) IN
    /\ handler[w].pc = "replace"
    /\ Answered(r) \/ Lost(r)
    /\ Finish(w)
    /\ UNCHANGED <<rel, born, open, policy, outbox, deleted, restored>>

-----------------------------------------------------------------------------
(* Realtime *)

\* configureTableSubscription tracks the table before it records the capability.
\* For an environment other than prod it takes no lock and looks at no outbox.
ConfigureRealtime(w, n) ==
    LET r == Request("track", n) IN
    /\ handler[w].pc = "idle" /\ Admitted("realtime", SchemaOf[n])
    /\ rel[n] # 0 /\ ~hasura[n].tracked
    /\ Answered(r) \/ Lost(r)
    /\ UNCHANGED <<rel, born, open, policy, outbox, handler, deleted, restored>>

-----------------------------------------------------------------------------
\* The requests a handler may be waiting for.
UnderWay(w) ==
    CASE handler[w].pc = "untrack" -> {Request("untrack", handler[w].name)}
      [] handler[w].pc = "track" ->
           {Request("track", n) : n \in IF handler[w].kind = "sync" THEN handler[w].listed
                                                               ELSE {handler[w].name}}
      [] handler[w].pc = "inconsistent" -> {DroppingInconsistent}
      [] handler[w].pc = "replace" -> {Replacing(handler[w].copy)}
      [] OTHER -> {}

\* A process dies: its handler is gone and PostgreSQL releases its locks, but a
\* request it has sent may still be carried out.
Crash(w) ==
    /\ handler[w].pc # "idle" /\ MayFail /\ Spend("faults")
    /\ Finish(w)
    /\ late' \in {late} \cup {late \cup {r} : r \in UnderWay(w)}
    /\ UNCHANGED <<rel, born, open, policy, outbox, hasura, deleted, restored>>

Continue(w) ==
    \/ TrackCreated(w)
    \/ CheckRelation(w) \/ IsTracked(w) \/ UntrackTable(w) \/ ClearOutbox(w)
    \/ TrackListed(w) \/ DropInconsistent(w) \/ ReadStatus(w) \/ ExportMetadata(w)
    \/ ReplaceMetadata(w)

Next ==
    \/ \E w \in Workers, n \in Names :
         \/ CreateTable(w, n) \/ TrackTable(w, n) \/ ImportSql(w, n) \/ GrantPolicy(w, n)
         \/ DropTable(w, n) \/ RecoverDeletion(w, n)
         \/ SyncSchema(w, n) \/ ConfigureRealtime(w, n)
    \/ \E w \in Workers : Continue(w) \/ Crash(w)
    \/ \E n \in Names : OpenCreate(n) \/ CloseCreate(n)
    \/ \E r \in late : LateArrives(r)

Spec == Init /\ [][Next]_vars

\* A handler runs on to its end, and the recovery loop comes back every thirty
\* seconds (setInterval) for every pending row.
FairSpec ==
    /\ Spec
    /\ \A w \in Workers : WF_vars(Continue(w))
    /\ \A w \in Workers, n \in Names : SF_vars(RecoverDeletion(w, n))

-----------------------------------------------------------------------------
(* Properties *)

\* A relation is never exposed under permissions, nor judged by a baseline, that
\* were granted to a table dropTable has removed: the name is only free again
\* once Hasura has forgotten its former owner.  Excepted are the permissions a late
\* replacement of the document brought back (SyncSparesPermissions).
GrantsDieWithTable ==
    \A n \in Names : rel[n] # 0 =>
        /\ n \in restored \/ hasura[n].grant = 0 \/ hasura[n].grant > deleted[n]
        /\ policy[n] = 0 \/ policy[n] > deleted[n]

\* A deletion whose row is gone left nothing in Hasura that speaks of the table it
\* removed, whatever crashed, timed out or arrived late, with the same exception.
ClearedMeansForgotten ==
    \A n \in Names : n \notin outbox =>
        n \in restored \/ hasura[n].grant = 0 \/ hasura[n].grant > deleted[n]

\* A dropped table is forgotten: by Hasura before its deletion is cleared, and by
\* whoever uses its name next.
DroppedIsForgotten == TypeOK /\ GrantsDieWithTable /\ ClearedMeansForgotten

\* The relation under n has the grants it was given.
Granted(n) == rel[n] # 0 /\ hasura[n].grant = rel[n]

\* While a relation stands it keeps the grants it was given, although deletions of
\* its name and synchronisations that rewrite the whole document without a version
\* go on around it: only a request nobody waits for any more can take them away, an
\* untracking of its name or a replacement of the document.
StandingGrantsKept ==
    [][\A n \in Names \ restored : Granted(n) /\ rel'[n] = rel[n] =>
         \/ Granted(n)'
         \/ \E r \in late \ late' : r.type = "replace" \/ r = Request("untrack", n)]_vars

\* docs/agent/design-decisions.md:126: a synchronisation does not create, overwrite or
\* clear permissions.  So the grants of a relation that stands go only when its name
\* is untracked.
SyncSparesPermissions ==
    [][\A n \in Names : Granted(n) /\ rel'[n] = rel[n] =>
         Granted(n)' \/ Request("untrack", n) \in late \ late']_vars

\* A deletion is finished by the recovery loop, unless a relation has taken its name.
DeletionCompletes ==
    \A n \in Names : n \in outbox ~> (n \notin outbox \/ rel[n] # 0)

\* playbooks.md says that every attempt, on any connection, to make a relation
\* under a pending name fails, so none stands there.
PendingNameIsReserved == \A n \in outbox : rel[n] = 0
=============================================================================
