-------------------------- MODULE StorageObjects --------------------------
(***************************************************************************)
(* Objects of a storage bucket: a row of druvia_storage_objects and the     *)
(* bytes a provider (local disk or R2) keeps under the row's storage_path.  *)
(* The two are changed in one database transaction with the provider call   *)
(* in the middle, so each has windows in which the other is behind.         *)
(*                                                                         *)
(* Writers are project users (direct, subject to the bucket's preset),      *)
(* trusted tickets and functions acting for a project user, and platform    *)
(* users.  The account deletion executor erases what a user owns.           *)
(*                                                                         *)
(* Bytes are represented by the party they were written for.  Paths are     *)
(* object ids: a row keeps its path for as long as it lives.                *)
(* Sources: storage.service.ts, storage-access.service.ts,                  *)
(* storage.controller.ts, storage-trusted-access.service.ts,                *)
(* internal-storage.routes.ts, adapters/storage.                            *)
(***************************************************************************)
EXTENDS Naturals, FiniteSets

CONSTANTS
    Workers,     \* requests being handled, the executor's among them
    Users,       \* project users
    Leaving,     \* those who may delete their account
    Names,       \* canonical object names
    Presets,     \* project_user_access values in use
    FirstPreset, \* that of the bucket there is at first
    MaxBuckets,  \* buckets that get the bucket's name, one after the other
    MaxObjects,  \* objects ever created
    MaxWrites,   \* uploads and removals asked for
    MaxAdmin,    \* changes of the bucket's preset and deletions of the bucket
    MaxFaults    \* calls that fail, and crashes

Platform == "platform"
NoOwner == "none"
Parties == Users \cup {Platform}

ASSUME PartiesAssumption ==
    /\ {MaxBuckets, MaxObjects, MaxWrites, MaxAdmin, MaxFaults} \subseteq Nat /\ MaxBuckets # 0
    /\ {Platform, NoOwner} \cap Users = {} /\ Leaving \subseteq Users
    /\ Presets \subseteq {"admin_only", "owner_only", "authenticated_read"}
    /\ FirstPreset \in Presets

VARIABLES
    bucket,      \* the bucket under the name: its id (0: none) and preset
    buckets,     \* ids given out
    rows,        \* committed rows: name |-> [bucket, path, owner] or NoRow
    objects,     \* object ids given out
    bytes,       \* path |-> the party whose bytes are there, or NoOwner
    handler,     \* the request each worker is handling
    grants,      \* reads that were allowed: downloads under way and signed URLs
    deletion,    \* account deletion of each user: "no", "accepted", "erased"
    interrupted, \* history: paths whose writer or remover was cut short
    reassigned,  \* history: paths a trusted write claimed for another user
    spent        \* how much of each bound is used

vars == <<bucket, buckets, rows, objects, bytes, handler, grants, deletion,
          interrupted, reassigned, spent>>

Paths == 1..MaxObjects
NoRow == [bucket |-> 0, path |-> 0, owner |-> NoOwner]
Idle == [pc |-> "idle", op |-> "none", kind |-> "none", user |-> NoOwner, name |-> "none",
         bucket |-> 0, preset |-> "none", path |-> 0, owner |-> NoOwner, fresh |-> FALSE]

Locked == {"put", "insert", "erase", "commit"}

Row == [bucket : 0..MaxBuckets, path : 0..MaxObjects, owner : Users \cup {NoOwner}]
Frame ==
    [pc : {"idle", "body", "cleanup"} \cup Locked, op : {"none", "write", "delete"},
     kind : {"none", "direct", "trusted", "platform", "executor"}, user : Users \cup {NoOwner},
     name : Names \cup {"none"}, bucket : 0..MaxBuckets, preset : Presets \cup {"none"},
     path : 0..MaxObjects, owner : Users \cup {NoOwner}, fresh : BOOLEAN]

TypeOK ==
    /\ bucket \in [id : 0..MaxBuckets, preset : Presets] /\ buckets \in 0..MaxBuckets
    /\ rows \in [Names -> Row]
    /\ \A n \in Names : (rows[n].path = 0) <=> (rows[n] = NoRow)
    /\ objects \in 0..MaxObjects
    /\ bytes \in [Paths -> Parties \cup {NoOwner}]
    /\ handler \in [Workers -> Frame]
    /\ \A w \in Workers : /\ handler[w].pc # "idle" => handler[w].name \in Names
                          /\ handler[w].pc \in Locked \cup {"cleanup"} => handler[w].path # 0
    /\ grants \subseteq [user : Users, name : Names, path : Paths]
    /\ deletion \in [Users -> {"no", "accepted", "erased"}]
    /\ interrupted \subseteq Paths /\ reassigned \subseteq Paths
    /\ spent \in [writes : 0..MaxWrites, admin : 0..MaxAdmin, faults : 0..MaxFaults]

Init ==
    /\ bucket = [id |-> 1, preset |-> FirstPreset]
    /\ buckets = 1 /\ objects = 0
    /\ rows = [n \in Names |-> NoRow]
    /\ bytes = [p \in Paths |-> NoOwner]
    /\ handler = [w \in Workers |-> Idle]
    /\ grants = {} /\ interrupted = {} /\ reassigned = {}
    /\ deletion = [u \in Users |-> "no"]
    /\ spent = [writes |-> 0, admin |-> 0, faults |-> 0]

Spend(b) == spent' = [spent EXCEPT ![b] = @ + 1]
MayFail == spent.faults < MaxFaults
Finish(w) == handler' = [handler EXCEPT ![w] = Idle]
Goto(w, pc) == handler' = [handler EXCEPT ![w].pc = pc]

\* A request whose body is being received, for the bucket b it found by its name.
Request(op, kind, u, n, b, preset) ==
    [pc |-> "body", op |-> op, kind |-> kind, user |-> u, name |-> n, bucket |-> b,
     preset |-> preset, path |-> 0, owner |-> NoOwner, fresh |-> FALSE]
\* Its transaction has its locks and knows the path it works on.
Enter(w, pc, path, owner, fresh) ==
    handler' = [handler EXCEPT ![w] =
      [pc |-> pc, op |-> @.op, kind |-> @.kind, user |-> @.user, name |-> @.name,
       bucket |-> @.bucket, preset |-> @.preset, path |-> path, owner |-> owner, fresh |-> fresh]]

-----------------------------------------------------------------------------
(* Who may do what *)

\* decideStorageObjectAccess for a project user; platform users may do anything.
Decides(preset, operation, u, exists, owner) ==
    /\ preset # "admin_only"
    /\ \/ operation = "read" /\ (preset = "authenticated_read" \/ owner = u)
       \/ operation # "read" /\ (~exists \/ owner = u)

\* assertProjectSessionUsable: no account deletion of the user is recorded.
SessionUsable(u) == deletion[u] = "no"

\* The preset an upload or a removal is decided by: the one read again under the lock.
DecidedBy(w) == bucket.preset

\* Mutant: the executor is bound by the preset like the user it works for.
Permitted_BoundExecutor(w) ==
    LET h == handler[w]  r == rows[h.name] IN
    h.kind \in {"direct", "executor"} => Decides(DecidedBy(w), h.op, h.user, r # NoRow, r.owner)

\* A direct request of a project user is decided in the transaction; tickets,
\* functions and platform users are not bound by the preset.
Permitted(w) ==
    LET h == handler[w]  r == rows[h.name] IN
    h.kind = "direct" => Decides(DecidedBy(w), h.op, h.user, r # NoRow, r.owner)

\* The owner a write leaves behind: a platform user's upload keeps the object's.
OwnerAfter(w) ==
    LET h == handler[w] IN
    IF h.kind = "platform" THEN rows[h.name].owner ELSE h.user

\* The path bytes go to: the row's own, or one made from the new object's id.
PathOf(w) == IF rows[handler[w].name] # NoRow THEN rows[handler[w].name].path ELSE objects + 1

-----------------------------------------------------------------------------
(* Locks *)

\* FOR SHARE of the bucket row, held by every object transaction to its end.
SharesBucket(w) == handler[w].pc \in Locked

\* Mutant: the advisory lock of the name is not taken.
HoldsName_Off(w, n) == FALSE

\* The advisory lock of one bucket and name.
HoldsName(w, n) == handler[w].pc \in Locked /\ handler[w].name = n

BucketIsShared == \E w \in Workers : SharesBucket(w)
NameIsFree(w, n) == \A v \in Workers \ {w} : ~HoldsName(v, n)

-----------------------------------------------------------------------------
(* The bucket: platform users only *)

\* updateBucket waits for the object transactions that share the row.
UpdateBucket(p) ==
    /\ spent.admin < MaxAdmin /\ Spend("admin")
    /\ bucket.id # 0 /\ p # bucket.preset /\ ~BucketIsShared
    /\ bucket' = [bucket EXCEPT !.preset = p]
    /\ UNCHANGED <<buckets, rows, objects, bytes, handler, grants, deletion, interrupted, reassigned>>

\* deleteBucket locks the row, counts the objects and deletes an empty bucket.
DeleteBucket ==
    /\ spent.admin < MaxAdmin /\ Spend("admin")
    /\ bucket.id # 0 /\ ~BucketIsShared
    /\ \A n \in Names : rows[n].bucket # bucket.id
    /\ bucket' = [bucket EXCEPT !.id = 0]
    /\ UNCHANGED <<buckets, rows, objects, bytes, handler, grants, deletion, interrupted,
                   reassigned>>

CreateBucket(p) ==
    /\ bucket.id = 0 /\ buckets < MaxBuckets
    /\ buckets' = buckets + 1
    /\ bucket' = [id |-> buckets + 1, preset |-> p]
    /\ UNCHANGED <<rows, objects, bytes, handler, grants, deletion, interrupted, reassigned, spent>>

-----------------------------------------------------------------------------
(* Uploading *)

\* What every handler does first: the session of the user it acts for is usable
\* and the bucket is found by its name; then the body is received.
Admit(w, op, kind, u, n) ==
    /\ handler[w].pc = "idle" /\ spent.writes < MaxWrites /\ Spend("writes")
    /\ u # NoOwner => SessionUsable(u)
    /\ bucket.id # 0
    /\ handler' = [handler EXCEPT ![w] = Request(op, kind, u, n, bucket.id, bucket.preset)]
    /\ UNCHANGED <<bucket, buckets, rows, objects, bytes, grants, deletion, interrupted, reassigned>>

\* resolveObjectActor: a project user, or a platform user who acts for nobody.
ActorKind(u) == IF u = NoOwner THEN "platform" ELSE "direct"

\* The upload endpoint: a project user passes a first look at the preset.
UploadObject(w, u, n) ==
    /\ u # NoOwner => Decides(bucket.preset, "write", u, FALSE, NoOwner)
    /\ Admit(w, "write", ActorKind(u), u, n)

\* A trusted ticket is for a project user and is not bound by the preset.
UploadWithTicket(w, u, n) == u # NoOwner /\ Admit(w, "write", "trusted", u, n)

\* A function works for the project user who called it, or for nobody.
FunctionKind(u) == IF u = NoOwner THEN "platform" ELSE "trusted"
FunctionUploads(w, u, n) == Admit(w, "write", FunctionKind(u), u, n)

\* uploadObject opens its transaction: the bucket row is shared, the name locked,
\* the row read, the request decided, and the path chosen.
BeginUpload(w) ==
    LET h == handler[w]  fresh == rows[h.name] = NoRow IN
    /\ h.pc = "body" /\ h.op = "write"
    /\ bucket.id = h.bucket
    /\ NameIsFree(w, h.name)
    /\ Permitted(w)
    /\ fresh => objects < MaxObjects
    /\ objects' = IF fresh THEN objects + 1 ELSE objects
    /\ Enter(w, "put", PathOf(w), OwnerAfter(w), fresh)
    /\ UNCHANGED <<bucket, buckets, rows, bytes, grants, deletion, interrupted, reassigned, spent>>

\* The bucket is gone or the request is refused: the transaction is rolled back.
RefuseWrite(w) ==
    LET h == handler[w] IN
    /\ h.pc = "body"
    /\ bucket.id # h.bucket \/ (NameIsFree(w, h.name) /\ ~Permitted(w))
    /\ Finish(w)
    /\ UNCHANGED <<bucket, buckets, rows, objects, bytes, grants, deletion, interrupted, reassigned, spent>>

Written(w) == IF handler[w].kind = "platform" THEN Platform ELSE handler[w].user

\* Mutant: a failed overwrite deletes the bytes of the object it failed to replace.
CleansUp_Always(w) == TRUE

\* After an error only a path made for a new object is cleaned up.
CleansUp(w) == handler[w].fresh

Failed(w) == IF CleansUp(w) THEN Goto(w, "cleanup") ELSE Finish(w)

\* storage.upload, before the row: the bytes are there whatever follows.
PutBytes(w) ==
    LET h == handler[w] IN
    /\ h.pc = "put"
    /\ \/ /\ bytes' = [bytes EXCEPT ![h.path] = Written(w)]
          /\ Goto(w, "insert") /\ UNCHANGED spent
       \/ /\ MayFail /\ Spend("faults")
          /\ bytes' \in {bytes, [bytes EXCEPT ![h.path] = Written(w)]}
          /\ Failed(w)
    /\ reassigned' = IF h.kind = "trusted" /\ ~h.fresh /\ rows[h.name].owner # h.user
                     THEN reassigned \cup {h.path} ELSE reassigned
    /\ UNCHANGED <<bucket, buckets, rows, objects, grants, deletion, interrupted>>

\* The insert and the commit.  A database error rolls back; when the connection
\* itself is lost the outcome is unknown, the ROLLBACK of the error path rejects
\* as well, and nothing is cleaned up.
CommitUpload(w) ==
    LET h == handler[w]
        row == [bucket |-> h.bucket, path |-> h.path, owner |-> h.owner]
        inserted == [rows EXCEPT ![h.name] = row]
    IN
    /\ h.pc = "insert"
    /\ \/ /\ rows' = inserted /\ Finish(w)
          /\ interrupted' = interrupted \ {h.path} /\ UNCHANGED spent
       \/ /\ MayFail /\ Spend("faults")
          /\ UNCHANGED <<rows, interrupted>>
          /\ Failed(w)
       \/ /\ MayFail /\ Spend("faults")
          /\ rows' \in {rows, inserted}
          /\ interrupted' = IF rows' = rows /\ h.fresh THEN interrupted \cup {h.path} ELSE interrupted
          /\ Finish(w)
    /\ UNCHANGED <<bucket, buckets, objects, bytes, grants, deletion, reassigned>>

\* The bytes of a failed upload are deleted after the rollback, without any lock;
\* a failed cleanup is left to the operator.
Cleanup(w) ==
    LET h == handler[w] IN
    /\ h.pc = "cleanup"
    /\ \/ bytes' = [bytes EXCEPT ![h.path] = NoOwner] /\ UNCHANGED interrupted
       \/ UNCHANGED bytes /\ interrupted' = interrupted \cup {h.path}
    /\ Finish(w)
    /\ UNCHANGED <<bucket, buckets, rows, objects, grants, deletion, reassigned, spent>>

-----------------------------------------------------------------------------
(* Removing *)

\* The delete endpoint, a ticket for one path, and a function.
DeleteObject(w, u, n) == Admit(w, "delete", ActorKind(u), u, n)
RemoveWithTicket(w, u, n) == u # NoOwner /\ Admit(w, "delete", "trusted", u, n)
FunctionRemoves(w, u, n) == Admit(w, "delete", FunctionKind(u), u, n)

\* deleteObjectsOwnedByProjectUser lists the rows of the user and deletes each
\* of them as a trusted removal, by name.
EraseNext(w, u, n) ==
    /\ handler[w].pc = "idle"
    /\ deletion[u] = "accepted" /\ rows[n].owner = u
    /\ ~ \E v \in Workers : handler[v].pc # "idle" /\ handler[v].kind = "executor"
    /\ handler' = [handler EXCEPT ![w] =
         Request("delete", "executor", u, n, rows[n].bucket, "none")]
    /\ UNCHANGED <<bucket, buckets, rows, objects, bytes, grants, deletion, interrupted,
                   reassigned, spent>>

\* No row left to list: the storage phase is over.
EraseDone(u) ==
    /\ deletion[u] = "accepted"
    /\ ~ \E v \in Workers : handler[v].pc # "idle" /\ handler[v].kind = "executor"
    /\ \A n \in Names : rows[n].owner # u
    /\ deletion' = [deletion EXCEPT ![u] = "erased"]
    /\ UNCHANGED <<bucket, buckets, rows, objects, bytes, handler, grants, interrupted,
                   reassigned, spent>>

\* deleteObject: locks, the row, the decision; a missing row ends the request.
BeginRemove(w) ==
    LET h == handler[w] IN
    /\ h.pc = "body" /\ h.op = "delete"
    /\ bucket.id = h.bucket /\ NameIsFree(w, h.name) /\ Permitted(w)
    /\ IF rows[h.name] = NoRow THEN Finish(w)
       ELSE Enter(w, "erase", rows[h.name].path, NoOwner, FALSE)
    /\ UNCHANGED <<bucket, buckets, rows, objects, bytes, grants, deletion, interrupted,
                   reassigned, spent>>

\* storage.delete inside the transaction; its failure rolls the row back.
EraseBytes(w) ==
    LET h == handler[w] IN
    /\ h.pc = "erase"
    /\ \/ /\ bytes' = [bytes EXCEPT ![h.path] = NoOwner]
          /\ Goto(w, "commit") /\ UNCHANGED <<interrupted, spent>>
       \/ /\ MayFail /\ Spend("faults")
          /\ bytes' \in {bytes, [bytes EXCEPT ![h.path] = NoOwner]}
          /\ interrupted' = interrupted \cup {h.path}
          /\ Finish(w)
    /\ UNCHANGED <<bucket, buckets, rows, objects, grants, deletion, reassigned>>

CommitRemove(w) ==
    LET h == handler[w]  removed == [rows EXCEPT ![h.name] = NoRow] IN
    /\ h.pc = "commit"
    /\ \/ rows' = removed /\ UNCHANGED <<interrupted, spent>>
       \/ /\ MayFail /\ Spend("faults")
          /\ rows' \in {rows, removed}
          /\ interrupted' = interrupted \cup {h.path}
    /\ Finish(w)
    /\ UNCHANGED <<bucket, buckets, objects, bytes, grants, deletion, reassigned>>

-----------------------------------------------------------------------------
(* Reading *)

\* getObjectForActor: the bucket is read again by its id, the row by its name.
\* The answer is the path, from which the bytes are fetched later: by this
\* request, or through a signed URL until it expires.
AllowRead(u, n) ==
    /\ SessionUsable(u) /\ bucket.id # 0
    /\ rows[n].bucket = bucket.id /\ rows[n] # NoRow
    /\ Decides(bucket.preset, "read", u, TRUE, rows[n].owner)
    /\ bucket.preset = "owner_only"
    /\ grants' = grants \cup {[user |-> u, name |-> n, path |-> rows[n].path]}
    /\ grants' # grants
    /\ UNCHANGED <<bucket, buckets, rows, objects, bytes, handler, deletion, interrupted,
                   reassigned, spent>>

\* What a reader is given: whatever the provider has under the path by then.
Fetched(g) == bytes[g.path]

-----------------------------------------------------------------------------
\* Account deletion is accepted (module ProjectAccount): no new request passes.
AcceptDeletion(u) ==
    /\ deletion[u] = "no" /\ u \in Leaving
    /\ deletion' = [deletion EXCEPT ![u] = "accepted"]
    /\ UNCHANGED <<bucket, buckets, rows, objects, bytes, handler, grants, interrupted,
                   reassigned, spent>>

\* The process dies and PostgreSQL rolls its transaction back.
Crash(w) ==
    /\ handler[w].pc # "idle" /\ MayFail /\ Spend("faults")
    /\ Finish(w)
    /\ interrupted' = interrupted \cup ({handler[w].path} \ {0})
    /\ UNCHANGED <<bucket, buckets, rows, objects, bytes, grants, deletion, reassigned>>

Continue(w) ==
    \/ BeginUpload(w) \/ RefuseWrite(w) \/ PutBytes(w) \/ CommitUpload(w) \/ Cleanup(w)
    \/ BeginRemove(w) \/ EraseBytes(w) \/ CommitRemove(w)

Erase(u) == EraseDone(u) \/ \E w \in Workers, n \in Names : EraseNext(w, u, n)

Next ==
    \/ \E p \in Presets : UpdateBucket(p) \/ CreateBucket(p)
    \/ DeleteBucket
    \/ \E w \in Workers, u \in Users \cup {NoOwner}, n \in Names :
         \/ UploadObject(w, u, n) \/ UploadWithTicket(w, u, n) \/ FunctionUploads(w, u, n)
         \/ DeleteObject(w, u, n) \/ RemoveWithTicket(w, u, n) \/ FunctionRemoves(w, u, n)
    \/ \E w \in Workers : Continue(w) \/ Crash(w)
    \/ \E u \in Users, n \in Names : AllowRead(u, n)
    \/ \E u \in Users : AcceptDeletion(u) \/ Erase(u)

Spec == Init /\ [][Next]_vars

\* A request under way runs on, and the executor comes back for a deletion that
\* is not over.
FairSpec ==
    /\ Spec
    /\ \A w \in Workers : WF_vars(Continue(w))
    /\ \A u \in Users : SF_vars(Erase(u))

-----------------------------------------------------------------------------
(* Properties *)

\* Two users never both claim a name: what a direct upload or removal of one
\* project user changes was nobody's or his own when it commits, and the bytes
\* he overwrote were not another user's.  It only commits while the bucket's
\* preset lets project users in, however long ago the request was admitted.
OwnershipRespected ==
    [][\A w \in Workers : handler[w].kind = "direct" =>
        /\ (CommitUpload(w) \/ CommitRemove(w)) =>
             /\ \A n \in Names : rows'[n] # rows[n] => rows[n] = NoRow \/ rows[n].owner = handler[w].user
             /\ rows' # rows => bucket.preset # "admin_only"
        /\ PutBytes(w) => \A n \in Names : rows[n].path = handler[w].path =>
             rows[n].owner = handler[w].user]_vars

\* Bytes without a row belong to a request under way or to one that was cut
\* short: in particular no bucket is deleted under an upload.
NoOrphanedBytes ==
    \A p \in Paths : bytes[p] # NoOwner =>
        \/ \E n \in Names : rows[n].path = p /\ rows[n].bucket = bucket.id
        \/ \E w \in Workers : handler[w].path = p
        \/ p \in interrupted

\* A row has its bytes, unless a removal is under way or was cut short after the
\* provider had erased them: no failed upload leaves a row without bytes.  They need
\* not be the former ones: an overwrite that fails after the provider has taken the
\* new content leaves it under the surviving row.
RowsHaveBytes ==
    \A n \in Names : rows[n] # NoRow =>
        \/ bytes[rows[n].path] # NoOwner
        \/ \E w \in Workers : handler[w].pc = "commit" /\ handler[w].path = rows[n].path
        \/ rows[n].path \in interrupted

\* A download under way or a signed URL of an owner_only bucket never yields
\* bytes written for another user, though the name may have been removed and
\* taken by that user since; only a trusted write can hand the object on.
ReadsStayWithObject ==
    \A g \in grants : Fetched(g) \in {g.user, Platform, NoOwner} \/ g.path \in reassigned

\* Rows and bytes are sound: well typed, each with the other, and read by those
\* they were written for.
ObjectsSound == TypeOK /\ NoOrphanedBytes /\ RowsHaveBytes /\ ReadsStayWithObject

\* The executor gets to the end of a user's objects.
ErasureEnds == \A u \in Users : deletion[u] = "accepted" ~> deletion[u] = "erased"

\* The account deletion plan says a deletion is completed once the user's
\* Storage is cleared: nothing in it is the user's afterwards.
ErasedStaysErased ==
    \A u \in Users : deletion[u] = "erased" => \A n \in Names : rows[n].owner # u
=============================================================================
