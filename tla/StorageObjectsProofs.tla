------------------------ MODULE StorageObjectsProofs ------------------------
(***************************************************************************)
(* What holds of rows and bytes for every number of requests, users, names, *)
(* objects, buckets and faults: the two stay sound (ObjectsSound), and a    *)
(* direct request of a project user changes nothing of another user         *)
(* (OwnershipRespected).                                                    *)
(***************************************************************************)
EXTENDS StorageObjects, TLAPS

-----------------------------------------------------------------------------
(* Type correctness.                                                       *)

\* The bounds are numbers, and the parties are distinct.
LEMMA Constants ==
  /\ MaxBuckets \in Nat \ {0} /\ MaxObjects \in Nat /\ MaxWrites \in Nat
  /\ MaxAdmin \in Nat /\ MaxFaults \in Nat
  /\ Platform \notin Users /\ NoOwner \notin Users /\ Platform # NoOwner
  /\ FirstPreset \in Presets
  BY PartiesAssumption DEF Platform, NoOwner

\* A counter of a bound that is not used up can be raised.
LEMMA SpendType ==
  /\ TypeOK /\ spent.writes < MaxWrites /\ Spend("writes") =>
       (spent \in [writes : 0..MaxWrites, admin : 0..MaxAdmin, faults : 0..MaxFaults])'
  /\ TypeOK /\ spent.admin < MaxAdmin /\ Spend("admin") =>
       (spent \in [writes : 0..MaxWrites, admin : 0..MaxAdmin, faults : 0..MaxFaults])'
  /\ TypeOK /\ MayFail /\ Spend("faults") =>
       (spent \in [writes : 0..MaxWrites, admin : 0..MaxAdmin, faults : 0..MaxFaults])'
  BY Constants DEF TypeOK, Spend, MayFail

\* The empty row and the idle frame are values of their types.
LEMMA Defaults == NoRow \in Row /\ Idle \in Frame
  BY Constants DEF NoRow, Row, Idle, Frame, Locked

\* A handler keeps what it was asked to do.
SameRequest(w) ==
  /\ handler'[w].op = handler[w].op /\ handler'[w].kind = handler[w].kind
  /\ handler'[w].user = handler[w].user /\ handler'[w].name = handler[w].name
  /\ handler'[w].bucket = handler[w].bucket

\* What Goto and Finish make of the frames.
LEMMA GotoFrames ==
  ASSUME TypeOK, NEW w \in Workers, NEW pc \in {"cleanup"} \cup Locked, Goto(w, pc)
  PROVE  /\ handler' \in [Workers -> Frame]
         /\ \A v \in Workers \ {w} : handler'[v] = handler[v]
         /\ SameRequest(w) /\ handler'[w].pc = pc /\ handler'[w].path = handler[w].path
         /\ handler'[w].owner = handler[w].owner /\ handler'[w].fresh = handler[w].fresh
  <1> DEFINE h == handler[w]
             g == [h EXCEPT !.pc = pc]
  <1>1. handler \in [Workers -> Frame] /\ h \in Frame
    BY DEF TypeOK
  <1>2. handler' = [handler EXCEPT ![w] = g]
    BY <1>1 DEF Goto
  <1>3. /\ g \in Frame
        /\ g.pc = pc /\ g.op = h.op /\ g.kind = h.kind /\ g.user = h.user /\ g.name = h.name
        /\ g.bucket = h.bucket /\ g.path = h.path /\ g.owner = h.owner /\ g.fresh = h.fresh
    BY <1>1 DEF Frame
  <1> HIDE DEF g
  <1>4. handler' \in [Workers -> Frame] /\ handler'[w] = g
        /\ \A v \in Workers \ {w} : handler'[v] = handler[v]
    BY <1>1, <1>2, <1>3
  <1> QED
    BY <1>3, <1>4 DEF SameRequest

LEMMA FinishFrames ==
  ASSUME TypeOK, NEW w \in Workers, Finish(w)
  PROVE  /\ handler' \in [Workers -> Frame] /\ handler'[w] = Idle
         /\ \A v \in Workers \ {w} : handler'[v] = handler[v]
  BY Defaults DEF TypeOK, Finish

LEMMA EnterFrames ==
  ASSUME TypeOK, NEW w \in Workers, NEW pc \in Locked, NEW p \in 0..MaxObjects,
         NEW o \in Users \cup {NoOwner}, NEW f \in BOOLEAN, Enter(w, pc, p, o, f)
  PROVE  /\ handler' \in [Workers -> Frame]
         /\ \A v \in Workers \ {w} : handler'[v] = handler[v]
         /\ SameRequest(w) /\ handler'[w].pc = pc /\ handler'[w].path = p
         /\ handler'[w].owner = o /\ handler'[w].fresh = f
  <1> DEFINE g == [pc |-> pc, op |-> handler[w].op, kind |-> handler[w].kind,
                   user |-> handler[w].user, name |-> handler[w].name,
                   bucket |-> handler[w].bucket, preset |-> handler[w].preset,
                   path |-> p, owner |-> o, fresh |-> f]
  <1>1. handler \in [Workers -> Frame] /\ handler[w] \in Frame
    BY DEF TypeOK
  <1>2. g \in Frame
    BY <1>1 DEF Frame
  <1>3. handler' = [handler EXCEPT ![w] = g]
    BY DEF Enter
  <1>4. handler' \in [Workers -> Frame] /\ handler'[w] = g
        /\ \A v \in Workers \ {w} : handler'[v] = handler[v]
    <2> HIDE DEF g
    <2> QED
      BY <1>1, <1>2, <1>3
  <1> QED
    BY <1>4 DEF SameRequest

LEMMA AdmitFrames ==
  ASSUME TypeOK, NEW w \in Workers, NEW op \in {"write", "delete"},
         NEW kind \in {"direct", "trusted", "platform", "executor"},
         NEW u \in Users \cup {NoOwner}, NEW n \in Names, NEW b \in 0..MaxBuckets,
         NEW preset \in Presets \cup {"none"},
         handler' = [handler EXCEPT ![w] = Request(op, kind, u, n, b, preset)]
  PROVE  /\ handler' \in [Workers -> Frame] /\ handler'[w] = Request(op, kind, u, n, b, preset)
         /\ \A v \in Workers \ {w} : handler'[v] = handler[v]
         /\ \A v \in Workers : /\ handler'[v].pc # "idle" => handler'[v].name \in Names
                               /\ handler'[v].pc \in Locked \cup {"cleanup"} => handler'[v].path # 0
  <1>1. /\ Request(op, kind, u, n, b, preset) \in Frame /\ Request(op, kind, u, n, b, preset).name = n
        /\ Request(op, kind, u, n, b, preset).pc \notin Locked \cup {"cleanup"}
    BY Constants DEF Request, Frame, Locked
  <1>2. handler' \in [Workers -> Frame] /\ handler'[w] = Request(op, kind, u, n, b, preset)
        /\ \A v \in Workers \ {w} : handler'[v] = handler[v]
    BY <1>1 DEF TypeOK
  <1> QED
    BY <1>1, <1>2 DEF TypeOK

LEMMA InitType == Init => TypeOK
  <1> SUFFICES ASSUME Init PROVE TypeOK
    OBVIOUS
  <1>1. bucket \in [id : 0..MaxBuckets, preset : Presets] /\ buckets \in 0..MaxBuckets
        /\ objects \in 0..MaxObjects
    BY Constants DEF Init
  <1>2. rows \in [Names -> Row] /\ \A n \in Names : (rows[n].path = 0) <=> (rows[n] = NoRow)
    <2>1. NoRow.path = 0
      BY DEF NoRow
    <2> QED
      BY <2>1, Defaults DEF Init
  <1>3. /\ handler \in [Workers -> Frame]
        /\ \A w \in Workers : handler[w].pc = "idle" /\ handler[w].pc \notin Locked \cup {"cleanup"}
    <2>1. Idle.pc = "idle" /\ "idle" \notin Locked \cup {"cleanup"}
      BY DEF Idle, Locked
    <2> QED
      BY <2>1, Defaults DEF Init
  <1>4. spent \in [writes : 0..MaxWrites, admin : 0..MaxAdmin, faults : 0..MaxFaults]
    BY Constants DEF Init
  <1> QED
    BY <1>1, <1>2, <1>3, <1>4 DEF Init, TypeOK

\* A worker that moves on or ends keeps its name until it is idle, and a
\* transaction knows its path.
LEMMA NamesKept ==
  ASSUME TypeOK, NEW w \in Workers, handler' \in [Workers -> Frame],
         \A v \in Workers \ {w} : handler'[v] = handler[v],
         handler'[w].pc # "idle" => handler'[w].name \in Names,
         handler'[w].pc \in Locked \cup {"cleanup"} => handler'[w].path # 0
  PROVE  \A v \in Workers : /\ handler'[v].pc # "idle" => handler'[v].name \in Names
                            /\ handler'[v].pc \in Locked \cup {"cleanup"} => handler'[v].path # 0
  BY DEF TypeOK

\* The steps of the administrators, of readers and of account deletion.
LEMMA OutsideType ==
  ASSUME TypeOK,
         \/ \E p \in Presets : UpdateBucket(p) \/ CreateBucket(p)
         \/ DeleteBucket
         \/ \E u \in Users, n \in Names : AllowRead(u, n)
         \/ \E u \in Users : AcceptDeletion(u) \/ EraseDone(u)
  PROVE  TypeOK'
  <1>0. bucket \in [id : 0..MaxBuckets, preset : Presets]
    BY DEF TypeOK
  <1>1. ASSUME NEW p \in Presets, UpdateBucket(p) PROVE TypeOK'
    <2>1. bucket' \in [id : 0..MaxBuckets, preset : Presets]
      BY <1>0, <1>1 DEF UpdateBucket
    <2> QED
      BY <1>1, <2>1, SpendType DEF UpdateBucket, TypeOK
  <1>2. ASSUME NEW p \in Presets, CreateBucket(p) PROVE TypeOK'
    BY <1>2, Constants DEF CreateBucket, TypeOK
  <1>3. CASE DeleteBucket
    <2>1. bucket' \in [id : 0..MaxBuckets, preset : Presets]
      BY <1>0, <1>3, Constants DEF DeleteBucket
    <2> QED
      BY <1>3, <2>1, SpendType DEF DeleteBucket, TypeOK
  <1>4. ASSUME NEW u \in Users, NEW n \in Names, AllowRead(u, n) PROVE TypeOK'
    <2>1. rows[n].path \in Paths
      BY <1>4, Constants DEF AllowRead, TypeOK, Row, Paths
    <2> QED
      BY <1>4, <2>1 DEF AllowRead, TypeOK
  <1>5. ASSUME NEW u \in Users, AcceptDeletion(u) \/ EraseDone(u) PROVE TypeOK'
    BY <1>5 DEF AcceptDeletion, EraseDone, TypeOK
  <1> QED
    BY <1>1, <1>2, <1>3, <1>4, <1>5

LEMMA AdmitType ==
  ASSUME TypeOK, NEW w \in Workers, NEW u \in Users \cup {NoOwner}, NEW n \in Names,
         \/ \E op \in {"write", "delete"}, kind \in {"direct", "trusted", "platform"} :
              Admit(w, op, kind, u, n)
         \/ EraseNext(w, u, n)
  PROVE  TypeOK'
  <1>1. ASSUME NEW op \in {"write", "delete"}, NEW kind \in {"direct", "trusted", "platform"},
               Admit(w, op, kind, u, n)
        PROVE  TypeOK'
    <2>1. bucket.id \in 0..MaxBuckets /\ bucket.preset \in Presets
      BY DEF TypeOK
    <2>2. handler' \in [Workers -> Frame]
          /\ \A v \in Workers :
               /\ handler'[v].pc # "idle" => handler'[v].name \in Names
               /\ handler'[v].pc \in Locked \cup {"cleanup"} => handler'[v].path # 0
      BY <1>1, <2>1, AdmitFrames DEF Admit
    <2> QED
      BY <1>1, <2>2, SpendType DEF Admit, TypeOK
  <1>2. CASE EraseNext(w, u, n)
    <2>1. rows[n].bucket \in 0..MaxBuckets
      BY DEF TypeOK, Row
    <2>2. handler' \in [Workers -> Frame]
          /\ \A v \in Workers :
               /\ handler'[v].pc # "idle" => handler'[v].name \in Names
               /\ handler'[v].pc \in Locked \cup {"cleanup"} => handler'[v].path # 0
      BY <1>2, <2>1, AdmitFrames DEF EraseNext
    <2> QED
      BY <1>2, <2>2 DEF EraseNext, TypeOK
  <1> QED
    BY <1>1, <1>2

\* The endpoints are all admissions of a request.
LEMMA EndpointsAdmit ==
  ASSUME NEW w \in Workers, NEW u \in Users \cup {NoOwner}, NEW n \in Names,
         \/ UploadObject(w, u, n) \/ UploadWithTicket(w, u, n) \/ FunctionUploads(w, u, n)
         \/ DeleteObject(w, u, n) \/ RemoveWithTicket(w, u, n) \/ FunctionRemoves(w, u, n)
  PROVE  \E op \in {"write", "delete"}, kind \in {"direct", "trusted", "platform"} :
           Admit(w, op, kind, u, n) /\ (kind # "platform" => u \in Users)
  BY Constants DEF UploadObject, UploadWithTicket, FunctionUploads, DeleteObject, RemoveWithTicket,
     FunctionRemoves, ActorKind, FunctionKind

\* The path a transaction chooses, and the owner it leaves behind.
LEMMA ChosenType ==
  ASSUME TypeOK, NEW w \in Workers, handler[w].name \in Names,
         rows[handler[w].name] = NoRow => objects < MaxObjects
  PROVE  PathOf(w) \in 1..MaxObjects /\ OwnerAfter(w) \in Users \cup {NoOwner}
  <1>1. rows[handler[w].name] \in Row
        /\ (rows[handler[w].name].path = 0 <=> rows[handler[w].name] = NoRow)
    BY DEF TypeOK
  <1>2. handler[w].user \in Users \cup {NoOwner}
    BY DEF TypeOK, Frame
  <1> QED
    BY <1>1, <1>2, Constants DEF PathOf, OwnerAfter, Row, TypeOK

\* A handler that fails goes on to its cleanup, or ends.
LEMMA FailedFrames ==
  ASSUME TypeOK, NEW w \in Workers, Failed(w)
  PROVE  (handler[w].fresh /\ Goto(w, "cleanup")) \/ (~handler[w].fresh /\ Finish(w))
  BY DEF Failed, CleansUp

\* The handler of one worker moves; the frames of the others stay.
OneMoves(w) ==
  /\ handler' \in [Workers -> Frame]
  /\ \A v \in Workers \ {w} : handler'[v] = handler[v]
  /\ \A v \in Workers : /\ handler'[v].pc # "idle" => handler'[v].name \in Names
                        /\ handler'[v].pc \in Locked \cup {"cleanup"} => handler'[v].path # 0

LEMMA WorkerFrames ==
  ASSUME TypeOK, NEW w \in Workers, Continue(w) \/ Crash(w)
  PROVE  OneMoves(w) /\ handler[w].pc # "idle" /\ handler[w].name \in Names
  <1>0. handler[w].pc # "idle" /\ handler[w].name \in Names
    BY DEF TypeOK, Continue, Crash, BeginUpload, RefuseWrite, PutBytes, CommitUpload, Cleanup,
           BeginRemove, EraseBytes, CommitRemove
  <1>1. ASSUME Finish(w) PROVE OneMoves(w)
    <2>1. handler' \in [Workers -> Frame] /\ handler'[w] = Idle
          /\ \A v \in Workers \ {w} : handler'[v] = handler[v]
      BY <1>1, FinishFrames
    <2>2. handler'[w].pc = "idle" /\ handler'[w].pc \notin Locked \cup {"cleanup"}
      BY <2>1 DEF Idle, Locked
    <2> QED
      BY <2>1, <2>2, NamesKept DEF OneMoves
  <1>2. ASSUME NEW pc \in {"cleanup"} \cup Locked, Goto(w, pc), handler[w].path # 0
        PROVE  OneMoves(w)
    <2>1. handler' \in [Workers -> Frame] /\ handler'[w].name = handler[w].name
          /\ handler'[w].path = handler[w].path
          /\ \A v \in Workers \ {w} : handler'[v] = handler[v]
      BY <1>2, GotoFrames DEF SameRequest
    <2> QED
      BY <1>0, <1>2, <2>1, NamesKept DEF OneMoves
  <1>3. ASSUME NEW pc \in Locked, NEW p \in 1..MaxObjects, NEW o \in Users \cup {NoOwner},
               NEW f \in BOOLEAN, Enter(w, pc, p, o, f)
        PROVE  OneMoves(w)
    <2>0. p \in 0..MaxObjects /\ p # 0
      BY Constants
    <2>1. handler' \in [Workers -> Frame] /\ handler'[w].name = handler[w].name
          /\ handler'[w].path = p
          /\ \A v \in Workers \ {w} : handler'[v] = handler[v]
      BY <1>3, <2>0, EnterFrames DEF SameRequest
    <2> QED
      BY <1>0, <2>0, <2>1, NamesKept DEF OneMoves
  <1>4. CASE BeginUpload(w)
    <2>1. PathOf(w) \in 1..MaxObjects /\ OwnerAfter(w) \in Users \cup {NoOwner}
      BY <1>0, <1>4, ChosenType, Constants DEF BeginUpload
    <2>2. Enter(w, "put", PathOf(w), OwnerAfter(w), rows[handler[w].name] = NoRow)
      BY <1>4 DEF BeginUpload
    <2>3. "put" \in Locked /\ (rows[handler[w].name] = NoRow) \in BOOLEAN
      BY DEF Locked
    <2>4. OneMoves(w)
      BY <1>3, <2>1, <2>2, <2>3, Zenon
    <2> QED
      BY <1>0, <2>4
  <1>5. CASE BeginRemove(w)
    <2>1. rows[handler[w].name] # NoRow => rows[handler[w].name].path \in 1..MaxObjects
      BY <1>0, Constants DEF TypeOK, Row
    <2>2. Finish(w) \/ /\ rows[handler[w].name] # NoRow
                       /\ Enter(w, "erase", rows[handler[w].name].path, NoOwner, FALSE)
      BY <1>5, Zenon DEF BeginRemove
    <2>3. "erase" \in Locked /\ FALSE \in BOOLEAN /\ NoOwner \in Users \cup {NoOwner}
      BY DEF Locked
    <2>4. OneMoves(w)
      BY <1>1, <1>3, <2>1, <2>2, <2>3, Zenon
    <2> QED
      BY <1>0, <2>4
  <1>6. CASE RefuseWrite(w) \/ Cleanup(w) \/ CommitRemove(w) \/ Crash(w)
    <2> QED
      BY <1>0, <1>1, <1>6 DEF RefuseWrite, Cleanup, CommitRemove, Crash
  <1>7. CASE PutBytes(w) \/ CommitUpload(w) \/ EraseBytes(w)
    <2>1. Finish(w) \/ Goto(w, "insert") \/ Goto(w, "commit") \/ Goto(w, "cleanup")
      BY <1>7, FailedFrames DEF PutBytes, CommitUpload, EraseBytes
    <2>2. handler[w].path # 0
      BY <1>7 DEF PutBytes, CommitUpload, EraseBytes, TypeOK, Locked
    <2> QED
      BY <1>0, <1>1, <1>2, <2>1, <2>2 DEF Locked
  <1> QED
    BY <1>0, <1>4, <1>5, <1>6, <1>7 DEF Continue

LEMMA WorkerType ==
  ASSUME TypeOK, NEW w \in Workers, Continue(w) \/ Crash(w)
  PROVE  TypeOK'
  <1>0. /\ handler' \in [Workers -> Frame]
        /\ \A v \in Workers : /\ handler'[v].pc # "idle" => handler'[v].name \in Names
                              /\ handler'[v].pc \in Locked \cup {"cleanup"} => handler'[v].path # 0
        /\ handler[w].pc # "idle" /\ handler[w].name \in Names /\ handler[w] \in Frame
    BY WorkerFrames DEF TypeOK, OneMoves
  <1>a. /\ handler[w].path \in 0..MaxObjects /\ Written(w) \in Parties \cup {NoOwner}
        /\ handler[w].path # 0 => handler[w].path \in Paths
        /\ handler[w].pc \in Locked \cup {"cleanup"} => handler[w].path # 0
    <2>1. handler[w].path \in 0..MaxObjects /\ handler[w].user \in Users \cup {NoOwner}
      BY <1>0 DEF Frame
    <2>2. handler[w].pc \in Locked \cup {"cleanup"} => handler[w].path # 0
      BY DEF TypeOK
    <2> QED
      BY <2>1, <2>2, Constants DEF Written, Parties, Paths
  <1>1. CASE BeginUpload(w)
    <2>1. objects' \in 0..MaxObjects
      BY <1>1, Constants DEF BeginUpload, TypeOK
    <2> QED
      BY <1>0, <1>1, <2>1 DEF BeginUpload, TypeOK
  <1>2. CASE RefuseWrite(w) \/ BeginRemove(w)
    BY <1>0, <1>2 DEF RefuseWrite, BeginRemove, TypeOK
  <1>3. CASE Crash(w)
    BY <1>0, <1>a, <1>3, SpendType DEF Crash, TypeOK
  <1>4. CASE PutBytes(w)
    <2>1. bytes' \in [Paths -> Parties \cup {NoOwner}]
      BY <1>a, <1>4 DEF PutBytes, TypeOK
    <2>2. spent' \in [writes : 0..MaxWrites, admin : 0..MaxAdmin, faults : 0..MaxFaults]
      BY <1>4, SpendType DEF PutBytes, TypeOK
    <2>3. reassigned' \subseteq Paths
      BY <1>a, <1>4 DEF PutBytes, TypeOK, Locked
    <2> QED
      BY <1>0, <1>4, <2>1, <2>2, <2>3 DEF PutBytes, TypeOK
  <1>5. CASE CommitUpload(w)
    <2> DEFINE row == [bucket |-> handler[w].bucket, path |-> handler[w].path,
                       owner |-> handler[w].owner]
    <2>1. row \in Row /\ row # NoRow /\ row.path # 0 /\ handler[w].path \in Paths
      BY <1>0, <1>a, <1>5 DEF CommitUpload, Row, NoRow, Frame, Locked
    <2>2. rows' \in {rows, [rows EXCEPT ![handler[w].name] = row]}
      BY <1>5 DEF CommitUpload
    <2>3. rows' \in [Names -> Row] /\ \A n \in Names : (rows'[n].path = 0) <=> (rows'[n] = NoRow)
      <3> HIDE DEF row
      <3> QED
        BY <1>0, <2>1, <2>2 DEF TypeOK
    <2>4. spent' \in [writes : 0..MaxWrites, admin : 0..MaxAdmin, faults : 0..MaxFaults]
      BY <1>5, SpendType DEF CommitUpload, TypeOK
    <2>5. interrupted' \subseteq Paths
      BY <1>5, <2>1 DEF CommitUpload, TypeOK
    <2> QED
      BY <1>0, <1>5, <2>3, <2>4, <2>5 DEF CommitUpload, TypeOK
  <1>6. CASE Cleanup(w)
    BY <1>0, <1>a, <1>6 DEF Cleanup, TypeOK
  <1>7. CASE EraseBytes(w)
    <2>1. spent' \in [writes : 0..MaxWrites, admin : 0..MaxAdmin, faults : 0..MaxFaults]
      BY <1>7, SpendType DEF EraseBytes, TypeOK
    <2> QED
      BY <1>0, <1>a, <1>7, <2>1 DEF EraseBytes, TypeOK, Locked
  <1>8. CASE CommitRemove(w)
    <2>1. rows' \in [Names -> Row] /\ \A n \in Names : (rows'[n].path = 0) <=> (rows'[n] = NoRow)
      <3>1. rows' \in {rows, [rows EXCEPT ![handler[w].name] = NoRow]} /\ NoRow.path = 0
        BY <1>8 DEF CommitRemove, NoRow
      <3> QED
        BY <1>0, <3>1, Defaults DEF TypeOK
    <2>2. spent' \in [writes : 0..MaxWrites, admin : 0..MaxAdmin, faults : 0..MaxFaults]
      BY <1>8, SpendType DEF CommitRemove, TypeOK
    <2> QED
      BY <1>0, <1>a, <1>8, <2>1, <2>2 DEF CommitRemove, TypeOK, Locked
  <1> QED
    BY <1>1, <1>2, <1>3, <1>4, <1>5, <1>6, <1>7, <1>8 DEF Continue

LEMMA NextType == TypeOK /\ [Next]_vars => TypeOK'
  <1> SUFFICES ASSUME TypeOK, [Next]_vars PROVE TypeOK'
    OBVIOUS
  <1>1. CASE UNCHANGED vars
    BY <1>1 DEF TypeOK, vars
  <1>2. ASSUME NEW w \in Workers, NEW u \in Users \cup {NoOwner}, NEW n \in Names,
               \/ UploadObject(w, u, n) \/ UploadWithTicket(w, u, n) \/ FunctionUploads(w, u, n)
               \/ DeleteObject(w, u, n) \/ RemoveWithTicket(w, u, n) \/ FunctionRemoves(w, u, n)
        PROVE  TypeOK'
    BY <1>2, EndpointsAdmit, AdmitType
  <1>3. ASSUME NEW w \in Workers, Continue(w) \/ Crash(w) PROVE TypeOK'
    BY <1>3, WorkerType
  <1>4. ASSUME NEW u \in Users, Erase(u) PROVE TypeOK'
    BY <1>4, OutsideType, AdmitType DEF Erase
  <1> QED
    BY <1>1, <1>2, <1>3, <1>4, OutsideType DEF Next

-----------------------------------------------------------------------------
(* The inductive invariant.                                                *)

Writing == {"put", "insert"}
Removing == {"erase", "commit"}

\* What a handler was asked for does not change on the way.
RequestInv(w) ==
  LET h == handler[w] IN
  /\ h.pc \in {"idle", "body"} => h.path = 0
  /\ h.pc # "idle" => /\ h.bucket # 0 /\ h.kind # "none"
                      /\ h.kind # "platform" => h.user \in Users
  /\ h.pc \in Writing \cup {"cleanup"} => h.op = "write"
  /\ h.kind = "executor" => h.op = "delete"
  /\ h.pc = "cleanup" => h.fresh

\* A path made for a new object is nobody else's; the others are those of the
\* row the handler has locked, which stays where it is.
PathInv(w) ==
  LET h == handler[w] IN
  /\ h.pc \in Writing \cup {"cleanup"} /\ h.fresh =>
       /\ h.path \in 1..objects
       /\ \A n \in Names : rows[n].path # h.path
       /\ \A g \in grants : g.path # h.path
  /\ h.pc \in Writing /\ h.fresh => rows[h.name] = NoRow
  /\ (h.pc \in Writing /\ ~h.fresh) \/ h.pc \in Removing =>
       rows[h.name] # NoRow /\ h.path = rows[h.name].path

\* A transaction works in the bucket it shares; a direct one was allowed by the
\* preset and the row that are still there.
AccessInv(w) ==
  LET h == handler[w] IN
  /\ h.pc \in Locked => h.bucket = bucket.id
  /\ h.pc \in Locked /\ h.kind = "direct" =>
       /\ bucket.preset # "admin_only"
       /\ rows[h.name] = NoRow \/ rows[h.name].owner = h.user
  /\ h.pc \in Writing =>
       h.owner = IF h.kind = "platform" THEN rows[h.name].owner ELSE h.user

\* What is left to commit agrees with what the provider has.
BytesInv(w) ==
  LET h == handler[w] IN
  /\ h.pc = "insert" => bytes[h.path] = Written(w)
  /\ h.pc = "insert" /\ h.kind = "trusted" /\ ~h.fresh /\ rows[h.name].owner # h.user =>
       h.path \in reassigned
  /\ h.pc = "commit" => bytes[h.path] = NoOwner

WorkerInv(w) == RequestInv(w) /\ PathInv(w) /\ AccessInv(w) /\ BytesInv(w)

\* No two handlers work on one path or in one name.
HandlersApart ==
  \A v, w \in Workers : v # w =>
    /\ handler[v].path # 0 => handler[v].path # handler[w].path
    /\ handler[v].pc \in Locked /\ handler[w].pc \in Locked => handler[v].name # handler[w].name

\* A row is in the bucket there is, has a path of its own and bytes of its own.
RowInv(n) ==
  rows[n] # NoRow =>
    /\ rows[n].bucket = bucket.id /\ bucket.id # 0 /\ rows[n].path \in 1..objects
    /\ \A m \in Names : rows[m].path = rows[n].path => m = n
    /\ bytes[rows[n].path] \in {rows[n].owner, Platform, NoOwner} \/ rows[n].path \in reassigned
    /\ \A g \in grants : g.path = rows[n].path => g.user = rows[n].owner \/ g.path \in reassigned

\* A read was allowed of an object there has been.
GrantsOfObjects == \A g \in grants : g.path \in 1..objects

ObjectsInv ==
  /\ TypeOK
  /\ \A w \in Workers : WorkerInv(w)
  /\ HandlersApart
  /\ \A n \in Names : RowInv(n)
  /\ GrantsOfObjects
  /\ NoOrphanedBytes /\ RowsHaveBytes /\ ReadsStayWithObject

LEMMA InitObjects == Init => ObjectsInv
  <1> SUFFICES ASSUME Init PROVE ObjectsInv
    OBVIOUS
  <1>1. TypeOK
    BY InitType
  <1>2. \A w \in Workers : handler[w] = Idle
    BY DEF Init
  <1>3. ASSUME NEW w \in Workers PROVE WorkerInv(w)
    <2>1. handler[w].pc = "idle" /\ handler[w].path = 0 /\ handler[w].kind = "none"
      BY <1>2 DEF Idle
    <2> QED
      BY <2>1 DEF WorkerInv, RequestInv, PathInv, AccessInv, BytesInv, Writing, Removing, Locked
  <1>4. HandlersApart
    BY <1>2 DEF HandlersApart, Idle, Locked
  <1>5. \A n \in Names : rows[n] = NoRow
    BY DEF Init
  <1>6. NoOrphanedBytes /\ RowsHaveBytes /\ ReadsStayWithObject /\ GrantsOfObjects
    BY <1>5 DEF Init, NoOrphanedBytes, RowsHaveBytes, ReadsStayWithObject, GrantsOfObjects
  <1> QED
    BY <1>1, <1>3, <1>4, <1>5, <1>6 DEF ObjectsInv, RowInv

\* A handler that stands still keeps its part of the invariant when the others
\* stay off its bucket, its row, its path and its bytes.
LEMMA StandsStill ==
  ASSUME ObjectsInv, NEW v \in Workers, handler'[v] = handler[v],
         handler[v].pc \in Locked => UNCHANGED bucket,
         objects \in Nat, objects' \in Nat, objects <= objects',
         handler[v].pc \in Locked => rows'[handler[v].name] = rows[handler[v].name],
         handler[v].path # 0 => /\ bytes'[handler[v].path] = bytes[handler[v].path]
                                /\ \A n \in Names : rows'[n].path = handler[v].path =>
                                     rows[n].path = handler[v].path,
         \A g \in grants' : g \in grants \/ \E n \in Names : rows[n].path = g.path,
         reassigned \subseteq reassigned'
  PROVE  WorkerInv(v)'
  <1>1. WorkerInv(v)
    BY DEF ObjectsInv
  <1>2. /\ handler[v].pc \in Locked \cup {"cleanup"} => handler[v].path # 0
    BY DEF ObjectsInv, TypeOK
  <1>3. RequestInv(v)'
    BY <1>1 DEF WorkerInv, RequestInv
  <1>4. PathInv(v)'
    BY <1>1, <1>2 DEF WorkerInv, PathInv, Locked, Writing, Removing
  <1>5. AccessInv(v)'
    BY <1>1 DEF WorkerInv, AccessInv, Locked, Writing
  <1>6. BytesInv(v)'
    BY <1>1, <1>2 DEF WorkerInv, BytesInv, Locked, Written
  <1> QED
    BY <1>3, <1>4, <1>5, <1>6 DEF WorkerInv

-----------------------------------------------------------------------------
(* Steps that are not a handler's.                                         *)

\* Only the bucket changes, and no transaction shares it.
LEMMA BucketStep ==
  ASSUME ObjectsInv, TypeOK', UNCHANGED <<rows, objects, bytes, handler, grants, interrupted, reassigned>>,
         \A w \in Workers : handler[w].pc \notin Locked,
         bucket'.id = bucket.id \/ \A n \in Names : rows[n] = NoRow
  PROVE  ObjectsInv'
  <1>0. TypeOK
    BY DEF ObjectsInv
  <1>1. ASSUME NEW w \in Workers PROVE WorkerInv(w)'
    <2>1. objects \in Nat
      BY <1>0, Constants DEF TypeOK
    <2> QED
      BY <2>1, StandsStill
  <1>2. HandlersApart'
    BY DEF ObjectsInv, HandlersApart
  <1>3. ASSUME NEW n \in Names PROVE RowInv(n)'
    BY DEF ObjectsInv, RowInv
  <1>4. NoOrphanedBytes'
    <2>1. \A n \in Names : rows[n].path # 0 => rows[n] # NoRow
      BY <1>0 DEF TypeOK
    <2>2. \A p \in Paths : p # 0
      BY Constants DEF Paths
    <2> QED
      BY <2>1, <2>2 DEF ObjectsInv, NoOrphanedBytes
  <1>5. RowsHaveBytes' /\ ReadsStayWithObject' /\ GrantsOfObjects'
    BY DEF ObjectsInv, RowsHaveBytes, ReadsStayWithObject, GrantsOfObjects, Fetched
  <1> QED
    BY <1>1, <1>2, <1>3, <1>4, <1>5 DEF ObjectsInv

LEMMA AdminKeeps ==
  ASSUME ObjectsInv, TypeOK',
         DeleteBucket \/ \E p \in Presets : UpdateBucket(p) \/ CreateBucket(p)
  PROVE  ObjectsInv'
  <1>0. bucket \in [id : 0..MaxBuckets, preset : Presets]
    BY DEF ObjectsInv, TypeOK
  <1>1. ASSUME NEW p \in Presets, UpdateBucket(p) PROVE ObjectsInv'
    <2>1. bucket'.id = bucket.id
      BY <1>0, <1>1 DEF UpdateBucket
    <2> QED
      BY <1>1, <2>1, BucketStep DEF UpdateBucket, BucketIsShared, SharesBucket
  <1>2. CASE DeleteBucket
    <2>1. \A n \in Names : rows[n] = NoRow
      BY <1>2 DEF DeleteBucket, ObjectsInv, RowInv
    <2> QED
      BY <1>2, <2>1, BucketStep DEF DeleteBucket, BucketIsShared, SharesBucket
  <1>3. ASSUME NEW p \in Presets, CreateBucket(p) PROVE ObjectsInv'
    <2>1. \A n \in Names : rows[n] = NoRow
      BY <1>3 DEF CreateBucket, ObjectsInv, RowInv
    <2>2. \A w \in Workers : handler[w].pc \notin Locked
      BY <1>3 DEF CreateBucket, ObjectsInv, WorkerInv, RequestInv, AccessInv, Locked
    <2> QED
      BY <1>3, <2>1, <2>2, BucketStep DEF CreateBucket
  <1> QED
    BY <1>1, <1>2, <1>3

\* Account deletion changes neither rows nor bytes, and stuttering nothing.
LEMMA DeletionKeeps ==
  ASSUME ObjectsInv, TypeOK',
         UNCHANGED <<bucket, rows, objects, bytes, handler, grants, interrupted, reassigned>>
  PROVE  ObjectsInv'
  <1>1. objects \in Nat
    BY Constants DEF ObjectsInv, TypeOK
  <1>2. \A w \in Workers : WorkerInv(w)'
    BY <1>1, StandsStill
  <1>3. \A n \in Names : RowInv(n)'
    BY DEF ObjectsInv, RowInv
  <1>4. HandlersApart' /\ GrantsOfObjects'
    BY DEF ObjectsInv, HandlersApart, GrantsOfObjects
  <1>5. NoOrphanedBytes' /\ RowsHaveBytes' /\ ReadsStayWithObject'
    BY DEF ObjectsInv, NoOrphanedBytes, RowsHaveBytes, ReadsStayWithObject, Fetched
  <1> QED
    BY <1>2, <1>3, <1>4, <1>5 DEF ObjectsInv

\* A read is allowed to the owner of a row, whose bytes are his.
LEMMA ReadKeeps ==
  ASSUME ObjectsInv, TypeOK', NEW u \in Users, NEW n \in Names, AllowRead(u, n)
  PROVE  ObjectsInv'
  <1> DEFINE g == [user |-> u, name |-> n, path |-> rows[n].path]
  <1>0. TypeOK /\ objects \in Nat
    BY Constants DEF ObjectsInv, TypeOK
  <1>1. /\ rows[n] # NoRow /\ rows[n].owner = u /\ grants' = grants \cup {g}
        /\ UNCHANGED <<bucket, rows, objects, bytes, handler, interrupted, reassigned>>
    BY DEF AllowRead, Decides
  <1>2. RowInv(n) /\ g.path = rows[n].path /\ g.user = u
    BY DEF ObjectsInv
  <1> HIDE DEF g
  <1>3. \A w \in Workers : WorkerInv(w)'
    BY <1>0, <1>1, <1>2, StandsStill
  <1>4. ASSUME NEW m \in Names PROVE RowInv(m)'
    <2>1. RowInv(m)
      BY DEF ObjectsInv
    <2>2. rows[m] # NoRow => rows[m].path # 0
      BY <1>0 DEF TypeOK
    <2> QED
      BY <1>1, <1>2, <2>1, <2>2 DEF RowInv
  <1>5. HandlersApart' /\ GrantsOfObjects'
    BY <1>1, <1>2 DEF ObjectsInv, HandlersApart, GrantsOfObjects, RowInv
  <1>6. NoOrphanedBytes' /\ RowsHaveBytes'
    BY <1>1 DEF ObjectsInv, NoOrphanedBytes, RowsHaveBytes
  <1>7. ReadsStayWithObject'
    BY <1>1, <1>2 DEF ObjectsInv, ReadsStayWithObject, Fetched, RowInv
  <1> QED
    BY <1>3, <1>4, <1>5, <1>6, <1>7 DEF ObjectsInv

\* A request that is admitted holds nothing yet.
LEMMA AdmitKeeps ==
  ASSUME ObjectsInv, TypeOK', NEW w \in Workers, NEW u \in Users \cup {NoOwner}, NEW n \in Names,
         NEW op \in {"write", "delete"}, NEW kind \in {"direct", "trusted", "platform", "executor"},
         NEW b \in 0..MaxBuckets, NEW preset \in Presets \cup {"none"},
         handler' = [handler EXCEPT ![w] = Request(op, kind, u, n, b, preset)],
         handler[w].pc = "idle", b # 0, kind # "platform" => u \in Users,
         kind = "executor" => op = "delete",
         UNCHANGED <<bucket, rows, objects, bytes, grants, interrupted, reassigned>>
  PROVE  ObjectsInv'
  <1>0. TypeOK /\ objects \in Nat
    BY Constants DEF ObjectsInv, TypeOK
  <1>1. /\ handler'[w] = Request(op, kind, u, n, b, preset)
        /\ \A v \in Workers \ {w} : handler'[v] = handler[v]
    BY <1>0, AdmitFrames
  <1>2. /\ handler'[w].pc = "body" /\ handler'[w].path = 0 /\ handler'[w].bucket = b
        /\ handler'[w].kind = kind /\ handler'[w].user = u /\ handler'[w].op = op
    BY <1>1 DEF Request
  <1>3. handler[w].path = 0
    BY DEF ObjectsInv, WorkerInv, RequestInv
  <1>4. ASSUME NEW v \in Workers PROVE WorkerInv(v)'
    <2>1. CASE v = w
      BY <1>2, <2>1 DEF WorkerInv, RequestInv, PathInv, AccessInv, BytesInv, Locked, Writing, Removing
    <2>2. CASE v # w
      BY <1>0, <1>1, <2>2, StandsStill
    <2> QED
      BY <2>1, <2>2
  <1>5. \A m \in Names : RowInv(m)'
    BY DEF ObjectsInv, RowInv
  <1>6. HandlersApart'
    BY <1>1, <1>2 DEF ObjectsInv, HandlersApart, Locked
  <1>7. NoOrphanedBytes'
    <2>1. \A p \in Paths : p # 0
      BY Constants DEF Paths
    <2> QED
      BY <1>1, <1>3, <2>1 DEF ObjectsInv, NoOrphanedBytes
  <1>8. RowsHaveBytes'
    BY <1>1 DEF ObjectsInv, RowsHaveBytes
  <1>9. ReadsStayWithObject' /\ GrantsOfObjects'
    BY DEF ObjectsInv, ReadsStayWithObject, GrantsOfObjects, Fetched
  <1> QED
    BY <1>4, <1>5, <1>6, <1>7, <1>8, <1>9 DEF ObjectsInv

-----------------------------------------------------------------------------
(* The steps of a handler.                                                 *)

\* A handler changes rows and bytes only where it holds the locks.
StaysInside(w) ==
  /\ OneMoves(w)
  /\ UNCHANGED <<bucket, grants>> /\ reassigned \subseteq reassigned'
  /\ objects' \in {objects, objects + 1}
  /\ \A n \in Names : \/ rows'[n] = rows[n]
                      \/ /\ n = handler[w].name /\ handler[w].pc \in Locked
                         /\ rows'[n].path \in {0, handler[w].path}
  /\ \A p \in Paths : p # handler[w].path => bytes'[p] = bytes[p]

LEMMA OthersStandStill ==
  ASSUME ObjectsInv, NEW w \in Workers, StaysInside(w)
  PROVE  \A v \in Workers \ {w} : WorkerInv(v)'
  <1> SUFFICES ASSUME NEW v \in Workers \ {w} PROVE WorkerInv(v)'
    OBVIOUS
  <1>1. objects \in Nat /\ objects' \in Nat /\ objects <= objects'
    BY Constants DEF ObjectsInv, TypeOK, StaysInside
  <1>2. handler'[v] = handler[v]
    BY DEF StaysInside, OneMoves
  <1>3. handler[v].pc \in Locked => rows'[handler[v].name] = rows[handler[v].name]
    <2>1. handler[v].pc \in Locked => handler[v].name \in Names
      BY DEF ObjectsInv, TypeOK, Locked
    <2> QED
      BY <2>1 DEF ObjectsInv, HandlersApart, StaysInside
  <1>4. ASSUME handler[v].path # 0
        PROVE  /\ bytes'[handler[v].path] = bytes[handler[v].path]
               /\ \A n \in Names : rows'[n].path = handler[v].path => rows[n].path = handler[v].path
    <2>1. handler[v].path \in Paths
      BY <1>4, Constants DEF ObjectsInv, TypeOK, Frame, Paths
    <2>2. handler[v].path # handler[w].path
      BY <1>4 DEF ObjectsInv, HandlersApart
    <2> QED
      BY <1>4, <2>1, <2>2 DEF StaysInside
  <1> QED
    BY <1>1, <1>2, <1>3, <1>4, StandsStill DEF StaysInside

\* A handler that takes no new path and no new lock stays apart from the others.
LEMMA ApartKept ==
  ASSUME ObjectsInv, NEW w \in Workers, OneMoves(w),
         handler'[w].path \in {0, handler[w].path},
         handler'[w].pc \in Locked => handler[w].pc \in Locked /\ handler'[w].name = handler[w].name
  PROVE  HandlersApart'
  BY DEF ObjectsInv, HandlersApart, OneMoves

\* A handler that has ended claims nothing.
LEMMA IdleInv ==
  ASSUME NEW w \in Workers, handler'[w] = Idle
  PROVE  WorkerInv(w)' /\ handler'[w].path = 0 /\ handler'[w].pc \notin Locked
  <1>1. handler'[w].pc = "idle" /\ handler'[w].path = 0 /\ handler'[w].kind = "none"
    BY DEF Idle
  <1> QED
    BY <1>1 DEF WorkerInv, RequestInv, PathInv, AccessInv, BytesInv, Locked, Writing, Removing

\* What follows for rows and grants when no row changes.
LEMMA RowsStay ==
  ASSUME ObjectsInv, NEW w \in Workers, StaysInside(w), UNCHANGED rows,
         \A n \in Names : rows[n] # NoRow /\ rows[n].path = handler[w].path =>
           \/ bytes'[handler[w].path] \in {rows[n].owner, Platform, NoOwner}
           \/ handler[w].path \in reassigned'
  PROVE  (\A n \in Names : RowInv(n)') /\ GrantsOfObjects'
  <1>1. objects \in Nat /\ objects' \in Nat /\ objects <= objects'
    BY Constants DEF ObjectsInv, TypeOK, StaysInside
  <1>2. ASSUME NEW n \in Names PROVE RowInv(n)'
    <2>1. RowInv(n)
      BY DEF ObjectsInv
    <2>2. rows[n] # NoRow => rows[n].path \in Paths
      BY Constants DEF ObjectsInv, TypeOK, Row, Paths
    <2>3. ASSUME rows[n] # NoRow
          PROVE  bytes'[rows[n].path] \in {rows[n].owner, Platform, NoOwner}
                 \/ rows[n].path \in reassigned'
      BY <2>1, <2>2, <2>3 DEF RowInv, StaysInside
    <2>4. rows[n] # NoRow => rows[n].path \in 1..objects'
      BY <1>1, <2>1 DEF RowInv
    <2> QED
      BY <2>1, <2>3, <2>4 DEF RowInv, StaysInside
  <1>3. GrantsOfObjects'
    BY <1>1 DEF ObjectsInv, GrantsOfObjects, StaysInside
  <1> QED
    BY <1>2, <1>3

\* A handler in a transaction or in its cleanup has a path of its own.
LEMMA PathKnown ==
  ASSUME ObjectsInv, NEW w \in Workers, handler[w].pc \in Locked \cup {"cleanup"}
  PROVE  /\ handler[w].path \in Paths /\ handler[w].path # 0 /\ handler[w].name \in Names
         /\ \A v \in Workers : v # w => handler[v].path # handler[w].path
  <1>1. handler[w] \in Frame /\ handler[w].path # 0 /\ handler[w].name \in Names
    BY DEF ObjectsInv, TypeOK, Locked
  <1>2. handler[w].path \in Paths
    BY <1>1, Constants DEF Frame, Paths
  <1> QED
    BY <1>1, <1>2 DEF ObjectsInv, HandlersApart

\* The row a transaction works on is the only one with its path.
LEMMA LockedRow ==
  ASSUME ObjectsInv, NEW w \in Workers, handler[w].pc \in Locked, NEW n \in Names,
         rows[n].path = handler[w].path
  PROVE  n = handler[w].name /\ (handler[w].pc \in Writing => ~handler[w].fresh)
         /\ rows[n] # NoRow
  <1>1. WorkerInv(w) /\ handler[w].name \in Names /\ RowInv(handler[w].name)
    BY PathKnown DEF ObjectsInv
  <1>2. handler[w].pc \in Writing => ~handler[w].fresh
    BY <1>1 DEF WorkerInv, PathInv
  <1>3. rows[handler[w].name] # NoRow /\ handler[w].path = rows[handler[w].name].path
    BY <1>1, <1>2 DEF WorkerInv, PathInv, Locked, Writing, Removing
  <1> QED
    BY <1>1, <1>2, <1>3 DEF RowInv

\* No other handler works on the path of a row whose name is free.
LEMMA PathIsFree ==
  ASSUME ObjectsInv, NEW w \in Workers, NEW n \in Names, NameIsFree(w, n), rows[n] # NoRow,
         NEW v \in Workers, v # w
  PROVE  handler[v].path # rows[n].path /\ (handler[v].pc \in Locked => handler[v].name # n)
  <1>1. TypeOK /\ RowInv(n) /\ rows[n].path # 0 /\ WorkerInv(v) /\ handler[v] \in Frame
    BY DEF ObjectsInv, TypeOK
  <1>2. handler[v].pc \in Locked => handler[v].name # n
    BY DEF NameIsFree, HoldsName
  <1>3. ASSUME handler[v].path = rows[n].path PROVE FALSE
    <2>1. handler[v].pc \in Locked \/ handler[v].pc = "cleanup"
      BY <1>1, <1>3 DEF WorkerInv, RequestInv, Frame
    <2>2. ~(handler[v].pc \in Writing \cup {"cleanup"} /\ handler[v].fresh)
      BY <1>1, <1>3 DEF WorkerInv, PathInv
    <2>3. handler[v].pc \in Locked
      BY <1>1, <2>1, <2>2 DEF WorkerInv, RequestInv
    <2> QED
      BY <1>2, <1>3, <2>3, LockedRow
  <1> QED
    BY <1>2, <1>3

\* uploadObject takes its locks and chooses its path.
LEMMA BeginUploadKeeps ==
  ASSUME ObjectsInv, TypeOK', NEW w \in Workers, BeginUpload(w)
  PROVE  ObjectsInv'
  <1> DEFINE h == handler[w]
             n == h.name
             isnew == rows[n] = NoRow
  <1>0. /\ TypeOK /\ objects \in Nat /\ n \in Names /\ h.pc = "body" /\ h.op = "write"
        /\ WorkerInv(w) /\ RowInv(n) /\ h.path = 0
    <2>1. TypeOK /\ objects \in Nat /\ h.pc = "body" /\ h.op = "write"
      BY Constants DEF ObjectsInv, TypeOK, BeginUpload
    <2>2. n \in Names
      BY <2>1 DEF TypeOK
    <2> QED
      BY <2>1, <2>2 DEF ObjectsInv, WorkerInv, RequestInv
  <1>1. /\ UNCHANGED <<bucket, rows, bytes, grants, interrupted, reassigned>>
        /\ objects' = IF isnew THEN objects + 1 ELSE objects
        /\ bucket.id = h.bucket /\ NameIsFree(w, n) /\ Permitted(w)
    BY DEF BeginUpload
  <1>2. PathOf(w) \in 1..MaxObjects /\ OwnerAfter(w) \in Users \cup {NoOwner}
    BY <1>0, ChosenType DEF BeginUpload
  <1>3. /\ SameRequest(w) /\ handler'[w].pc = "put" /\ handler'[w].path = PathOf(w)
        /\ handler'[w].owner = OwnerAfter(w) /\ handler'[w].fresh = isnew
    <2>1. PathOf(w) \in 0..MaxObjects /\ "put" \in Locked /\ isnew \in BOOLEAN
      BY <1>2, Constants DEF Locked
    <2>2. Enter(w, "put", PathOf(w), OwnerAfter(w), isnew)
      BY DEF BeginUpload
    <2> QED
      BY <1>0, <1>2, <2>1, <2>2, EnterFrames, ZenonT(40)
  <1>4. OneMoves(w)
    BY <1>0, WorkerFrames DEF Continue
  <1>5. StaysInside(w)
    BY <1>1, <1>4 DEF StaysInside
  <1>6. \A v \in Workers : handler[v].path \in 0..objects
    BY <1>0, Constants DEF ObjectsInv, TypeOK, Frame, WorkerInv, RequestInv, PathInv, RowInv,
       Locked, Writing, Removing
  <1>7. PathOf(w) = (IF isnew THEN objects + 1 ELSE rows[n].path) /\ PathOf(w) # 0
    BY <1>2 DEF PathOf
  <1>8. ASSUME NEW v \in Workers, v # w PROVE handler[v].path # PathOf(w)
    <2>1. CASE isnew
      BY <1>0, <1>6, <1>7, <2>1
    <2>2. CASE ~isnew
      <3>1. PathOf(w) = rows[n].path
        BY <1>7, <2>2
      <3> QED
        BY <1>0, <1>1, <1>8, <2>2, <3>1, PathIsFree
    <2> QED
      BY <2>1, <2>2
  <1>9. HandlersApart'
    <2>1. ASSUME NEW v \in Workers, v # w
          PROVE  /\ handler'[v] = handler[v] /\ handler[v].path # handler'[w].path
                 /\ handler[v].pc \in Locked => handler[v].name # handler'[w].name
      BY <1>1, <1>3, <1>4, <1>8, <2>1 DEF OneMoves, NameIsFree, HoldsName, SameRequest
    <2> QED
      BY <2>1 DEF ObjectsInv, HandlersApart
  <1>10. WorkerInv(w)'
    <2>1. RequestInv(w)'
      BY <1>0, <1>3 DEF WorkerInv, RequestInv, SameRequest, Writing
    <2>2. PathInv(w)'
      <3>1. CASE isnew
        <4>1. PathOf(w) = objects + 1 /\ objects' = objects + 1
          BY <1>1, <1>7, <3>1
        <4>2. \A m \in Names : rows[m].path # objects + 1
          BY <1>0 DEF ObjectsInv, RowInv, TypeOK
        <4>3. \A g \in grants : g.path # objects + 1
          BY <1>0 DEF ObjectsInv, GrantsOfObjects
        <4>f. handler'[w].fresh
          BY <1>3, <3>1, Zenon
        <4>r. handler'[w].name = n /\ rows'[n] = NoRow
          BY <1>1, <1>3, <3>1, Zenon DEF SameRequest
        <4>p. handler'[w].path = objects + 1 /\ objects + 1 \in 1..objects'
          BY <1>0, <1>3, <4>1
        <4>5. UNCHANGED <<rows, grants>> /\ handler'[w].pc = "put"
          BY <1>1, <1>3
        <4> HIDE DEF n, isnew, h
        <4> QED
          BY <4>2, <4>3, <4>f, <4>r, <4>p, <4>5 DEF PathInv, Writing, Removing
      <3>2. CASE ~isnew
        BY <1>1, <1>3, <1>7, <3>2 DEF PathInv, SameRequest, Writing, Removing
      <3> QED
        BY <3>1, <3>2
    <2>3. AccessInv(w)'
      BY <1>0, <1>1, <1>3 DEF AccessInv, SameRequest, Permitted, DecidedBy, Decides, OwnerAfter
    <2>4. BytesInv(w)'
      BY <1>3 DEF BytesInv
    <2> QED
      BY <2>1, <2>2, <2>3, <2>4 DEF WorkerInv
  <1>11. (\A m \in Names : RowInv(m)') /\ GrantsOfObjects'
    <2>1. \A m \in Names : rows[m] # NoRow => rows[m].path # handler[w].path
      BY <1>0 DEF TypeOK
    <2> QED
      BY <1>1, <1>5, <2>1, RowsStay
  <1>12. NoOrphanedBytes' /\ RowsHaveBytes' /\ ReadsStayWithObject'
    <2>1. \A p \in Paths : p # 0
      BY Constants DEF Paths
    <2>2. NoOrphanedBytes'
      BY <1>0, <1>1, <1>4, <2>1 DEF ObjectsInv, NoOrphanedBytes, OneMoves
    <2>3. RowsHaveBytes'
      BY <1>0, <1>1, <1>4 DEF ObjectsInv, RowsHaveBytes, OneMoves
    <2>4. ReadsStayWithObject'
      BY <1>1 DEF ObjectsInv, ReadsStayWithObject, Fetched
    <2> QED
      BY <2>2, <2>3, <2>4
  <1> QED
    BY <1>5, <1>9, <1>10, <1>11, <1>12, OthersStandStill DEF ObjectsInv

\* A handler that ends without having changed a row: the path it leaves has a row,
\* no bytes, or is remembered as interrupted; erased bytes are remembered too.
LEMMA EndsKeeps ==
  ASSUME ObjectsInv, TypeOK', NEW w \in Workers, StaysInside(w), handler'[w] = Idle,
         UNCHANGED rows, interrupted \subseteq interrupted',
         \A n \in Names : rows[n] # NoRow /\ rows[n].path = handler[w].path =>
           \/ bytes'[handler[w].path] \in {rows[n].owner, Platform, NoOwner}
           \/ handler[w].path \in reassigned',
         \A g \in grants : g.path = handler[w].path =>
           \/ bytes'[handler[w].path] \in {g.user, Platform, NoOwner}
           \/ handler[w].path \in reassigned',
         handler[w].path \in Paths /\ bytes'[handler[w].path] # NoOwner =>
           \/ handler[w].path \in interrupted'
           \/ \E n \in Names : rows[n] # NoRow /\ rows[n].path = handler[w].path,
         \A n \in Names : rows[n] # NoRow /\ rows[n].path = handler[w].path =>
           \/ bytes'[handler[w].path] # NoOwner
           \/ handler[w].path \in interrupted'
  PROVE  ObjectsInv'
  <1>0. TypeOK
    BY DEF ObjectsInv
  <1>1. WorkerInv(w)' /\ handler'[w].path = 0 /\ handler'[w].pc \notin Locked
    BY IdleInv
  <1>2. \A v \in Workers : WorkerInv(v)'
    BY <1>1, OthersStandStill
  <1>3. HandlersApart'
    BY <1>1, ApartKept DEF StaysInside
  <1>4. (\A n \in Names : RowInv(n)') /\ GrantsOfObjects'
    BY RowsStay
  <1>5. \A v \in Workers \ {w} : handler'[v] = handler[v]
    BY DEF StaysInside, OneMoves
  <1>6. NoOrphanedBytes'
    <2> SUFFICES ASSUME NEW p \in Paths, bytes'[p] # NoOwner
                 PROVE  \/ \E n \in Names : rows'[n].path = p /\ rows'[n].bucket = bucket'.id
                        \/ \E v \in Workers : handler'[v].path = p
                        \/ p \in interrupted'
      BY DEF NoOrphanedBytes
    <2>1. CASE p = handler[w].path
      BY <2>1 DEF ObjectsInv, RowInv, StaysInside
    <2>2. CASE p # handler[w].path
      <3>1. bytes[p] # NoOwner
        BY <2>2 DEF StaysInside
      <3> QED
        BY <1>5, <2>2, <3>1 DEF ObjectsInv, NoOrphanedBytes, StaysInside
    <2> QED
      BY <2>1, <2>2
  <1>7. RowsHaveBytes'
    <2> SUFFICES ASSUME NEW n \in Names, rows[n] # NoRow
                 PROVE  \/ bytes'[rows[n].path] # NoOwner
                        \/ \E v \in Workers : handler'[v].pc = "commit" /\ handler'[v].path = rows[n].path
                        \/ rows[n].path \in interrupted'
      BY DEF RowsHaveBytes
    <2>0. rows[n].path \in Paths
      BY <1>0, Constants DEF TypeOK, Row, Paths
    <2>1. CASE rows[n].path # handler[w].path
      BY <1>5, <2>0, <2>1 DEF ObjectsInv, RowsHaveBytes, StaysInside
    <2> QED
      BY <2>1
  <1>8. ReadsStayWithObject'
    <2> SUFFICES ASSUME NEW g \in grants
                 PROVE  bytes'[g.path] \in {g.user, Platform, NoOwner} \/ g.path \in reassigned'
      BY DEF ReadsStayWithObject, Fetched, StaysInside
    <2>1. g.path \in Paths
      BY <1>0 DEF TypeOK
    <2> QED
      BY <2>1 DEF ObjectsInv, ReadsStayWithObject, Fetched, StaysInside
  <1> QED
    BY <1>2, <1>3, <1>4, <1>6, <1>7, <1>8 DEF ObjectsInv

\* A request that is refused had no lock and no path.
LEMMA RefuseKeeps ==
  ASSUME ObjectsInv, TypeOK', NEW w \in Workers,
         RefuseWrite(w) \/ (BeginRemove(w) /\ rows[handler[w].name] = NoRow)
  PROVE  ObjectsInv'
  <1>1. handler[w].path = 0
    BY DEF RefuseWrite, BeginRemove, ObjectsInv, WorkerInv, RequestInv
  <1>2. OneMoves(w)
    BY WorkerFrames DEF Continue, ObjectsInv
  <1>3. UNCHANGED <<bucket, rows, objects, bytes, grants, interrupted, reassigned>> /\ Finish(w)
    BY DEF RefuseWrite, BeginRemove
  <1>4. StaysInside(w)
    BY <1>2, <1>3 DEF StaysInside
  <1>5. handler'[w] = Idle
    BY <1>3, FinishFrames DEF ObjectsInv
  <1>6. /\ \A n \in Names : rows[n] # NoRow => rows[n].path # handler[w].path
        /\ \A g \in grants : g.path # handler[w].path
        /\ handler[w].path \notin Paths
    BY <1>1, Constants DEF ObjectsInv, TypeOK, Paths
  <1> QED
    BY <1>3, <1>4, <1>5, <1>6, EndsKeeps

\* A crash leaves the path it was working on to the operator.
LEMMA CrashKeeps ==
  ASSUME ObjectsInv, TypeOK', NEW w \in Workers, Crash(w)
  PROVE  ObjectsInv'
  <1>2. OneMoves(w)
    BY WorkerFrames DEF ObjectsInv
  <1>3. UNCHANGED <<bucket, rows, objects, bytes, grants, reassigned>> /\ Finish(w)
        /\ interrupted' = interrupted \cup ({handler[w].path} \ {0})
    BY DEF Crash
  <1>4. StaysInside(w)
    BY <1>2, <1>3 DEF StaysInside
  <1>5. handler'[w] = Idle
    BY <1>3, FinishFrames DEF ObjectsInv
  <1>6. /\ \A n \in Names : rows[n] # NoRow => rows[n].path # 0
        /\ 0 \notin Paths
    BY Constants DEF ObjectsInv, TypeOK, Paths
  <1>7. \A n \in Names : rows[n] # NoRow /\ rows[n].path = handler[w].path =>
           \/ bytes'[handler[w].path] \in {rows[n].owner, Platform, NoOwner}
           \/ handler[w].path \in reassigned'
    BY <1>3 DEF ObjectsInv, RowInv
  <1>8. \A g \in grants : g.path = handler[w].path =>
           \/ bytes'[handler[w].path] \in {g.user, Platform, NoOwner}
           \/ handler[w].path \in reassigned'
    BY <1>3 DEF ObjectsInv, ReadsStayWithObject, Fetched
  <1> QED
    BY <1>3, <1>4, <1>5, <1>6, <1>7, <1>8, EndsKeeps

\* The cleanup of a path that no row and no grant has.
LEMMA CleanupKeeps ==
  ASSUME ObjectsInv, TypeOK', NEW w \in Workers, Cleanup(w)
  PROVE  ObjectsInv'
  <1>1. OneMoves(w)
    BY WorkerFrames DEF ObjectsInv, Continue
  <1>2. /\ UNCHANGED <<bucket, rows, objects, grants, reassigned>> /\ Finish(w)
        /\ \/ bytes' = [bytes EXCEPT ![handler[w].path] = NoOwner] /\ UNCHANGED interrupted
           \/ UNCHANGED bytes /\ interrupted' = interrupted \cup {handler[w].path}
    BY DEF Cleanup
  <1>3. handler[w].path \in Paths
    BY PathKnown DEF Cleanup
  <1>4. StaysInside(w)
    BY <1>1, <1>2 DEF StaysInside, ObjectsInv, TypeOK
  <1>5. handler'[w] = Idle
    BY <1>2, FinishFrames DEF ObjectsInv
  <1>6. /\ \A n \in Names : rows[n].path # handler[w].path
        /\ \A g \in grants : g.path # handler[w].path
    BY DEF Cleanup, ObjectsInv, WorkerInv, RequestInv, PathInv, Writing
  <1>7. bytes'[handler[w].path] = NoOwner \/ handler[w].path \in interrupted'
    BY <1>2, <1>3 DEF ObjectsInv, TypeOK
  <1> QED
    BY <1>2, <1>4, <1>5, <1>6, <1>7, EndsKeeps

\* A handler that moves on with its path, without having changed a row.
LEMMA MovesKeeps ==
  ASSUME ObjectsInv, TypeOK', NEW w \in Workers, StaysInside(w), SameRequest(w),
         handler'[w].path = handler[w].path, handler[w].pc \in Locked, handler[w].pc # "commit",
         WorkerInv(w)', UNCHANGED <<rows, interrupted>>,
         \A n \in Names : rows[n] # NoRow /\ rows[n].path = handler[w].path =>
           \/ bytes'[handler[w].path] \in {rows[n].owner, Platform, NoOwner}
           \/ handler[w].path \in reassigned',
         \A g \in grants : g.path = handler[w].path =>
           \/ bytes'[handler[w].path] \in {g.user, Platform, NoOwner}
           \/ handler[w].path \in reassigned',
         \A n \in Names : rows[n] # NoRow /\ rows[n].path = handler[w].path =>
           bytes'[handler[w].path] # NoOwner \/ handler'[w].pc = "commit"
  PROVE  ObjectsInv'
  <1>0. TypeOK
    BY DEF ObjectsInv
  <1>1. \A v \in Workers : WorkerInv(v)'
    BY OthersStandStill
  <1>2. HandlersApart'
    BY ApartKept DEF StaysInside, SameRequest
  <1>3. (\A n \in Names : RowInv(n)') /\ GrantsOfObjects'
    BY RowsStay
  <1>4. \A v \in Workers : handler'[v].path = handler[v].path
    BY DEF StaysInside, OneMoves
  <1>5. NoOrphanedBytes'
    <2> SUFFICES ASSUME NEW p \in Paths, bytes'[p] # NoOwner
                 PROVE  \/ \E n \in Names : rows'[n].path = p /\ rows'[n].bucket = bucket'.id
                        \/ \E v \in Workers : handler'[v].path = p
                        \/ p \in interrupted'
      BY DEF NoOrphanedBytes
    <2>1. CASE p = handler[w].path
      BY <1>4, <2>1
    <2>2. CASE p # handler[w].path
      BY <1>4, <2>2 DEF ObjectsInv, NoOrphanedBytes, StaysInside
    <2> QED
      BY <2>1, <2>2
  <1>6. RowsHaveBytes'
    <2> SUFFICES ASSUME NEW n \in Names, rows[n] # NoRow
                 PROVE  \/ bytes'[rows[n].path] # NoOwner
                        \/ \E v \in Workers : handler'[v].pc = "commit" /\ handler'[v].path = rows[n].path
                        \/ rows[n].path \in interrupted'
      BY DEF RowsHaveBytes
    <2>0. rows[n].path \in Paths
      BY <1>0, Constants DEF TypeOK, Row, Paths
    <2>1. CASE rows[n].path = handler[w].path
      BY <2>1
    <2>2. CASE rows[n].path # handler[w].path
      <3>1. \A v \in Workers : v # w => handler'[v] = handler[v]
        BY DEF StaysInside, OneMoves
      <3> QED
        BY <2>0, <2>2, <3>1 DEF ObjectsInv, RowsHaveBytes, StaysInside
    <2> QED
      BY <2>1, <2>2
  <1>7. ReadsStayWithObject'
    <2> SUFFICES ASSUME NEW g \in grants
                 PROVE  bytes'[g.path] \in {g.user, Platform, NoOwner} \/ g.path \in reassigned'
      BY DEF ReadsStayWithObject, Fetched, StaysInside
    <2>1. g.path \in Paths
      BY <1>0 DEF TypeOK
    <2> QED
      BY <2>1 DEF ObjectsInv, ReadsStayWithObject, Fetched, StaysInside
  <1> QED
    BY <1>1, <1>2, <1>3, <1>5, <1>6, <1>7 DEF ObjectsInv

\* storage.upload: what is written is the owner's, the platform's, or remembered
\* as reassigned by a trusted write.
LEMMA PutKeeps ==
  ASSUME ObjectsInv, TypeOK', NEW w \in Workers, PutBytes(w)
  PROVE  ObjectsInv'
  <1> DEFINE h == handler[w]
             row == rows[h.name]
  <1>0. /\ TypeOK /\ h.pc = "put" /\ h.pc \in Locked /\ h.pc \in Writing /\ h.path \in Paths
        /\ h.path # 0 /\ h.name \in Names /\ WorkerInv(w) /\ h \in Frame /\ RowInv(h.name)
    <2>1. TypeOK /\ h.pc = "put" /\ h.pc \in Locked /\ h.pc \in Writing /\ WorkerInv(w) /\ h \in Frame
      BY DEF PutBytes, ObjectsInv, TypeOK, Locked, Writing
    <2> QED
      BY <2>1, PathKnown DEF ObjectsInv
  <1>1. OneMoves(w)
    BY WorkerFrames DEF ObjectsInv, Continue
  <1>2. /\ UNCHANGED <<bucket, rows, objects, grants, interrupted>>
        /\ bytes' \in {bytes, [bytes EXCEPT ![h.path] = Written(w)]}
        /\ reassigned' = IF h.kind = "trusted" /\ ~h.fresh /\ row.owner # h.user
                         THEN reassigned \cup {h.path} ELSE reassigned
        /\ \/ Goto(w, "insert") /\ bytes' = [bytes EXCEPT ![h.path] = Written(w)]
           \/ Failed(w)
    BY DEF PutBytes
  <1>3. StaysInside(w)
    BY <1>1, <1>2 DEF StaysInside, ObjectsInv, TypeOK
  <1>4. bytes'[h.path] \in {bytes[h.path], Written(w)}
    BY <1>0, <1>2 DEF TypeOK
  <1>5. Written(w) # NoOwner
    BY <1>0, Constants DEF Written, WorkerInv, RequestInv
  <1>6. ~h.fresh => Written(w) \in {row.owner, Platform} \/ h.path \in reassigned'
    <2>1. h.kind \in {"direct", "trusted", "platform"}
      BY <1>0 DEF WorkerInv, RequestInv, Frame
    <2>2. ~h.fresh /\ h.kind = "direct" => row.owner = h.user
      BY <1>0 DEF WorkerInv, AccessInv, PathInv
    <2> QED
      BY <1>0, <1>2, <2>1, <2>2 DEF Written
  <1>7. ASSUME NEW n \in Names, rows[n] # NoRow, rows[n].path = h.path
        PROVE  /\ ~h.fresh
               /\ \/ bytes'[h.path] \in {rows[n].owner, Platform, NoOwner}
                  \/ h.path \in reassigned'
    <2>1. n = h.name /\ ~h.fresh
      BY <1>0, <1>7, LockedRow
    <2>2. bytes[h.path] \in {row.owner, Platform, NoOwner} \/ h.path \in reassigned'
      BY <1>0, <1>2, <1>7, <2>1 DEF RowInv
    <2> QED
      BY <1>4, <1>6, <2>1, <2>2
  <1>8. ASSUME NEW g \in grants, g.path = h.path
        PROVE  \/ bytes'[h.path] \in {g.user, Platform, NoOwner}
               \/ h.path \in reassigned'
    <2>1. ~h.fresh /\ row # NoRow /\ row.path = h.path
      BY <1>0, <1>8 DEF WorkerInv, PathInv
    <2>2. g.user = row.owner \/ h.path \in reassigned'
      BY <1>0, <1>2, <1>8, <2>1 DEF RowInv
    <2> QED
      BY <1>0, <1>7, <2>1, <2>2
  <1>9. CASE Goto(w, "insert") /\ bytes' = [bytes EXCEPT ![h.path] = Written(w)]
    <2>1. /\ SameRequest(w) /\ handler'[w].pc = "insert" /\ handler'[w].path = h.path
          /\ handler'[w].owner = h.owner /\ handler'[w].fresh = h.fresh
      <3>1. "insert" \in {"cleanup"} \cup Locked
        BY DEF Locked
      <3> QED
        BY <1>0, <1>9, <3>1, GotoFrames
    <2>2. bytes'[h.path] = Written(w) /\ Written(w)' = Written(w)
      BY <1>0, <1>9, <2>1 DEF TypeOK, Written, SameRequest
    <2>3. WorkerInv(w)'
      <3>1. RequestInv(w)'
        BY <1>0, <2>1 DEF WorkerInv, RequestInv, SameRequest, Writing
      <3>2. PathInv(w)'
        BY <1>0, <1>2, <2>1 DEF WorkerInv, PathInv, SameRequest, Writing, Removing
      <3>3. AccessInv(w)'
        BY <1>0, <1>2, <2>1 DEF WorkerInv, AccessInv, SameRequest, Writing, Locked
      <3>4. BytesInv(w)'
        BY <1>2, <2>1, <2>2 DEF BytesInv, SameRequest
      <3> QED
        BY <3>1, <3>2, <3>3, <3>4 DEF WorkerInv
    <2> QED
      BY <1>0, <1>2, <1>3, <1>5, <1>7, <1>8, <2>1, <2>2, <2>3, MovesKeeps
  <1>10. CASE h.fresh /\ Goto(w, "cleanup")
    <2>1. /\ SameRequest(w) /\ handler'[w].pc = "cleanup" /\ handler'[w].path = h.path
          /\ handler'[w].owner = h.owner /\ handler'[w].fresh = h.fresh
      BY <1>0, <1>10, GotoFrames
    <2>2. WorkerInv(w)'
      BY <1>0, <1>2, <1>10, <2>1 DEF WorkerInv, RequestInv, PathInv, AccessInv, BytesInv,
         SameRequest, Writing, Removing, Locked
    <2> QED
      BY <1>0, <1>2, <1>3, <1>7, <1>8, <1>10, <2>1, <2>2, MovesKeeps
  <1>11. CASE ~h.fresh /\ Finish(w)
    <2>1. handler'[w] = Idle
      BY <1>0, <1>11, FinishFrames
    <2>2. row # NoRow /\ row.path = h.path
      BY <1>0, <1>11 DEF WorkerInv, PathInv
    <2>3. bytes'[h.path] # NoOwner \/ h.path \in interrupted'
      <3>1. bytes[h.path] # NoOwner \/ h.path \in interrupted
        <4>1. \A v \in Workers : handler[v].pc = "commit" => handler[v].path # h.path
          BY <1>0, PathKnown
        <4> QED
          BY <1>0, <2>2, <4>1 DEF ObjectsInv, RowsHaveBytes
      <3> QED
        BY <1>2, <1>4, <1>5, <3>1
    <2> QED
      BY <1>0, <1>2, <1>3, <1>7, <1>8, <2>1, <2>2, <2>3, EndsKeeps
  <1> QED
    BY <1>0, <1>2, <1>9, <1>10, <1>11, FailedFrames

\* The commit of an upload: the row has the path its bytes are under.
LEMMA CommitUploadKeeps ==
  ASSUME ObjectsInv, TypeOK', NEW w \in Workers, CommitUpload(w)
  PROVE  ObjectsInv'
  <1> DEFINE h == handler[w]
             old == rows[h.name]
             row == [bucket |-> h.bucket, path |-> h.path, owner |-> h.owner]
             inserted == [rows EXCEPT ![h.name] = row]
  <1>0. /\ TypeOK /\ h.pc = "insert" /\ h.pc \in Locked /\ h.pc \in Writing /\ h.path \in Paths
        /\ h.path # 0 /\ h.name \in Names /\ WorkerInv(w) /\ h \in Frame /\ RowInv(h.name)
    <2>1. TypeOK /\ h.pc = "insert" /\ h.pc \in Locked /\ h.pc \in Writing /\ WorkerInv(w) /\ h \in Frame
      BY DEF CommitUpload, ObjectsInv, TypeOK, Locked, Writing
    <2> QED
      BY <2>1, PathKnown DEF ObjectsInv
  <1>1. OneMoves(w)
    BY WorkerFrames DEF ObjectsInv, Continue
  <1>2. UNCHANGED <<bucket, objects, bytes, grants, reassigned>>
    BY DEF CommitUpload
  <1>3. \/ rows' = inserted /\ Finish(w) /\ interrupted' \in {interrupted, interrupted \ {h.path}}
        \/ UNCHANGED <<rows, interrupted>> /\ Failed(w)
        \/ /\ UNCHANGED rows /\ Finish(w)
           /\ interrupted' = IF h.fresh THEN interrupted \cup {h.path} ELSE interrupted
    <2>1. row.path # 0 /\ (h.fresh => old = NoRow)
      BY <1>0 DEF WorkerInv, PathInv
    <2>2. h.fresh => inserted # rows
      <3>1. inserted[h.name] = row
        BY <1>0 DEF TypeOK
      <3> QED
        BY <2>1, <3>1 DEF NoRow
    <2> HIDE DEF inserted
    <2>3. CommitUpload(w) =>
            \/ rows' = inserted /\ Finish(w) /\ interrupted' = interrupted \ {h.path}
            \/ UNCHANGED <<rows, interrupted>> /\ Failed(w)
            \/ /\ rows' \in {rows, inserted} /\ Finish(w)
               /\ interrupted' = IF rows' = rows /\ h.fresh THEN interrupted \cup {h.path}
                                 ELSE interrupted
      BY DEF CommitUpload, inserted
    <2> QED
      BY <2>2, <2>3
  <1>4. Written(w) # NoOwner /\ bytes[h.path] = Written(w) /\ Written(w) \in {h.owner, Platform}
    BY <1>0, Constants DEF Written, WorkerInv, RequestInv, AccessInv, BytesInv
  <1>5. ASSUME NEW n \in Names, rows[n].path = h.path
        PROVE  n = h.name /\ ~h.fresh /\ rows[n] # NoRow
    BY <1>0, <1>5, LockedRow
  <1>6. CASE UNCHANGED rows /\ Finish(w)
             /\ (interrupted' = IF h.fresh THEN interrupted \cup {h.path} ELSE interrupted)
    <2>1. StaysInside(w)
      BY <1>1, <1>2, <1>6 DEF StaysInside
    <2>2. handler'[w] = Idle
      BY <1>0, <1>6, FinishFrames
    <2>3. ~h.fresh => old # NoRow /\ old.path = h.path
      BY <1>0 DEF WorkerInv, PathInv
    <2>4. \A n \in Names : rows[n] # NoRow /\ rows[n].path = h.path =>
            bytes'[h.path] \in {rows[n].owner, Platform, NoOwner} \/ h.path \in reassigned'
      BY <1>2 DEF ObjectsInv, RowInv
    <2>5. \A g \in grants : g.path = h.path =>
            bytes'[h.path] \in {g.user, Platform, NoOwner} \/ h.path \in reassigned'
      BY <1>2 DEF ObjectsInv, ReadsStayWithObject, Fetched
    <2> QED
      BY <1>0, <1>2, <1>4, <1>6, <2>1, <2>2, <2>3, <2>4, <2>5, EndsKeeps
  <1>7. CASE UNCHANGED <<rows, interrupted>> /\ h.fresh /\ Goto(w, "cleanup")
    <2>1. /\ SameRequest(w) /\ handler'[w].pc = "cleanup" /\ handler'[w].path = h.path
          /\ handler'[w].owner = h.owner /\ handler'[w].fresh = h.fresh
      BY <1>0, <1>7, GotoFrames
    <2>2. WorkerInv(w)'
      BY <1>0, <1>2, <1>7, <2>1 DEF WorkerInv, RequestInv, PathInv, AccessInv, BytesInv,
         SameRequest, Writing, Removing, Locked
    <2>3. StaysInside(w)
      BY <1>1, <1>2, <1>7 DEF StaysInside
    <2>4. \A g \in grants : g.path # h.path
      BY <1>0, <1>7 DEF WorkerInv, PathInv
    <2> QED
      BY <1>0, <1>5, <1>7, <2>1, <2>2, <2>3, <2>4, MovesKeeps
  <1>8. CASE rows' = inserted /\ Finish(w) /\ interrupted' \in {interrupted, interrupted \ {h.path}}
    <2>1. rows'[h.name] = row /\ \A n \in Names : n # h.name => rows'[n] = rows[n]
      BY <1>0, <1>8 DEF TypeOK
    <2>2. row.path = h.path /\ row.owner = h.owner /\ row.bucket = h.bucket
      OBVIOUS
    <2> HIDE DEF row, inserted
    <2>3. StaysInside(w)
      BY <1>0, <1>1, <1>2, <2>1, <2>2 DEF StaysInside
    <2>4. handler'[w] = Idle
      BY <1>0, <1>8, FinishFrames
    <2>5. WorkerInv(w)' /\ handler'[w].path = 0 /\ handler'[w].pc \notin Locked
      BY <2>4, IdleInv
    <2>6. HandlersApart'
      BY <1>1, <2>5, ApartKept
    <2>7. h.path \in 1..objects /\ h.bucket = bucket.id /\ h.bucket # 0
      BY <1>0 DEF WorkerInv, RequestInv, PathInv, AccessInv, RowInv, Locked, Writing
    <2>8. ASSUME NEW g \in grants, g.path = h.path PROVE g.user = h.owner \/ h.path \in reassigned
      <3>1. ~h.fresh /\ old # NoRow /\ old.path = h.path
        BY <1>0, <2>8 DEF WorkerInv, PathInv
      <3>2. g.user = old.owner \/ h.path \in reassigned
        BY <1>0, <2>8, <3>1 DEF RowInv
      <3>3. h.kind \in {"direct", "trusted", "platform"}
        BY <1>0 DEF WorkerInv, RequestInv, Frame
      <3>4. old.owner = h.owner \/ h.path \in reassigned
        BY <1>0, <3>1, <3>3 DEF WorkerInv, AccessInv, BytesInv, Writing, Locked
      <3> QED
        BY <3>2, <3>4
    <2>9. ASSUME NEW n \in Names PROVE RowInv(n)'
      <3>1. CASE n = h.name
        <4>1. \A m \in Names : rows'[m].path = h.path => m = n
          BY <1>5, <2>1, <3>1
        <4> QED
          BY <1>0, <1>2, <1>4, <2>1, <2>2, <2>7, <2>8, <3>1, <4>1 DEF RowInv
      <3>2. CASE n # h.name
        <4>1. rows'[n] = rows[n] /\ RowInv(n)
          BY <2>1, <3>2 DEF ObjectsInv
        <4>2. rows[n].path # h.path
          BY <1>5, <3>2
        <4> QED
          BY <1>2, <2>1, <2>2, <4>1, <4>2 DEF RowInv
      <3> QED
        BY <3>1, <3>2
    <2>10. GrantsOfObjects'
      BY <1>2 DEF ObjectsInv, GrantsOfObjects
    <2>11. NoOrphanedBytes'
      <3> SUFFICES ASSUME NEW p \in Paths, bytes'[p] # NoOwner
                   PROVE  \/ \E n \in Names : rows'[n].path = p /\ rows'[n].bucket = bucket'.id
                          \/ \E v \in Workers : handler'[v].path = p
                          \/ p \in interrupted'
        BY DEF NoOrphanedBytes
      <3>1. CASE p = h.path
        BY <1>0, <1>2, <2>1, <2>2, <2>7, <3>1
      <3>2. CASE p # h.path
        <4>1. old.path # p
          <5>1. p # 0
            BY Constants DEF Paths
          <5> QED
            BY <1>0, <3>2, <5>1 DEF WorkerInv, PathInv, NoRow
        <4>2. \A v \in Workers : v # w => handler'[v] = handler[v]
          BY <1>1 DEF OneMoves
        <4> QED
          BY <1>2, <1>8, <2>1, <3>2, <4>1, <4>2 DEF ObjectsInv, NoOrphanedBytes
      <3> QED
        BY <3>1, <3>2
    <2>12. RowsHaveBytes'
      <3> SUFFICES ASSUME NEW n \in Names, rows'[n] # NoRow
                   PROVE  \/ bytes'[rows'[n].path] # NoOwner
                          \/ \E v \in Workers : handler'[v].pc = "commit" /\ handler'[v].path = rows'[n].path
                          \/ rows'[n].path \in interrupted'
        BY DEF RowsHaveBytes
      <3>1. CASE n = h.name
        BY <1>2, <1>4, <2>1, <2>2, <3>1
      <3>2. CASE n # h.name
        <4>1. rows'[n] = rows[n] /\ rows[n].path # h.path
          BY <1>5, <2>1, <3>2
        <4>2. \A v \in Workers : v # w => handler'[v] = handler[v]
          BY <1>1 DEF OneMoves
        <4> QED
          BY <1>0, <1>2, <1>8, <4>1, <4>2 DEF ObjectsInv, RowsHaveBytes
      <3> QED
        BY <3>1, <3>2
    <2>13. ReadsStayWithObject'
      BY <1>2 DEF ObjectsInv, ReadsStayWithObject, Fetched
    <2> QED
      BY <2>3, <2>5, <2>6, <2>9, <2>10, <2>11, <2>12, <2>13, OthersStandStill DEF ObjectsInv
  <1> QED
    BY <1>0, <1>3, <1>6, <1>7, <1>8, FailedFrames

\* deleteObject takes its locks and the path of the row.
LEMMA BeginRemoveKeeps ==
  ASSUME ObjectsInv, TypeOK', NEW w \in Workers, BeginRemove(w)
  PROVE  ObjectsInv'
  <1> DEFINE h == handler[w]
             row == rows[h.name]
  <1>0. /\ TypeOK /\ h.pc = "body" /\ h.op = "delete" /\ h.name \in Names /\ WorkerInv(w)
        /\ RowInv(h.name) /\ h.path = 0 /\ row \in Row /\ (row # NoRow <=> row.path # 0)
    <2>1. TypeOK /\ h.pc = "body" /\ h.op = "delete" /\ WorkerInv(w)
      BY DEF ObjectsInv, BeginRemove
    <2>2. h.name \in Names
      BY <2>1 DEF TypeOK
    <2>3. h.path = 0
      BY <2>1 DEF WorkerInv, RequestInv
    <2> QED
      BY <2>1, <2>2, <2>3 DEF ObjectsInv, TypeOK
  <1>1. CASE row = NoRow
    BY <1>1, RefuseKeeps
  <1>2. CASE row # NoRow
    <2>1. /\ UNCHANGED <<bucket, rows, objects, bytes, grants, interrupted, reassigned>>
          /\ bucket.id = h.bucket /\ NameIsFree(w, h.name) /\ Permitted(w)
          /\ Enter(w, "erase", row.path, NoOwner, FALSE)
      BY <1>2, Zenon DEF BeginRemove
    <2>2. OneMoves(w)
      BY WorkerFrames DEF ObjectsInv, Continue
    <2>3. /\ SameRequest(w) /\ handler'[w].pc = "erase" /\ handler'[w].path = row.path
      <3>1. row.path \in 0..MaxObjects /\ "erase" \in Locked
            /\ NoOwner \in Users \cup {NoOwner} /\ FALSE \in BOOLEAN
        BY <1>0 DEF Row, Locked
      <3> HIDE DEF row
      <3> QED
        BY <1>0, <2>1, <3>1, EnterFrames, ZenonT(40)
    <2>4. StaysInside(w)
      BY <2>1, <2>2 DEF StaysInside
    <2>5. WorkerInv(w)'
      <3>1. RequestInv(w)'
        BY <1>0, <2>3 DEF WorkerInv, RequestInv, SameRequest, Writing
      <3>2. PathInv(w)'
        BY <1>2, <2>1, <2>3 DEF PathInv, SameRequest, Writing, Removing
      <3>3. AccessInv(w)'
        BY <1>0, <1>2, <2>1, <2>3 DEF AccessInv, SameRequest, Permitted, DecidedBy, Decides, Writing
      <3>4. BytesInv(w)'
        BY <2>3 DEF BytesInv
      <3> QED
        BY <3>1, <3>2, <3>3, <3>4 DEF WorkerInv
    <2>6. HandlersApart'
      <3>1. ASSUME NEW v \in Workers, v # w
            PROVE  /\ handler'[v] = handler[v] /\ handler[v].path # handler'[w].path
                   /\ handler[v].pc \in Locked => handler[v].name # handler'[w].name
        BY <1>0, <1>2, <2>1, <2>2, <2>3, <3>1, PathIsFree DEF OneMoves, SameRequest
      <3> QED
        BY <3>1 DEF ObjectsInv, HandlersApart
    <2>7. (\A m \in Names : RowInv(m)') /\ GrantsOfObjects'
      <3>1. \A m \in Names : rows[m] # NoRow => rows[m].path # h.path
        BY <1>0 DEF TypeOK
      <3> QED
        BY <2>1, <2>4, <3>1, RowsStay
    <2>8. NoOrphanedBytes' /\ RowsHaveBytes' /\ ReadsStayWithObject'
      <3>1. \A p \in Paths : p # 0
        BY Constants DEF Paths
      <3>2. NoOrphanedBytes'
        BY <1>0, <2>1, <2>2, <3>1 DEF ObjectsInv, NoOrphanedBytes, OneMoves
      <3>3. RowsHaveBytes'
        BY <1>0, <2>1, <2>2 DEF ObjectsInv, RowsHaveBytes, OneMoves
      <3>4. ReadsStayWithObject'
        BY <2>1 DEF ObjectsInv, ReadsStayWithObject, Fetched
      <3> QED
        BY <3>2, <3>3, <3>4
    <2> QED
      BY <2>4, <2>5, <2>6, <2>7, <2>8, OthersStandStill DEF ObjectsInv
  <1> QED
    BY <1>1, <1>2

\* storage.delete: the bytes go before the row does.
LEMMA EraseKeeps ==
  ASSUME ObjectsInv, TypeOK', NEW w \in Workers, EraseBytes(w)
  PROVE  ObjectsInv'
  <1> DEFINE h == handler[w]
  <1>0. /\ TypeOK /\ h.pc = "erase" /\ h.pc \in Locked /\ h.path \in Paths
        /\ h.path # 0 /\ h.name \in Names /\ WorkerInv(w) /\ RowInv(h.name)
    <2>1. TypeOK /\ h.pc = "erase" /\ h.pc \in Locked /\ WorkerInv(w)
      BY DEF EraseBytes, ObjectsInv, Locked
    <2> QED
      BY <2>1, PathKnown DEF ObjectsInv
  <1>1. OneMoves(w)
    BY WorkerFrames DEF ObjectsInv, Continue
  <1>2. /\ UNCHANGED <<bucket, rows, objects, grants, reassigned>>
        /\ bytes' \in {bytes, [bytes EXCEPT ![h.path] = NoOwner]}
        /\ \/ /\ Goto(w, "commit") /\ bytes' = [bytes EXCEPT ![h.path] = NoOwner]
              /\ UNCHANGED interrupted
           \/ Finish(w) /\ interrupted' = interrupted \cup {h.path}
    BY DEF EraseBytes
  <1>3. StaysInside(w)
    BY <1>1, <1>2 DEF StaysInside, ObjectsInv, TypeOK
  <1>4. bytes'[h.path] \in {bytes[h.path], NoOwner}
    BY <1>0, <1>2 DEF TypeOK
  <1>5. \A n \in Names : rows[n] # NoRow /\ rows[n].path = h.path =>
          bytes'[h.path] \in {rows[n].owner, Platform, NoOwner} \/ h.path \in reassigned'
    BY <1>2, <1>4 DEF ObjectsInv, RowInv
  <1>6. \A g \in grants : g.path = h.path =>
          bytes'[h.path] \in {g.user, Platform, NoOwner} \/ h.path \in reassigned'
    BY <1>2, <1>4 DEF ObjectsInv, ReadsStayWithObject, Fetched
  <1>7. CASE Goto(w, "commit") /\ bytes' = [bytes EXCEPT ![h.path] = NoOwner] /\ UNCHANGED interrupted
    <2>1. SameRequest(w) /\ handler'[w].pc = "commit" /\ handler'[w].path = h.path
      <3>1. "commit" \in {"cleanup"} \cup Locked
        BY DEF Locked
      <3> QED
        BY <1>0, <1>7, <3>1, GotoFrames
    <2>2. bytes'[h.path] = NoOwner
      BY <1>0, <1>7 DEF TypeOK
    <2>3. WorkerInv(w)'
      <3>1. RequestInv(w)'
        BY <1>0, <2>1 DEF WorkerInv, RequestInv, SameRequest, Writing
      <3>2. PathInv(w)'
        BY <1>0, <1>2, <2>1 DEF WorkerInv, PathInv, SameRequest, Writing, Removing
      <3>3. AccessInv(w)'
        BY <1>0, <1>2, <2>1 DEF WorkerInv, AccessInv, SameRequest, Writing, Locked
      <3>4. BytesInv(w)'
        BY <2>1, <2>2 DEF BytesInv
      <3> QED
        BY <3>1, <3>2, <3>3, <3>4 DEF WorkerInv
    <2> QED
      BY <1>0, <1>2, <1>3, <1>5, <1>6, <1>7, <2>1, <2>3, MovesKeeps
  <1>8. CASE Finish(w) /\ interrupted' = interrupted \cup {h.path}
    <2>1. handler'[w] = Idle
      BY <1>0, <1>8, FinishFrames
    <2> QED
      BY <1>2, <1>3, <1>5, <1>6, <1>8, <2>1, EndsKeeps
  <1> QED
    BY <1>2, <1>7, <1>8

\* The row goes after its bytes have gone.
LEMMA CommitRemoveKeeps ==
  ASSUME ObjectsInv, TypeOK', NEW w \in Workers, CommitRemove(w)
  PROVE  ObjectsInv'
  <1> DEFINE h == handler[w]
             removed == [rows EXCEPT ![h.name] = NoRow]
  <1>0. /\ TypeOK /\ h.pc = "commit" /\ h.pc \in Locked /\ h.path \in Paths
        /\ h.path # 0 /\ h.name \in Names /\ WorkerInv(w) /\ RowInv(h.name)
    <2>1. TypeOK /\ h.pc = "commit" /\ h.pc \in Locked /\ WorkerInv(w)
      BY DEF CommitRemove, ObjectsInv, Locked
    <2> QED
      BY <2>1, PathKnown DEF ObjectsInv
  <1>1. OneMoves(w) /\ handler'[w] = Idle
    BY WorkerFrames, FinishFrames DEF ObjectsInv, Continue, CommitRemove
  <1>2. /\ UNCHANGED <<bucket, objects, bytes, grants, reassigned>>
        /\ \/ UNCHANGED rows /\ interrupted' = interrupted \cup {h.path}
           \/ rows' = removed /\ interrupted \subseteq interrupted'
    BY DEF CommitRemove
  <1>3. rows[h.name] # NoRow /\ rows[h.name].path = h.path /\ bytes[h.path] = NoOwner
    BY <1>0 DEF WorkerInv, PathInv, BytesInv, Removing
  <1>4. CASE UNCHANGED rows /\ interrupted' = interrupted \cup {h.path}
    <2>1. StaysInside(w)
      BY <1>1, <1>2, <1>4 DEF StaysInside
    <2> QED
      BY <1>1, <1>2, <1>3, <1>4, <2>1, EndsKeeps
  <1>5. CASE rows' = removed /\ interrupted \subseteq interrupted'
    <2>1. rows'[h.name] = NoRow /\ \A n \in Names : n # h.name => rows'[n] = rows[n]
      BY <1>0, <1>5 DEF TypeOK
    <2>2. NoRow.path = 0
      BY DEF NoRow
    <2>3. StaysInside(w)
      BY <1>0, <1>1, <1>2, <2>1, <2>2 DEF StaysInside
    <2>4. WorkerInv(w)' /\ handler'[w].path = 0 /\ handler'[w].pc \notin Locked
      BY <1>1, IdleInv
    <2>5. HandlersApart'
      BY <1>1, <2>4, ApartKept
    <2>6. ASSUME NEW n \in Names, n # h.name, rows[n] # NoRow
          PROVE  rows[n].path # h.path /\ rows[n].path # 0
      BY <1>0, <2>6, LockedRow DEF TypeOK
    <2>7. ASSUME NEW n \in Names PROVE RowInv(n)'
      <3>1. CASE rows'[n] = NoRow
        BY <3>1 DEF RowInv
      <3>2. CASE rows'[n] # NoRow
        <4>1. n # h.name /\ rows'[n] = rows[n] /\ RowInv(n) /\ rows[n].path # 0
          BY <1>0, <2>1, <2>6, <3>2 DEF ObjectsInv
        <4>2. \A m \in Names : rows'[m].path = rows[n].path => m = n
          BY <2>1, <2>2, <3>2, <4>1 DEF RowInv
        <4> QED
          BY <1>2, <4>1, <4>2 DEF RowInv
      <3> QED
        BY <3>1, <3>2
    <2>8. \A v \in Workers : v # w => handler'[v] = handler[v]
      BY <1>1 DEF OneMoves
    <2>9. NoOrphanedBytes'
      <3> SUFFICES ASSUME NEW p \in Paths, bytes'[p] # NoOwner
                   PROVE  \/ \E n \in Names : rows'[n].path = p /\ rows'[n].bucket = bucket'.id
                          \/ \E v \in Workers : handler'[v].path = p
                          \/ p \in interrupted'
        BY DEF NoOrphanedBytes
      <3>1. p # h.path
        BY <1>2, <1>3
      <3> QED
        BY <1>2, <1>3, <1>5, <2>1, <2>8, <3>1 DEF ObjectsInv, NoOrphanedBytes
    <2>10. RowsHaveBytes'
      <3> SUFFICES ASSUME NEW n \in Names, rows'[n] # NoRow
                   PROVE  \/ bytes'[rows'[n].path] # NoOwner
                          \/ \E v \in Workers : handler'[v].pc = "commit" /\ handler'[v].path = rows'[n].path
                          \/ rows'[n].path \in interrupted'
        BY DEF RowsHaveBytes
      <3>1. rows'[n] = rows[n] /\ rows[n].path # h.path
        BY <2>1, <2>6
      <3> QED
        BY <1>2, <1>5, <2>8, <3>1 DEF ObjectsInv, RowsHaveBytes
    <2>11. ReadsStayWithObject' /\ GrantsOfObjects'
      BY <1>2 DEF ObjectsInv, ReadsStayWithObject, Fetched, GrantsOfObjects
    <2> QED
      BY <2>3, <2>4, <2>5, <2>7, <2>9, <2>10, <2>11, OthersStandStill DEF ObjectsInv
  <1> QED
    BY <1>2, <1>4, <1>5

-----------------------------------------------------------------------------
(* The theorems.                                                           *)

LEMMA NextObjects == ObjectsInv /\ [Next]_vars => ObjectsInv'
  <1> SUFFICES ASSUME ObjectsInv, [Next]_vars PROVE ObjectsInv'
    OBVIOUS
  <1>0. TypeOK /\ TypeOK'
    BY NextType DEF ObjectsInv
  <1>1. CASE DeleteBucket \/ \E p \in Presets : UpdateBucket(p) \/ CreateBucket(p)
    BY <1>0, <1>1, AdminKeeps
  <1>2. ASSUME NEW w \in Workers, NEW u \in Users \cup {NoOwner}, NEW n \in Names,
               \/ UploadObject(w, u, n) \/ UploadWithTicket(w, u, n) \/ FunctionUploads(w, u, n)
               \/ DeleteObject(w, u, n) \/ RemoveWithTicket(w, u, n) \/ FunctionRemoves(w, u, n)
        PROVE  ObjectsInv'
    <2>1. PICK op \in {"write", "delete"}, kind \in {"direct", "trusted", "platform"} :
            Admit(w, op, kind, u, n) /\ (kind # "platform" => u \in Users)
      BY <1>2, EndpointsAdmit
    <2>2. bucket.id \in 0..MaxBuckets /\ bucket.preset \in Presets \cup {"none"}
      BY <1>0 DEF TypeOK
    <2> QED
      BY <1>0, <2>1, <2>2, AdmitKeeps DEF Admit
  <1>3. ASSUME NEW w \in Workers, Continue(w) PROVE ObjectsInv'
    BY <1>0, <1>3, BeginUploadKeeps, RefuseKeeps, PutKeeps, CommitUploadKeeps, CleanupKeeps,
       BeginRemoveKeeps, EraseKeeps, CommitRemoveKeeps DEF Continue
  <1>4. ASSUME NEW w \in Workers, Crash(w) PROVE ObjectsInv'
    BY <1>0, <1>4, CrashKeeps
  <1>5. ASSUME NEW u \in Users, NEW n \in Names, AllowRead(u, n) PROVE ObjectsInv'
    BY <1>0, <1>5, ReadKeeps
  <1>6. ASSUME NEW u \in Users, AcceptDeletion(u) \/ EraseDone(u) PROVE ObjectsInv'
    BY <1>0, <1>6, DeletionKeeps DEF AcceptDeletion, EraseDone
  <1>7. ASSUME NEW u \in Users, NEW w \in Workers, NEW n \in Names, EraseNext(w, u, n)
        PROVE  ObjectsInv'
    <2>1. rows[n] # NoRow /\ rows[n].bucket \in 0..MaxBuckets /\ rows[n].bucket # 0
      <3>1. rows[n] # NoRow
        BY <1>7, Constants DEF EraseNext, NoRow
      <3> QED
        BY <1>0, <3>1 DEF ObjectsInv, RowInv, TypeOK, Row
    <2> QED
      BY <1>0, <1>7, <2>1, AdmitKeeps DEF EraseNext
  <1>8. CASE UNCHANGED vars
    BY <1>0, <1>8, DeletionKeeps DEF vars
  <1> QED
    BY <1>1, <1>2, <1>3, <1>4, <1>5, <1>6, <1>7, <1>8 DEF Next, Erase

LEMMA ObjectsInvariant == Spec => []ObjectsInv
  BY InitObjects, NextObjects, PTL DEF Spec

\* Rows and bytes are sound however many requests, removals, crashes, provider
\* failures and lost commits meet on however many names (uploadObject,
\* deleteObject, deleteObjectsOwnedByProjectUser of storage.service.ts): no bytes
\* without a row, a request or a failure on record, no row left without
\* bytes by a failed upload, and no reader of an owner_only object who is given the bytes
\* of another user, unless a trusted write handed the object on.
THEOREM RowsAndBytes == Spec => []ObjectsSound
  <1>1. ObjectsInv => ObjectsSound
    BY DEF ObjectsInv, ObjectsSound
  <1> QED
    BY <1>1, ObjectsInvariant, PTL

LEMMA OwnershipStep ==
  ASSUME ObjectsInv, NEW w \in Workers, handler[w].kind = "direct"
  PROVE  /\ (CommitUpload(w) \/ CommitRemove(w)) =>
              /\ \A n \in Names : rows'[n] # rows[n] => rows[n] = NoRow \/ rows[n].owner = handler[w].user
              /\ rows' # rows => bucket.preset # "admin_only"
         /\ PutBytes(w) => \A n \in Names : rows[n].path = handler[w].path =>
              rows[n].owner = handler[w].user
  <1>0. WorkerInv(w)
    BY DEF ObjectsInv
  <1>1. ASSUME CommitUpload(w) \/ CommitRemove(w)
        PROVE  /\ handler[w].pc \in Locked
               /\ \A n \in Names : n # handler[w].name => rows'[n] = rows[n]
    <2>1. \/ UNCHANGED rows
          \/ \E row : rows' = [rows EXCEPT ![handler[w].name] = row]
      BY <1>1 DEF CommitUpload, CommitRemove
    <2> QED
      BY <1>1, <2>1 DEF CommitUpload, CommitRemove, Locked, ObjectsInv, TypeOK
  <1>2. handler[w].pc \in Locked =>
          /\ bucket.preset # "admin_only"
          /\ rows[handler[w].name] = NoRow \/ rows[handler[w].name].owner = handler[w].user
    BY <1>0 DEF WorkerInv, AccessInv
  <1>3. ASSUME PutBytes(w), NEW n \in Names, rows[n].path = handler[w].path
        PROVE  rows[n].owner = handler[w].user
    <2>1. handler[w].pc \in Locked
      BY <1>3 DEF PutBytes, Locked
    <2> QED
      BY <1>2, <1>3, <2>1, LockedRow
  <1> QED
    BY <1>1, <1>2, <1>3

\* Two users never both claim a name, for every number of requests and names:
\* what a direct request commits was nobody's or its user's own at that moment,
\* whatever happened since it was admitted (uploadObject and deleteObject decide
\* under the advisory lock of the name and the shared lock of the bucket).
THEOREM DirectRequestsKeepOwnership == Spec => OwnershipRespected
  <1>1. ObjectsInv /\ [Next]_vars =>
          [\A w \in Workers : handler[w].kind = "direct" =>
            /\ (CommitUpload(w) \/ CommitRemove(w)) =>
                 /\ \A n \in Names : rows'[n] # rows[n] => rows[n] = NoRow \/ rows[n].owner = handler[w].user
                 /\ rows' # rows => bucket.preset # "admin_only"
            /\ PutBytes(w) => \A n \in Names : rows[n].path = handler[w].path =>
                 rows[n].owner = handler[w].user]_vars
    BY OwnershipStep
  <1> QED
    BY <1>1, ObjectsInvariant, PTL DEF Spec, OwnershipRespected
=============================================================================
