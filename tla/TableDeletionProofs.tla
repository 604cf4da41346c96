------------------------ MODULE TableDeletionProofs ------------------------
(***************************************************************************)
(* What module TableDeletion promises, for any number of workers, names,    *)
(* schemas and relations.  A dropped table is forgotten, because            *)
(*                                                                         *)
(*   - whoever drops, recovers or synchronises is alone among the handlers, *)
(*     so between the last look at the metadata and the write that follows   *)
(*     from it only unlocked steps happen: a late request, a realtime        *)
(*     configuration of an environment, a database user's transaction; and  *)
(*     none of them makes a grant, but for a late replacement of the         *)
(*     document, which is on record (restored);                              *)
(*   - a name whose former owner Hasura still remembers is pending, and a    *)
(*     pending name has no relation and no transaction that could make one. *)
(***************************************************************************)
EXTENDS TableDeletion, TLAPS

-----------------------------------------------------------------------------
(* The inductive invariant *)

Deleting == {"check", "tracked", "untrack", "recheck", "clear"}
Syncing == {"inconsistent", "status", "export", "replace"}
Exclusive == {"drop", "recover", "sync"}

\* The step a worker is at tells which request it serves.
StepOf(w) ==
    /\ handler[w].pc \in Deleting =>
         handler[w].kind \in {"drop", "recover"} /\ handler[w].name \in Names \cap outbox
    /\ handler[w].pc \in Syncing => handler[w].kind = "sync"
    /\ handler[w].pc = "track" => \/ handler[w].kind = "create" /\ handler[w].name \in Names
                                  \/ handler[w].kind = "sync"

\* A holder of the exclusive lock is the only worker at work.
Alone(w) ==
    handler[w].pc # "idle" /\ handler[w].kind \in Exclusive =>
        \A v \in Workers \ {w} : handler[v].pc = "idle"

\* The relation under n has the grants it was given, by a policy and not by a late
\* replacement of the document.
Standing(n) == Granted(n) /\ n \notin restored

\* The relation under a name is its youngest, and younger than the one dropped
\* last; a transaction that has taken a name can still make its relation.  Grants
\* are of relations that were made, and none is given under a pending name.
Numbered(n) ==
    /\ deleted[n] <= born[n]
    /\ hasura[n].grant <= born[n]
    /\ n \in outbox => ~Standing(n)
    /\ rel[n] # 0 => rel[n] = born[n] /\ rel[n] > deleted[n]
    /\ n \in open => rel[n] = 0 /\ born[n] < MaxBorn

\* A grant (of the metadata, of a copy or of a baseline) is of no dropped table.
Younger(grant, n) == grant = 0 \/ grant > deleted[n]

\* A name that nobody can use before its deletion is cleared.
Pending(n) == n \in outbox /\ rel[n] = 0 /\ n \notin open

Forgotten(n) == /\ n \in restored \/ Younger(hasura[n].grant, n) \/ Pending(n)
                /\ Younger(policy[n], n)

\* What a synchronisation is about to write brings back no grant of a dropped
\* table and loses none of a relation that stands.
CopyFit(w) ==
    /\ handler[w].pc \in {"track", "inconsistent", "status"} /\ handler[w].kind = "sync" =>
         \A n \in Names :
           SchemaOf[n] = handler[w].schema /\ Standing(n) => n \in handler[w].listed
    /\ handler[w].pc = "export" => \A n \in Names : Standing(n) => n \in handler[w].listed
    /\ handler[w].pc = "replace" => \A n \in Names :
         /\ n \in restored \/ Younger(handler[w].copy[n].grant, n) \/ Pending(n)
         /\ Standing(n) => handler[w].copy[n].grant = rel[n]
         /\ n \in outbox => n \in restored \/ rel[n] = 0 \/ handler[w].copy[n].grant # rel[n]
         /\ handler[w].copy[n].grant <= born[n]

\* The row of a deletion is removed only once the metadata has no grant.
Cleared(w) ==
    handler[w].pc = "clear" =>
        handler[w].name \in restored \/ hasura[handler[w].name].grant = 0

\* A document that may still be put in place has grants of relations that were made.
Fit(r) == r.type = "replace" => \A n \in Names : r.copy[n].grant <= born[n]

LateInv == \A r \in late : Fit(r)
WorkersInv == \A w \in Workers : StepOf(w) /\ Alone(w) /\ CopyFit(w) /\ Cleared(w)
NamesInv == \A n \in Names : Numbered(n) /\ Forgotten(n)
DeletionInv == TypeOK /\ WorkersInv /\ NamesInv /\ LateInv

-----------------------------------------------------------------------------
(* Steps by what they leave alone *)

\* No grant appears, but for those of a late replacement.
Fades ==
    /\ hasura' \in [Names -> Entries]
    /\ restored \subseteq restored' /\ restored' \subseteq Names
    /\ \A n \in Names : /\ hasura'[n].grant <= born[n]
                        /\ n \in restored' \/ hasura'[n].grant \in {0, hasura[n].grant}

\* The requests given up are of the platform.
Sends == late' \subseteq Requests /\ \A r \in late' \ late : Fit(r)

\* No grant appears, and whoever relies on a pending deletion or on a grant that
\* stands still may.
Quiet ==
    /\ \A n \in Names : n \in restored' \/ hasura'[n].grant \in {0, hasura[n].grant}
    /\ restored \subseteq restored'
    /\ deleted' = deleted /\ outbox' = outbox
    /\ \A n \in Names : rel'[n] \in {0, rel[n]} \/ rel'[n] > born[n]
    /\ \A n \in Names : Pending(n) => Pending(n)'
    /\ \A n \in Names : Standing(n)' => Standing(n) /\ rel'[n] = rel[n]
    /\ \A n \in Names, g \in Relations : g <= born[n] => g <= born'[n]

\* PostgreSQL is as before.
DatabaseSame == UNCHANGED <<rel, born, open, policy, outbox, deleted>>

OthersStay(w) == \A v \in Workers \ {w} : handler'[v] = handler[v]

\* A worker goes on with its request or ends it.
Advances(w) ==
    /\ OthersStay(w)
    /\ handler'[w].pc # "idle" =>
         /\ handler[w].pc # "idle" /\ handler'[w].kind = handler[w].kind
         /\ handler'[w].name = handler[w].name /\ handler'[w].schema = handler[w].schema

-----------------------------------------------------------------------------
(* Lemmas about the operators *)

LEMMA IdleFrame == Idle \in Frames /\ Idle.pc = "idle" /\ Untracked \in Entries
                   /\ Untracked.grant = 0 /\ Idle.copy \in [Names -> Entries]
<1>1. 0 \in Relations
  BY SchemasAssumption DEF Relations
<1>2. Untracked \in Entries /\ Untracked.grant = 0
  BY <1>1 DEF Untracked, Entries
<1>3. [n \in Names |-> Untracked] \in [Names -> Entries]
  BY <1>2
<1> HIDE DEF Untracked
<1>4. Idle \in Frames /\ Idle.pc = "idle" /\ Idle.copy \in [Names -> Entries]
  BY <1>3 DEF Idle, Frames, Steps
<1> QED
  BY <1>2, <1>4

LEMMA FramesHave ==
  ASSUME TypeOK, NEW w \in Workers
  PROVE  /\ handler[w] \in Frames /\ handler[w].pc \in Steps
         /\ handler[w].name \in Names \cup {"none"} /\ handler[w].schema \in Schemas \cup {"none"}
         /\ handler[w].listed \subseteq Names /\ handler[w].copy \in [Names -> Entries]
BY DEF TypeOK, Frames

LEMMA FinishEnds ==
  ASSUME TypeOK, NEW w \in Workers, Finish(w)
  PROVE  handler' \in [Workers -> Frames] /\ Advances(w) /\ handler'[w].pc = "idle"
<1>1. handler \in [Workers -> Frames]
  BY DEF TypeOK
<1>2. handler' \in [Workers -> Frames] /\ OthersStay(w) /\ handler'[w] = Idle
  BY <1>1, IdleFrame DEF Finish, OthersStay
<1> QED
  BY <1>2, IdleFrame DEF Advances

LEMMA GotoMoves ==
  ASSUME TypeOK, NEW w \in Workers, NEW pc \in Steps, Goto(w, pc), handler[w].pc # "idle"
  PROVE  /\ handler' \in [Workers -> Frames] /\ Advances(w) /\ handler'[w].pc = pc
         /\ handler'[w].listed = handler[w].listed /\ handler'[w].copy = handler[w].copy
         /\ handler'[w].kind = handler[w].kind /\ handler'[w].name = handler[w].name
         /\ handler'[w].schema = handler[w].schema
<1> DEFINE h == handler[w]
           g == [h EXCEPT !.pc = pc]
<1>1. handler \in [Workers -> Frames] /\ h \in Frames
  BY DEF TypeOK
<1>2. handler' = [handler EXCEPT ![w] = g]
  BY <1>1 DEF Goto
<1>3. /\ g \in Frames /\ g.pc = pc /\ g.listed = h.listed /\ g.copy = h.copy
      /\ g.kind = h.kind /\ g.name = h.name /\ g.schema = h.schema
  BY <1>1 DEF Frames
<1> HIDE DEF g
<1>4. handler' \in [Workers -> Frames] /\ OthersStay(w) /\ handler'[w] = g
  BY <1>1, <1>2, <1>3 DEF OthersStay
<1> QED
  BY <1>3, <1>4 DEF Advances

\* An exclusive operation is admitted when everybody is idle, a shared one when
\* nobody holds the exclusive lock.
LEMMA LockModes ==
  ASSUME NEW schema
  PROVE  /\ \A kind \in Exclusive \cup {"import"} : LockMode(kind, schema) = "exclusive"
         /\ \A kind \in {"create", "track", "policy"} : LockMode(kind, schema) = "shared"
BY DEF LockMode, Exclusive

LEMMA BusyHolds ==
  ASSUME DeletionInv, NEW v \in Workers, handler[v].pc # "idle"
  PROVE  /\ handler[v].kind \in Exclusive => Held(v) = "exclusive"
         /\ handler[v].kind \notin Exclusive => Held(v) = "shared"
<1>1. StepOf(v) /\ handler[v].pc \in Steps
  BY FramesHave DEF DeletionInv, WorkersInv
<1>2. handler[v].kind \in Exclusive \cup {"create"}
  BY <1>1 DEF StepOf, Steps, Deleting, Syncing, Exclusive
<1> QED
  BY <1>2, LockModes DEF Held, Exclusive

LEMMA ExclusiveAdmission ==
  ASSUME DeletionInv, NEW kind \in Exclusive \cup {"import"}, NEW schema, Admitted(kind, schema)
  PROVE  \A v \in Workers : handler[v].pc = "idle"
<1> SUFFICES ASSUME NEW v \in Workers, handler[v].pc # "idle"
             PROVE  FALSE
  OBVIOUS
<1>1. LockMode(kind, schema) = "exclusive"
  BY LockModes
<1>2. Held(v) # "none"
  BY BusyHolds
<1> QED
  BY <1>1, <1>2 DEF Admitted, TryLock

LEMMA SharedAdmission ==
  ASSUME DeletionInv, NEW kind \in {"create", "track", "policy"}, NEW schema,
         Admitted(kind, schema), NEW v \in Workers, handler[v].pc # "idle"
  PROVE  handler[v].kind \notin Exclusive /\ handler[v].pc = "track"
<1>1. LockMode(kind, schema) = "shared"
  BY LockModes
<1>2. Held(v) = "shared" /\ handler[v].kind \notin Exclusive
  BY <1>1, BusyHolds DEF Admitted, TryLock
<1>3. StepOf(v) /\ handler[v].pc \in Steps
  BY FramesHave DEF DeletionInv, WorkersInv
<1> QED
  BY <1>2, <1>3 DEF StepOf, Steps, Deleting, Syncing, Exclusive

LEMMA StartEnters ==
  ASSUME TypeOK, NEW w \in Workers, NEW n \in Names, NEW pc \in Steps,
         NEW kind \in {"create", "drop", "recover"}, Start(w, kind, n, pc)
  PROVE  /\ handler' \in [Workers -> Frames] /\ OthersStay(w)
         /\ handler'[w].pc = pc /\ handler'[w].kind = kind /\ handler'[w].name = n
<1> DEFINE f == [pc |-> pc, kind |-> kind, schema |-> SchemaOf[n], name |-> n,
                 listed |-> {}, copy |-> Idle.copy]
<1>1. handler \in [Workers -> Frames] /\ SchemaOf[n] \in Schemas
  BY SchemasAssumption DEF TypeOK
<1>2. f \in Frames /\ f.pc = pc /\ f.kind = kind /\ f.name = n
  BY <1>1, IdleFrame DEF Frames
<1>3. handler' = [handler EXCEPT ![w] = f]
  BY DEF Start
<1> HIDE DEF f
<1> QED
  BY <1>1, <1>2, <1>3 DEF OthersStay

LEMMA TrackedEntry ==
  ASSUME NEW e \in Entries
  PROVE  Tracked(e) \in Entries /\ Tracked(e).grant = e.grant
BY DEF Entries, Tracked

\* A request about one table, or about the entries without a relation, makes no
\* grant; only an untracking takes one from a relation that is there.
LEMMA AppliedFades ==
  ASSUME TypeOK, NEW r \in Requests, r.type # "replace"
  PROVE  /\ Applied(hasura, r) \in [Names -> Entries]
         /\ \A n \in Names : Applied(hasura, r)[n].grant \in {0, hasura[n].grant}
         /\ r.type = "untrack" => /\ r = Request("untrack", r.name)
                                 /\ Applied(hasura, r)[r.name].grant = 0
         /\ \A n \in Names : \/ rel[n] = 0 \/ r = Request("untrack", n)
                             \/ Applied(hasura, r)[n].grant = hasura[n].grant
<1>1. hasura \in [Names -> Entries]
  BY DEF TypeOK
<1>2. CASE r.type = "inconsistent"
  <2>1. Applied(hasura, r) = [n \in Names |-> IF rel[n] = 0 THEN Untracked ELSE hasura[n]]
    BY <1>2 DEF Applied
  <2> QED
    BY <1>1, <1>2, <2>1, IdleFrame
<1>3. CASE r.type # "inconsistent"
  <2>1. r.name \in Names /\ r.type \in {"track", "untrack"} /\ hasura[r.name] \in Entries
    BY <1>1, <1>3 DEF Requests
  <2>2. CASE r.type = "track" /\ rel[r.name] = 0
    BY <1>1, <2>1, <2>2 DEF Applied
  <2>3. CASE r.type = "track" /\ rel[r.name] # 0
    <3>1. Applied(hasura, r) = [hasura EXCEPT ![r.name] = Tracked(hasura[r.name])]
      BY <2>1, <2>3 DEF Applied
    <3> QED
      BY <1>1, <2>1, <2>3, <3>1, TrackedEntry
  <2>4. CASE r.type = "untrack"
    <3>1. Applied(hasura, r) = [hasura EXCEPT ![r.name] = Untracked]
      BY <2>4 DEF Applied
    <3>2. r = Request("untrack", r.name)
      BY <1>3, <2>4 DEF Requests, Request
    <3> QED
      BY <1>1, <2>1, <2>4, <3>1, <3>2, IdleFrame
  <2> QED
    BY <2>1, <2>2, <2>3, <2>4
<1> QED
  BY <1>2, <1>3

LEMMA Spending ==
  ASSUME TypeOK
  PROVE  /\ spent.drops < MaxDrops /\ Spend("drops") => spent' \in Bounds
         /\ spent.syncs < MaxSyncs /\ Spend("syncs") => spent' \in Bounds
         /\ MayFail /\ Spend("faults") => spent' \in Bounds
<1>1. spent \in Bounds /\ MaxDrops \in Nat /\ MaxSyncs \in Nat /\ MaxFaults \in Nat
  BY SchemasAssumption DEF TypeOK
<1>2. ASSUME spent.drops < MaxDrops, Spend("drops") PROVE spent' \in Bounds
  BY <1>1, <1>2 DEF Spend, Bounds
<1>3. ASSUME spent.syncs < MaxSyncs, Spend("syncs") PROVE spent' \in Bounds
  BY <1>1, <1>3 DEF Spend, Bounds
<1>4. ASSUME MayFail, Spend("faults") PROVE spent' \in Bounds
  BY <1>1, <1>4 DEF Spend, Bounds, MayFail
<1> QED
  BY <1>2, <1>3, <1>4

LEMMA RequestType ==
  /\ \A type \in {"track", "untrack"}, n \in Names :
       /\ Request(type, n) \in Requests /\ Request(type, n).name = n
       /\ Request(type, n).type = type
  /\ DroppingInconsistent \in Requests /\ DroppingInconsistent.type = "inconsistent"
  /\ \A copy \in [Names -> Entries] :
       /\ Replacing(copy) \in Requests /\ Replacing(copy).type = "replace"
       /\ Replacing(copy).copy = copy
BY DEF Request, DroppingInconsistent, Replacing, Requests

\* Numbers of grants can be compared with numbers of relations.
LEMMA GrantNumbers ==
  ASSUME TypeOK
  PROVE  /\ Relations \subseteq Nat /\ \A e \in Entries : e.grant \in Relations
         /\ \A n \in Names : /\ born[n] \in Relations /\ rel[n] \in Relations
                             /\ deleted[n] \in Relations /\ hasura[n] \in Entries
                             /\ hasura[n].grant \in Relations /\ 0 <= born[n]
BY SchemasAssumption DEF TypeOK, Relations, Entries

\* A grant that stays or fades is of a relation that was made.
LEMMA FadesIf ==
  ASSUME DeletionInv, hasura' \in [Names -> Entries], restored' = restored,
         \A n \in Names : hasura'[n].grant \in {0, hasura[n].grant}
  PROVE  Fades
<1>1. restored \subseteq Names /\ \A n \in Names : hasura[n].grant <= born[n] /\ 0 <= born[n]
  BY GrantNumbers DEF DeletionInv, NamesInv, Numbered, TypeOK
<1> QED
  BY <1>1 DEF Fades

\* A step that sends nothing.
LEMMA StillFades ==
  ASSUME DeletionInv, UNCHANGED <<hasura, restored>>
  PROVE  Fades
BY FadesIf DEF DeletionInv, TypeOK

LEMMA SendsNothing ==
  ASSUME DeletionInv, late' = late
  PROVE  Sends
BY DEF DeletionInv, TypeOK, Sends

\* Whatever becomes of a request that is no replacement, no grant appears.
LEMMA SentFades ==
  ASSUME DeletionInv, NEW r \in Requests, r.type # "replace",
         Answered(r) \/ Refused(r) \/ Lost(r), restored' = restored
  PROVE  Fades /\ Sends /\ spent' \in Bounds
<1>1. TypeOK /\ hasura \in [Names -> Entries] /\ late \subseteq Requests /\ spent \in Bounds
  BY DEF DeletionInv, TypeOK
<1>2. hasura' \in {hasura, Applied(hasura, r)}
  BY DEF Answered, Refused, Lost
<1>3. late' \subseteq late \cup {r}
  BY DEF Answered, Refused, Lost
<1>4. spent' \in Bounds
  BY <1>1, Spending DEF Answered, Refused, Lost
<1>5. Sends
  BY <1>1, <1>3 DEF Sends, Fit
<1>6. Fades
  BY <1>1, <1>2, AppliedFades, FadesIf
<1> QED
  BY <1>4, <1>5, <1>6

-----------------------------------------------------------------------------
(* What is preserved by a step of a given shape *)

\* Metadata that only loses grants, over the same database, remembers no more.
LEMMA FadingNames ==
  ASSUME DeletionInv, DatabaseSame, Fades
  PROVE  NamesInv' /\ Quiet
<1>1. \A n \in Names : Standing(n)' => Standing(n) /\ rel'[n] = rel[n]
  BY DEF DatabaseSame, Fades, Standing, Granted
<1>2. Quiet
  BY <1>1 DEF DatabaseSame, Fades, Quiet, Pending
<1>3. \A n \in Names : Numbered(n)'
  BY <1>1 DEF DeletionInv, NamesInv, DatabaseSame, Fades, Numbered
<1>4. \A n \in Names : Forgotten(n)'
  BY DEF DeletionInv, NamesInv, DatabaseSame, Fades, Forgotten, Younger, Pending
<1> QED
  BY <1>2, <1>3, <1>4 DEF NamesInv

\* What may still arrive is as good as it was.
LEMMA LateFits ==
  ASSUME DeletionInv, Sends, UNCHANGED born
  PROVE  LateInv'
BY DEF DeletionInv, LateInv, Sends, Fit

\* A quiet step leaves alone what the workers it does not move rely on.
LEMMA QuietBystander ==
  ASSUME DeletionInv, Quiet, NEW v \in Workers, handler'[v] = handler[v]
  PROVE  StepOf(v)' /\ CopyFit(v)' /\ Cleared(v)'
<1>1. StepOf(v) /\ CopyFit(v) /\ Cleared(v)
  BY DEF DeletionInv, WorkersInv
<1>2. StepOf(v)'
  BY <1>1 DEF StepOf, Quiet
<1>3. CopyFit(v)'
  <2>1. \A n \in Names : handler[v].copy[n].grant \in Relations
    BY GrantNumbers, FramesHave DEF DeletionInv
  <2>2. CASE handler[v].pc = "replace"
    <3>1. \A n \in Names : /\ n \in restored' \/ Younger(handler[v].copy[n].grant, n)' \/ Pending(n)'
                          /\ handler[v].copy[n].grant <= born'[n]
      BY <1>1, <2>1, <2>2 DEF CopyFit, Quiet, Younger
    <3>2. \A n \in Names : Standing(n)' => handler[v].copy[n].grant = rel'[n]
      BY <1>1, <2>2 DEF CopyFit, Quiet
    <3>3. \A n \in Names : n \in outbox' =>
             n \in restored' \/ rel'[n] = 0 \/ handler[v].copy[n].grant # rel'[n]
      <4> SUFFICES ASSUME NEW n \in Names, n \in outbox, n \notin restored', rel'[n] # 0
                   PROVE  handler[v].copy[n].grant # rel'[n]
        BY DEF Quiet
      <4>1. /\ rel'[n] = rel[n] \/ rel'[n] > born[n]
            /\ n \notin restored /\ handler[v].copy[n].grant <= born[n]
            /\ rel[n] = 0 \/ handler[v].copy[n].grant # rel[n]
        BY <1>1, <2>2 DEF CopyFit, Quiet
      <4>2. handler[v].copy[n].grant \in Nat /\ born[n] \in Nat
        BY <2>1, GrantNumbers DEF DeletionInv
      <4> QED
        BY <4>1, <4>2
    <3> QED
      BY <2>2, <3>1, <3>2, <3>3 DEF CopyFit, Younger
  <2>3. CASE handler[v].pc # "replace"
    BY <1>1, <2>3 DEF CopyFit, Quiet
  <2> QED
    BY <2>2, <2>3
<1>4. Cleared(v)'
  <2>1. handler[v].pc = "clear" => handler[v].name \in Names
    BY <1>1 DEF StepOf, Deleting
  <2> QED
    BY <1>1, <2>1 DEF Cleared, Quiet
<1> QED
  BY <1>2, <1>3, <1>4

LEMMA IdleSteps ==
  ASSUME NEW v \in Workers, handler[v].pc = "idle"
  PROVE  StepOf(v) /\ Alone(v) /\ CopyFit(v) /\ Cleared(v)
BY DEF StepOf, Alone, CopyFit, Cleared, Deleting, Syncing

\* A worker that goes on or ends makes nobody else less alone.
LEMMA StillAlone ==
  ASSUME DeletionInv, NEW w \in Workers, Advances(w)
  PROVE  \A v \in Workers : Alone(v)'
<1> SUFFICES ASSUME NEW v \in Workers, handler'[v].pc # "idle", handler'[v].kind \in Exclusive,
                    NEW u \in Workers \ {v}
             PROVE  handler'[u].pc = "idle"
  BY DEF Alone
<1>1. handler[v].pc # "idle" /\ handler[v].kind \in Exclusive
  BY DEF Advances, OthersStay
<1>2. handler[u].pc = "idle"
  BY <1>1 DEF DeletionInv, WorkersInv, Alone
<1> QED
  BY <1>2 DEF Advances, OthersStay

LEMMA QuietAdvance ==
  ASSUME DeletionInv, Quiet, NEW w \in Workers, Advances(w),
         StepOf(w)', CopyFit(w)', Cleared(w)'
  PROVE  WorkersInv'
BY StillAlone, QuietBystander DEF Advances, OthersStay, WorkersInv

\* The holder of the exclusive lock may do more than a quiet step.
LEMMA ExclusiveAdvance ==
  ASSUME DeletionInv, NEW w \in Workers, Advances(w),
         handler[w].pc # "idle", handler[w].kind \in Exclusive,
         StepOf(w)', CopyFit(w)', Cleared(w)'
  PROVE  WorkersInv'
<1>1. \A v \in Workers \ {w} : handler'[v].pc = "idle"
  BY DEF DeletionInv, WorkersInv, Alone, Advances, OthersStay
<1>2. \A v \in Workers \ {w} : StepOf(v)' /\ CopyFit(v)' /\ Cleared(v)'
  BY <1>1 DEF StepOf, CopyFit, Cleared, Deleting, Syncing
<1> QED
  BY <1>2, StillAlone DEF WorkersInv

LEMMA QuietStay ==
  ASSUME DeletionInv, Quiet, handler' = handler
  PROVE  WorkersInv'
<1> SUFFICES ASSUME NEW v \in Workers
             PROVE  StepOf(v)' /\ Alone(v)' /\ CopyFit(v)' /\ Cleared(v)'
  BY DEF WorkersInv
<1>1. Alone(v)'
  BY DEF DeletionInv, WorkersInv, Alone
<1> QED
  BY <1>1, QuietBystander

\* A request admitted to the exclusive lock starts when everybody is idle.
LEMMA ExclusiveStart ==
  ASSUME DeletionInv, NEW w \in Workers, OthersStay(w),
         \A v \in Workers : handler[v].pc = "idle",
         StepOf(w)', CopyFit(w)', Cleared(w)'
  PROVE  WorkersInv'
<1>1. \A v \in Workers \ {w} : handler'[v].pc = "idle"
  BY DEF OthersStay
<1>2. Alone(w)' /\ \A v \in Workers \ {w} : StepOf(v)' /\ Alone(v)' /\ CopyFit(v)' /\ Cleared(v)'
  BY <1>1 DEF StepOf, Alone, CopyFit, Cleared, Deleting, Syncing
<1> QED
  BY <1>2 DEF WorkersInv

-----------------------------------------------------------------------------
(* The invariant, action by action *)

LEMMA InitInv == Init => DeletionInv
<1> SUFFICES ASSUME Init PROVE DeletionInv
  OBVIOUS
<1>1. 0 \in Relations /\ [drops |-> 0, syncs |-> 0, faults |-> 0] \in Bounds
  BY SchemasAssumption DEF Relations, Bounds
<1>2. TypeOK
  BY <1>1, IdleFrame DEF Init, TypeOK
<1>3. WorkersInv
  BY IdleSteps, IdleFrame DEF Init, WorkersInv
<1>4. NamesInv
  BY <1>1, IdleFrame, SchemasAssumption
     DEF Init, NamesInv, Numbered, Forgotten, Younger, Pending
<1>5. LateInv
  BY DEF Init, LateInv
<1> QED
  BY <1>2, <1>3, <1>4, <1>5 DEF DeletionInv

\* A new relation is younger than every grant, baseline or dropped table.
LEMMA NewRelationInv ==
  ASSUME DeletionInv, NEW n \in Names, rel[n] = 0, born[n] < MaxBorn, NewRelation(n),
         n \notin open \/ open' = open \ {n}, open' \subseteq open,
         UNCHANGED <<policy, outbox, hasura, late, deleted, restored>>, ~Pending(n)
  PROVE  /\ NamesInv' /\ Quiet /\ LateInv'
         /\ rel' \in [Names -> Relations] /\ born' \in [Names -> Relations]
<1>1. /\ rel \in [Names -> Relations] /\ born \in [Names -> Relations] /\ MaxBorn \in Nat
      /\ deleted \in [Names -> Relations]
  BY SchemasAssumption DEF DeletionInv, TypeOK
<1>2. born[n] + 1 \in Relations /\ born[n] \in Nat
  BY <1>1 DEF Relations
<1>3. /\ rel' \in [Names -> Relations] /\ born' \in [Names -> Relations]
      /\ rel'[n] = born[n] + 1 /\ born'[n] = born[n] + 1
      /\ \A m \in Names \ {n} : rel'[m] = rel[m] /\ born'[m] = born[m]
  BY <1>1, <1>2 DEF NewRelation
<1>7. \A m \in Names : Standing(m)' => Standing(m) /\ rel'[m] = rel[m]
  <2>1. hasura[n].grant <= born[n] /\ hasura[n].grant \in Nat
    BY <1>1, GrantNumbers DEF DeletionInv, NamesInv, Numbered
  <2>2. ~Standing(n)'
    BY <1>2, <1>3, <2>1 DEF Standing, Granted
  <2> QED
    BY <1>3, <2>2 DEF Standing, Granted
<1>8. \A m \in Names, g \in Relations : g <= born[m] => g <= born'[m]
  BY <1>1, <1>2, <1>3 DEF Relations
<1>4. \A m \in Names : Numbered(m)'
  <2> TAKE m \in Names
  <2>1. Numbered(m) /\ deleted[m] \in Nat /\ hasura[m].grant \in Relations
    BY <1>1, GrantNumbers DEF DeletionInv, NamesInv, Relations
  <2>2. hasura'[m].grant <= born'[m] /\ (m \in outbox' => ~Standing(m)')
    BY <1>7, <1>8, <2>1 DEF Numbered
  <2>3. CASE m = n
    BY <1>2, <1>3, <2>1, <2>2, <2>3 DEF Numbered
  <2>4. CASE m # n
    BY <1>3, <2>1, <2>2, <2>4 DEF Numbered
  <2> QED
    BY <2>3, <2>4
<1>5. \A m \in Names : Pending(m) => Pending(m)'
  BY <1>3 DEF Pending
<1>6. \A m \in Names : Forgotten(m)'
  BY <1>5 DEF DeletionInv, NamesInv, Forgotten, Younger
<1>9. LateInv'
  <2>1. ASSUME NEW r \in late, r.type = "replace"
        PROVE  \A m \in Names : r.copy[m].grant \in Relations
    BY <2>1, GrantNumbers DEF DeletionInv, TypeOK, Requests
  <2> QED
    BY <1>8, <2>1 DEF DeletionInv, LateInv, Fit
<1>10. \A m \in Names : rel'[m] \in {0, rel[m]} \/ rel'[m] > born[m]
  BY <1>2, <1>3
<1> QED
  BY <1>3, <1>4, <1>5, <1>6, <1>7, <1>8, <1>9, <1>10 DEF NamesInv, Quiet

LEMMA CreateTableInv ==
  ASSUME DeletionInv, NEW w \in Workers, NEW n \in Names, CreateTable(w, n)
  PROVE  DeletionInv'
<1>1. /\ Start(w, "create", n, "track") /\ MayCreate(n) /\ NewRelation(n)
      /\ UNCHANGED <<open, policy, outbox, hasura, late, deleted, restored, spent>>
  BY DEF CreateTable
<1>2. /\ handler' \in [Workers -> Frames] /\ OthersStay(w)
      /\ handler'[w].pc = "track" /\ handler'[w].kind = "create" /\ handler'[w].name = n
  BY <1>1, StartEnters DEF DeletionInv, Steps
<1>3. /\ NamesInv' /\ Quiet /\ LateInv'
      /\ rel' \in [Names -> Relations] /\ born' \in [Names -> Relations]
  BY <1>1, NewRelationInv DEF MayCreate, ReuseGuard, Pending
<1>4. TypeOK'
  BY <1>1, <1>2, <1>3 DEF DeletionInv, TypeOK
<1>5. StepOf(w)' /\ CopyFit(w)' /\ Cleared(w)'
  BY <1>2 DEF StepOf, CopyFit, Cleared, Deleting, Syncing
<1>6. \A v \in Workers : Alone(v)'
  <2>1. Admitted("create", SchemaOf[n])
    BY <1>1 DEF Start
  <2>2. \A v \in Workers : handler[v].pc # "idle" => handler[v].kind \notin Exclusive
    BY <2>1, SharedAdmission
  <2> QED
    BY <1>2, <2>2 DEF Alone, OthersStay, Exclusive
<1>7. WorkersInv'
  BY <1>2, <1>3, <1>5, <1>6, QuietBystander DEF WorkersInv, OthersStay
<1> QED
  BY <1>3, <1>4, <1>7 DEF DeletionInv

\* A step that sends one request and moves no worker.
LEMMA RequestOnly ==
  ASSUME DeletionInv, NEW r \in Requests, r.type # "replace", Answered(r) \/ Lost(r),
         DatabaseSame, restored' = restored, handler' = handler
  PROVE  DeletionInv'
<1>1. Fades /\ Sends /\ spent' \in Bounds
  BY SentFades
<1>2. NamesInv' /\ Quiet /\ LateInv'
  BY <1>1, FadingNames, LateFits DEF DatabaseSame
<1>3. TypeOK'
  BY <1>1 DEF DeletionInv, TypeOK, DatabaseSame, Fades, Sends
<1> QED
  BY <1>2, <1>3, QuietStay DEF DeletionInv

LEMMA TrackTableInv ==
  ASSUME DeletionInv, NEW w \in Workers, NEW n \in Names, TrackTable(w, n)
  PROVE  DeletionInv'
BY RequestOnly, RequestType DEF TrackTable, DatabaseSame

LEMMA ConfigureRealtimeInv ==
  ASSUME DeletionInv, NEW w \in Workers, NEW n \in Names, ConfigureRealtime(w, n)
  PROVE  DeletionInv'
BY RequestOnly, RequestType DEF ConfigureRealtime, DatabaseSame

\* The grants that a late replacement makes are on record.
LEMMA LateArrivesInv ==
  ASSUME DeletionInv, NEW r \in late, LateArrives(r)
  PROVE  DeletionInv'
<1>1. /\ r \in Requests /\ DatabaseSame /\ handler' = handler /\ spent' = spent
      /\ late' = late \ {r} /\ hasura' = Applied(hasura, r)
      /\ restored' = restored \cup {n \in Names : hasura'[n].grant \notin {0, hasura[n].grant}}
  BY DEF DeletionInv, TypeOK, LateArrives, DatabaseSame
<1>2. Sends
  BY <1>1 DEF DeletionInv, TypeOK, Sends
<1>3. hasura' \in [Names -> Entries] /\ \A n \in Names : hasura'[n].grant <= born[n]
  <2>1. CASE r.type = "replace"
    <3>1. hasura' = r.copy
      BY <1>1, <2>1 DEF Applied
    <3> QED
      BY <1>1, <2>1, <3>1 DEF DeletionInv, LateInv, Fit, Requests
  <2>2. CASE r.type # "replace"
    <3>1. /\ hasura' \in [Names -> Entries]
          /\ \A n \in Names : hasura'[n].grant \in {0, hasura[n].grant}
      BY <1>1, <2>2, AppliedFades DEF DeletionInv
    <3>2. \A n \in Names : hasura[n].grant <= born[n] /\ 0 <= born[n]
      BY GrantNumbers DEF DeletionInv, NamesInv, Numbered
    <3> QED
      BY <3>1, <3>2
  <2> QED
    BY <2>1, <2>2
<1>4. Fades
  BY <1>1, <1>3 DEF DeletionInv, TypeOK, Fades
<1>5. NamesInv' /\ Quiet /\ LateInv'
  BY <1>1, <1>2, <1>4, FadingNames, LateFits DEF DatabaseSame
<1>6. TypeOK'
  BY <1>1, <1>2, <1>4 DEF DeletionInv, TypeOK, DatabaseSame, Fades, Sends
<1> QED
  BY <1>1, <1>5, <1>6, QuietStay DEF DeletionInv

LEMMA ImportSqlInv ==
  ASSUME DeletionInv, NEW w \in Workers, NEW n \in Names, ImportSql(w, n)
  PROVE  DeletionInv'
<1>1. /\ UNCHANGED <<open, policy, outbox, hasura, late, handler, deleted, restored, spent>>
      /\ rel \in [Names -> Relations] /\ 0 \in Relations
  BY SchemasAssumption DEF ImportSql, DeletionInv, TypeOK, Relations
<1>2. \A v \in Workers : handler[v].pc = "idle"
  BY ExclusiveAdmission DEF ImportSql
<1>3. WorkersInv'
  BY <1>1, <1>2 DEF WorkersInv, StepOf, Alone, CopyFit, Cleared, Deleting, Syncing
<1>4. CASE rel[n] # 0 /\ rel' = [rel EXCEPT ![n] = 0] /\ UNCHANGED born
  <2>1. rel' \in [Names -> Relations] /\ \A m \in Names : rel'[m] \in {0, rel[m]}
    BY <1>1, <1>4
  <2>2. \A m \in Names : Numbered(m)'
    <3>1. \A m \in Names : Standing(m)' => Standing(m)
      BY <1>1, <2>1 DEF Standing, Granted
    <3> QED
      BY <1>1, <1>4, <2>1, <3>1 DEF DeletionInv, NamesInv, Numbered
  <2>3. \A m \in Names : Forgotten(m)'
    BY <1>1, <2>1 DEF DeletionInv, NamesInv, Forgotten, Younger, Pending
  <2>4. TypeOK' /\ LateInv'
    BY <1>1, <1>4, <2>1 DEF DeletionInv, TypeOK, LateInv, Fit
  <2> QED
    BY <1>3, <2>2, <2>3, <2>4 DEF DeletionInv, NamesInv
<1>5. CASE MayCreate(n) /\ NewRelation(n)
  <2>1. /\ NamesInv' /\ LateInv'
        /\ rel' \in [Names -> Relations] /\ born' \in [Names -> Relations]
    BY <1>1, <1>5, NewRelationInv DEF MayCreate, ReuseGuard, Pending
  <2>2. TypeOK'
    BY <1>1, <2>1 DEF DeletionInv, TypeOK
  <2> QED
    BY <1>3, <2>1, <2>2 DEF DeletionInv
<1> QED
  BY <1>4, <1>5 DEF ImportSql

LEMMA OpenCreateInv ==
  ASSUME DeletionInv, NEW n \in Names, OpenCreate(n)
  PROVE  DeletionInv'
<1>1. /\ UNCHANGED <<rel, born, policy, outbox, hasura, late, handler, deleted, restored, spent>>
      /\ open' = open \cup {n} /\ rel[n] = 0 /\ n \notin outbox /\ born[n] < MaxBorn
  BY DEF OpenCreate, MayCreate, ReuseGuard
<1>2. NamesInv' /\ Quiet
  BY <1>1 DEF DeletionInv, NamesInv, Quiet, Numbered, Forgotten, Younger, Pending,
              Standing, Granted
<1>3. TypeOK' /\ LateInv'
  BY <1>1 DEF DeletionInv, TypeOK, LateInv, Fit
<1> QED
  BY <1>1, <1>2, <1>3, QuietStay DEF DeletionInv

LEMMA CloseCreateInv ==
  ASSUME DeletionInv, NEW n \in Names, CloseCreate(n)
  PROVE  DeletionInv'
<1>1. /\ UNCHANGED <<policy, outbox, hasura, late, handler, deleted, restored, spent>>
      /\ open' = open \ {n} /\ rel[n] = 0 /\ born[n] < MaxBorn /\ ~Pending(n)
  BY DEF CloseCreate, DeletionInv, NamesInv, Numbered, Pending
<1>2. /\ NamesInv' /\ Quiet /\ LateInv'
      /\ rel' \in [Names -> Relations] /\ born' \in [Names -> Relations]
  <2>1. CASE NewRelation(n)
    BY <1>1, <2>1, NewRelationInv
  <2>2. CASE UNCHANGED <<rel, born>>
    BY <1>1, <2>2 DEF DeletionInv, TypeOK, NamesInv, Quiet, Numbered, Forgotten, Younger, Pending,
                      Standing, Granted, LateInv, Fit
  <2> QED
    BY <2>1, <2>2 DEF CloseCreate
<1>3. TypeOK'
  BY <1>1, <1>2 DEF DeletionInv, TypeOK
<1> QED
  BY <1>1, <1>2, <1>3, QuietStay DEF DeletionInv

\* A policy is granted under the shared lock: nobody holds a copy of the metadata
\* and nobody is about to clear a deletion.
LEMMA GrantPolicyInv ==
  ASSUME DeletionInv, NEW w \in Workers, NEW n \in Names, GrantPolicy(w, n)
  PROVE  DeletionInv'
<1> DEFINE e == [tracked |-> TRUE, grant |-> rel[n]]
<1>1. /\ UNCHANGED <<rel, born, open, outbox, late, handler, deleted, spent>>
      /\ restored' = restored \ {n}
      /\ hasura' = [hasura EXCEPT ![n] = e] /\ policy' = [policy EXCEPT ![n] = rel[n]]
      /\ rel[n] # 0 /\ Admitted("policy", SchemaOf[n])
  BY DEF GrantPolicy
<1>2. /\ hasura \in [Names -> Entries] /\ policy \in [Names -> Relations] /\ rel[n] \in Relations
  BY DEF DeletionInv, TypeOK
<1>3. e \in Entries /\ e.grant = rel[n]
  BY <1>2 DEF Entries
<1> HIDE DEF e
<1>4. /\ hasura' \in [Names -> Entries] /\ policy' \in [Names -> Relations]
      /\ hasura'[n].grant = rel[n] /\ policy'[n] = rel[n]
      /\ \A m \in Names \ {n} : hasura'[m] = hasura[m] /\ policy'[m] = policy[m]
  BY <1>1, <1>2, <1>3
<1>5. TypeOK' /\ LateInv'
  BY <1>1, <1>4 DEF DeletionInv, TypeOK, LateInv, Fit
<1>6. NamesInv'
  <2> SUFFICES ASSUME NEW m \in Names PROVE Numbered(m)' /\ Forgotten(m)'
    BY DEF NamesInv
  <2>1. Numbered(m) /\ Forgotten(m)
    BY DEF DeletionInv, NamesInv
  <2>2. n \notin outbox
    BY <1>1, LockModes DEF Admitted, NoPendingDeletion, Scope
  <2>3. CASE m = n
    <3>1. rel[n] = born[n] /\ rel[n] > deleted[n] /\ born[n] \in Nat
      BY <1>1, <2>1, <2>3, GrantNumbers DEF DeletionInv, Numbered
    <3> QED
      BY <1>1, <1>4, <2>1, <2>2, <2>3, <3>1 DEF Numbered, Forgotten, Younger
  <2>4. CASE m # n
    BY <1>1, <1>4, <2>1, <2>4 DEF Numbered, Forgotten, Younger, Pending, Standing, Granted
  <2> QED
    BY <2>3, <2>4
<1>7. WorkersInv'
  <2> SUFFICES ASSUME NEW v \in Workers
               PROVE  StepOf(v)' /\ Alone(v)' /\ CopyFit(v)' /\ Cleared(v)'
    BY DEF WorkersInv
  <2>1. StepOf(v)' /\ Alone(v)'
    BY <1>1 DEF DeletionInv, WorkersInv, StepOf, Alone
  <2>2. handler'[v].pc = "idle" \/ (handler'[v].pc = "track" /\ handler'[v].kind # "sync")
    BY <1>1, SharedAdmission DEF Exclusive
  <2> QED
    BY <2>1, <2>2 DEF CopyFit, Cleared
<1> QED
  BY <1>5, <1>6, <1>7 DEF DeletionInv

\* Dropping the relation under a name leaves the name pending.
LEMMA DropTableInv ==
  ASSUME DeletionInv, NEW w \in Workers, NEW n \in Names, DropTable(w, n)
  PROVE  DeletionInv'
<1> DEFINE gone == IF rel[n] = 0 THEN deleted[n] ELSE rel[n]
<1>1. /\ spent.drops < MaxDrops /\ Spend("drops") /\ Start(w, "drop", n, "check")
      /\ UNCHANGED <<born, open, hasura, late, restored>> /\ outbox' = outbox \cup {n}
      /\ rel' = [rel EXCEPT ![n] = 0] /\ policy' = [policy EXCEPT ![n] = 0]
      /\ deleted' = [deleted EXCEPT ![n] = gone]
  BY DEF DropTable
<1>2. /\ rel \in [Names -> Relations] /\ policy \in [Names -> Relations]
      /\ deleted \in [Names -> Relations] /\ 0 \in Relations /\ born \in [Names -> Relations]
  BY SchemasAssumption DEF DeletionInv, TypeOK, Relations
<1>3. gone \in Relations /\ gone <= born[n] /\ (rel[n] = 0 => gone = deleted[n])
  BY <1>2 DEF DeletionInv, NamesInv, Numbered, Relations
<1> HIDE DEF gone
<1>4. /\ rel' \in [Names -> Relations] /\ policy' \in [Names -> Relations]
      /\ deleted' \in [Names -> Relations]
      /\ rel'[n] = 0 /\ policy'[n] = 0 /\ deleted'[n] = gone
      /\ \A m \in Names \ {n} : rel'[m] = rel[m] /\ policy'[m] = policy[m] /\ deleted'[m] = deleted[m]
  BY <1>1, <1>2, <1>3
<1>5. /\ handler' \in [Workers -> Frames] /\ OthersStay(w)
      /\ handler'[w].pc = "check" /\ handler'[w].kind = "drop" /\ handler'[w].name = n
  BY <1>1, StartEnters DEF DeletionInv, Steps
<1>6. TypeOK'
  BY <1>1, <1>4, <1>5, Spending DEF DeletionInv, TypeOK
<1>7. NamesInv'
  <2> SUFFICES ASSUME NEW m \in Names PROVE Numbered(m)' /\ Forgotten(m)'
    BY DEF NamesInv
  <2>1. Numbered(m) /\ Forgotten(m)
    BY DEF DeletionInv, NamesInv
  <2>2. CASE m = n
    <3>1. Numbered(m)'
      BY <1>1, <1>3, <1>4, <2>1, <2>2 DEF Numbered, Standing, Granted
    <3>2. CASE n \in open
      BY <1>1, <1>3, <1>4, <2>1, <2>2, <3>1, <3>2 DEF Numbered, Forgotten, Younger, Pending
    <3>3. CASE n \notin open
      BY <1>1, <1>4, <2>2, <3>1, <3>3 DEF Forgotten, Younger, Pending
    <3> QED
      BY <3>1, <3>2, <3>3
  <2>3. CASE m # n
    BY <1>1, <1>4, <2>1, <2>3
       DEF Numbered, Forgotten, Younger, Pending, Standing, Granted
  <2> QED
    BY <2>2, <2>3
<1>8. \A v \in Workers : handler[v].pc = "idle"
  BY <1>1, ExclusiveAdmission DEF Start, Exclusive
<1>9. StepOf(w)' /\ CopyFit(w)' /\ Cleared(w)'
  BY <1>1, <1>5 DEF StepOf, CopyFit, Cleared, Deleting, Syncing
<1>10. LateInv'
  BY <1>1 DEF DeletionInv, LateInv, Fit
<1> QED
  BY <1>5, <1>6, <1>7, <1>8, <1>9, <1>10, ExclusiveStart DEF DeletionInv

LEMMA RecoverDeletionInv ==
  ASSUME DeletionInv, NEW w \in Workers, NEW n \in Names, RecoverDeletion(w, n)
  PROVE  DeletionInv'
<1>1. /\ Start(w, "recover", n, "check") /\ DatabaseSame /\ n \in outbox
      /\ UNCHANGED <<hasura, late, restored, spent>>
  BY DEF RecoverDeletion, DatabaseSame
<1>2. /\ handler' \in [Workers -> Frames] /\ OthersStay(w)
      /\ handler'[w].pc = "check" /\ handler'[w].kind = "recover" /\ handler'[w].name = n
  BY <1>1, StartEnters DEF DeletionInv, Steps
<1>3. TypeOK'
  BY <1>1, <1>2 DEF DeletionInv, TypeOK, DatabaseSame
<1>4. NamesInv' /\ LateInv'
  BY <1>1, StillFades, FadingNames, SendsNothing, LateFits DEF DatabaseSame
<1>5. \A v \in Workers : handler[v].pc = "idle"
  BY <1>1, ExclusiveAdmission DEF Start, Exclusive
<1>6. StepOf(w)' /\ CopyFit(w)' /\ Cleared(w)'
  BY <1>1, <1>2 DEF StepOf, CopyFit, Cleared, Deleting, Syncing, DatabaseSame
<1> QED
  BY <1>2, <1>3, <1>4, <1>5, <1>6, ExclusiveStart DEF DeletionInv

LEMMA SyncSchemaInv ==
  ASSUME DeletionInv, NEW w \in Workers, NEW n \in Names, SyncSchema(w, n)
  PROVE  DeletionInv'
<1> DEFINE f == [pc |-> "track", kind |-> "sync", schema |-> SchemaOf[n], name |-> "none",
                 listed |-> Tables(SchemaOf[n]), copy |-> Idle.copy]
<1>1. /\ spent.syncs < MaxSyncs /\ Spend("syncs") /\ Admitted("sync", SchemaOf[n])
      /\ handler' = [handler EXCEPT ![w] = f] /\ DatabaseSame
      /\ UNCHANGED <<hasura, late, restored>>
  BY DEF SyncSchema, DatabaseSame
<1>2. /\ f \in Frames /\ f.pc = "track" /\ f.kind = "sync"
      /\ f.schema = SchemaOf[n] /\ f.listed = Tables(SchemaOf[n])
  BY IdleFrame, SchemasAssumption DEF Frames, Steps, Tables
<1> HIDE DEF f
<1>3. /\ handler' \in [Workers -> Frames] /\ OthersStay(w)
      /\ handler'[w] = f
  BY <1>1, <1>2 DEF DeletionInv, TypeOK, OthersStay
<1>4. TypeOK'
  BY <1>1, <1>3, Spending DEF DeletionInv, TypeOK, DatabaseSame
<1>5. NamesInv' /\ LateInv'
  BY <1>1, StillFades, FadingNames, SendsNothing, LateFits DEF DatabaseSame
<1>6. \A v \in Workers : handler[v].pc = "idle"
  BY <1>1, ExclusiveAdmission DEF Exclusive
<1>7. CopyFit(w)'
  <2>1. \A m \in Names : SchemaOf[m] = f.schema /\ Standing(m)' => m \in f.listed
    BY <1>1, <1>2 DEF Tables, Standing, Granted, DatabaseSame
  <2> QED
    BY <1>2, <1>3, <2>1 DEF CopyFit
<1>8. StepOf(w)' /\ Cleared(w)'
  BY <1>2, <1>3 DEF StepOf, Cleared, Deleting, Syncing
<1> QED
  BY <1>3, <1>4, <1>5, <1>6, <1>7, <1>8, ExclusiveStart DEF DeletionInv

\* A worker goes on over the same database while no grant appears.
LEMMA FadingAdvance ==
  ASSUME DeletionInv, NEW w \in Workers, DatabaseSame, Advances(w),
         handler' \in [Workers -> Frames], Fades, Sends, spent' \in Bounds,
         StepOf(w)', CopyFit(w)', Cleared(w)'
  PROVE  DeletionInv'
<1>1. NamesInv' /\ Quiet /\ LateInv'
  BY FadingNames, LateFits DEF DatabaseSame
<1>2. TypeOK'
  BY DEF DeletionInv, TypeOK, DatabaseSame, Fades, Sends
<1> QED
  BY <1>1, <1>2, QuietAdvance DEF DeletionInv

\* A worker ends over the same database while no grant appears.
LEMMA FadingEnd ==
  ASSUME DeletionInv, NEW w \in Workers, DatabaseSame, Finish(w), Fades, Sends,
         spent' \in Bounds
  PROVE  DeletionInv'
<1>1. handler' \in [Workers -> Frames] /\ Advances(w) /\ handler'[w].pc = "idle"
  BY FinishEnds DEF DeletionInv
<1>2. StepOf(w)' /\ CopyFit(w)' /\ Cleared(w)'
  BY <1>1 DEF StepOf, CopyFit, Cleared, Deleting, Syncing
<1> QED
  BY <1>1, <1>2, FadingAdvance

\* The request of a worker that is not idle.
LEMMA AtWork ==
  ASSUME DeletionInv, NEW w \in Workers
  PROVE  /\ StepOf(w) /\ CopyFit(w) /\ Cleared(w) /\ TypeOK
         /\ hasura \in [Names -> Entries] /\ late \subseteq Requests /\ spent \in Bounds
         /\ handler \in [Workers -> Frames]
BY DEF DeletionInv, WorkersInv, TypeOK

LEMMA TrackCreatedInv ==
  ASSUME DeletionInv, NEW w \in Workers, TrackCreated(w)
  PROVE  DeletionInv'
<1>1. handler[w].name \in Names
  BY AtWork DEF TrackCreated, StepOf
<1>2. Fades /\ Sends /\ spent' \in Bounds
  BY <1>1, RequestType, SentFades DEF TrackCreated
<1> QED
  BY <1>2, FadingEnd DEF TrackCreated, DatabaseSame

\* What a handler has sent before it dies is fit to arrive.
LEMMA CrashInv ==
  ASSUME DeletionInv, NEW w \in Workers, Crash(w)
  PROVE  DeletionInv'
<1>1. /\ DatabaseSame /\ Finish(w) /\ UNCHANGED <<hasura, restored>>
      /\ late' \in {late} \cup {late \cup {r} : r \in UnderWay(w)}
  BY DEF Crash, DatabaseSame
<1>2. spent' \in Bounds
  BY AtWork, Spending DEF Crash
<1>3. \A r \in UnderWay(w) : r \in Requests /\ Fit(r)
  <2>1. /\ handler[w].pc \in {"untrack"} => handler[w].name \in Names
        /\ handler[w].pc = "track" => \/ handler[w].kind = "sync" /\ handler[w].listed \subseteq Names
                                      \/ handler[w].kind = "create" /\ handler[w].name \in Names
        /\ handler[w].copy \in [Names -> Entries]
        /\ handler[w].pc = "replace" => \A n \in Names : handler[w].copy[n].grant <= born[n]
    BY AtWork, FramesHave DEF StepOf, CopyFit, Deleting
  <2>2. CASE handler[w].pc = "untrack"
    BY <2>1, <2>2, RequestType DEF UnderWay, Fit
  <2>3. CASE handler[w].pc = "track"
    <3>1. \A r \in UnderWay(w) : \E n \in Names : r = Request("track", n)
      BY <2>1, <2>3 DEF UnderWay
    <3> QED
      BY <3>1, RequestType DEF Fit
  <2>4. CASE handler[w].pc = "inconsistent"
    BY <2>4, RequestType DEF UnderWay, Fit
  <2>5. CASE handler[w].pc = "replace"
    BY <2>1, <2>5, RequestType DEF UnderWay, Fit
  <2>6. CASE handler[w].pc \notin {"untrack", "track", "inconsistent", "replace"}
    BY <2>6 DEF UnderWay
  <2> QED
    BY <2>2, <2>3, <2>4, <2>5, <2>6
<1>4. Sends
  BY <1>1, <1>3, AtWork DEF Sends
<1> QED
  BY <1>1, <1>2, <1>4, StillFades, FadingEnd

\* Moving from step to step of a deletion.
LEMMA DeletionGoesOn ==
  ASSUME DeletionInv, NEW w \in Workers, handler[w].pc \in Deleting, DatabaseSame,
         NEW pc \in {"tracked", "untrack", "recheck", "clear"}, Goto(w, pc),
         Fades, Sends, spent' \in Bounds,
         pc = "clear" => hasura'[handler[w].name].grant = 0
  PROVE  DeletionInv'
<1>1. /\ handler' \in [Workers -> Frames] /\ Advances(w) /\ handler'[w].pc = pc
      /\ handler'[w].kind = handler[w].kind /\ handler'[w].name = handler[w].name
  BY GotoMoves, AtWork DEF Deleting, Steps
<1>2. StepOf(w)' /\ CopyFit(w)' /\ Cleared(w)'
  BY <1>1, AtWork DEF StepOf, CopyFit, Cleared, Deleting, Syncing, DatabaseSame
<1> QED
  BY <1>1, <1>2, FadingAdvance

LEMMA CheckRelationInv ==
  ASSUME DeletionInv, NEW w \in Workers, CheckRelation(w)
  PROVE  DeletionInv'
<1>1. /\ DatabaseSame /\ handler[w].pc \in Deleting
      /\ UNCHANGED <<hasura, late, restored, spent>>
  BY DEF CheckRelation, DatabaseSame, Deleting
<1>4. Fades /\ Sends /\ spent' \in Bounds
  BY <1>1, AtWork, StillFades, SendsNothing
<1>2. CASE Goto(w, "tracked")
  BY <1>1, <1>2, <1>4, DeletionGoesOn
<1>3. CASE Finish(w)
  BY <1>1, <1>3, <1>4, FadingEnd
<1> QED
  BY <1>2, <1>3 DEF CheckRelation

LEMMA UntrackedHasNoGrant ==
  ASSUME NEW e \in Entries, ~e.tracked
  PROVE  e.grant = 0
BY DEF Entries

LEMMA IsTrackedInv ==
  ASSUME DeletionInv, NEW w \in Workers, IsTracked(w)
  PROVE  DeletionInv'
<1>1. /\ DatabaseSame /\ UNCHANGED <<hasura, late, restored>> /\ handler[w].pc \in Deleting
      /\ handler[w].name \in Names
  BY AtWork DEF IsTracked, DatabaseSame, Deleting, StepOf
<1>2. Fades /\ Sends /\ spent' \in Bounds
  BY <1>1, AtWork, Spending, StillFades, SendsNothing DEF IsTracked
<1>3. CASE ~hasura[handler[w].name].tracked /\ Goto(w, "clear")
  <2>1. hasura[handler[w].name].grant = 0
    BY <1>1, <1>3, AtWork, UntrackedHasNoGrant
  <2> QED
    BY <1>1, <1>2, <1>3, <2>1, DeletionGoesOn
<1>4. CASE Goto(w, "untrack")
  BY <1>1, <1>2, <1>4, DeletionGoesOn
<1>5. CASE Finish(w)
  BY <1>1, <1>2, <1>5, FadingEnd
<1> QED
  BY <1>3, <1>4, <1>5 DEF IsTracked

LEMMA UntrackTableInv ==
  ASSUME DeletionInv, NEW w \in Workers, UntrackTable(w)
  PROVE  DeletionInv'
<1> DEFINE r == Request("untrack", handler[w].name)
<1>1. /\ DatabaseSame /\ restored' = restored
      /\ handler[w].pc \in Deleting /\ handler[w].name \in Names
  BY AtWork DEF UntrackTable, DatabaseSame, Deleting, StepOf
<1>2. r \in Requests /\ r.name = handler[w].name /\ r.type = "untrack"
  BY <1>1, RequestType
<1>3. \/ Answered(r) /\ Goto(w, "clear")
      \/ (Refused(r) \/ Lost(r)) /\ Goto(w, "recheck")
  BY DEF UntrackTable
<1> HIDE DEF r
<1>4. Fades /\ Sends /\ spent' \in Bounds
  BY <1>1, <1>2, <1>3, SentFades
<1>5. CASE Answered(r) /\ Goto(w, "clear")
  <2>1. hasura'[handler[w].name].grant = 0
    BY <1>2, <1>5, AtWork, AppliedFades DEF Answered
  <2> QED
    BY <1>1, <1>4, <1>5, <2>1, DeletionGoesOn
<1>6. CASE Goto(w, "recheck")
  BY <1>1, <1>4, <1>6, DeletionGoesOn
<1> QED
  BY <1>3, <1>5, <1>6

\* The row of a deletion goes when the metadata has no grant left for the name.
LEMMA ClearOutboxInv ==
  ASSUME DeletionInv, NEW w \in Workers, ClearOutbox(w)
  PROVE  DeletionInv'
<1>1. /\ UNCHANGED <<rel, born, open, policy, hasura, late, deleted, restored>> /\ Finish(w)
      /\ handler[w].pc = "clear" /\ outbox' \in {outbox, outbox \ {handler[w].name}}
  BY DEF ClearOutbox
<1>2. spent' \in Bounds
  BY AtWork, Spending DEF ClearOutbox
<1>3. handler' \in [Workers -> Frames] /\ Advances(w) /\ handler'[w].pc = "idle"
  BY <1>1, FinishEnds, AtWork
<1>4. /\ handler[w].kind \in Exclusive /\ handler[w].name \in Names
      /\ handler[w].name \in restored \/ hasura[handler[w].name].grant = 0
  BY <1>1, AtWork DEF StepOf, Cleared, Deleting, Exclusive
<1>5. TypeOK' /\ LateInv'
  BY <1>1, <1>2, <1>3 DEF DeletionInv, TypeOK, LateInv, Fit
<1>6. NamesInv'
  BY <1>1, <1>4 DEF DeletionInv, NamesInv, Numbered, Forgotten, Younger, Pending,
                    Standing, Granted
<1>7. StepOf(w)' /\ CopyFit(w)' /\ Cleared(w)'
  BY <1>3 DEF StepOf, CopyFit, Cleared, Deleting, Syncing
<1>8. WorkersInv'
  BY <1>1, <1>3, <1>4, <1>7, ExclusiveAdvance
<1> QED
  BY <1>5, <1>6, <1>8 DEF DeletionInv

LEMMA TrackingFades ==
  ASSUME DeletionInv, NEW some, Tracking(some)
  PROVE  /\ hasura' \in [Names -> Entries]
         /\ \A n \in Names : hasura'[n].grant \in {0, hasura[n].grant}
<1>1. \A n \in Names : hasura[n] \in Entries
  BY DEF DeletionInv, TypeOK
<1>2. \A n \in Names : hasura'[n] \in {hasura[n], Tracked(hasura[n])}
  BY DEF Tracking
<1>3. \A n \in Names : hasura'[n] \in Entries /\ hasura'[n].grant = hasura[n].grant
  BY <1>1, <1>2, TrackedEntry
<1>4. hasura' = [n \in Names |-> hasura'[n]]
  BY DEF Tracking
<1> QED
  BY <1>3, <1>4

LEMMA TrackListedInv ==
  ASSUME DeletionInv, NEW w \in Workers, TrackListed(w)
  PROVE  DeletionInv'
<1>1. /\ DatabaseSame /\ restored' = restored
      /\ handler[w].pc = "track" /\ handler[w].kind = "sync"
      /\ Goto(w, "inconsistent")
  BY DEF TrackListed, DatabaseSame
<1>2. spent' \in Bounds
  BY AtWork, Spending DEF TrackListed
<1>3. PICK some : Tracking(some)
  BY DEF TrackListed
<1>4. Fades
  BY <1>1, <1>3, TrackingFades, FadesIf
<1>5. Sends
  <2>1. late' = late \/ \E n \in Names : late' = late \cup {Request("track", n)}
    BY AtWork, FramesHave DEF TrackListed
  <2> QED
    BY <2>1, AtWork, RequestType DEF Sends, Fit
<1>6. /\ handler' \in [Workers -> Frames] /\ Advances(w) /\ handler'[w].pc = "inconsistent"
      /\ handler'[w].kind = "sync" /\ handler'[w].listed = handler[w].listed
      /\ handler'[w].schema = handler[w].schema
  BY <1>1, GotoMoves, AtWork DEF Steps
<1>7. StepOf(w)' /\ Cleared(w)'
  BY <1>6 DEF StepOf, Cleared, Deleting, Syncing
<1>8. CopyFit(w)'
  BY <1>1, <1>4, <1>6, AtWork, FadingNames DEF CopyFit, Quiet
<1> QED
  BY <1>1, <1>2, <1>4, <1>5, <1>6, <1>7, <1>8, FadingAdvance

LEMMA DropInconsistentInv ==
  ASSUME DeletionInv, NEW w \in Workers, DropInconsistent(w)
  PROVE  DeletionInv'
<1>1. DatabaseSame /\ restored' = restored /\ handler[w].pc = "inconsistent"
  BY DEF DropInconsistent, DatabaseSame
<1>2. Fades /\ Sends /\ spent' \in Bounds
  BY <1>1, RequestType, SentFades DEF DropInconsistent
<1>3. CASE Goto(w, "status")
  <2>1. /\ handler' \in [Workers -> Frames] /\ Advances(w) /\ handler'[w].pc = "status"
        /\ handler'[w].kind = handler[w].kind /\ handler'[w].listed = handler[w].listed
        /\ handler'[w].schema = handler[w].schema
    BY <1>1, <1>3, GotoMoves, AtWork DEF Steps
  <2>2. StepOf(w)' /\ Cleared(w)'
    BY <1>1, <2>1, AtWork DEF StepOf, Cleared, Deleting, Syncing
  <2>3. CopyFit(w)'
    BY <1>1, <1>2, <2>1, AtWork, FadingNames DEF CopyFit, Quiet, StepOf, Syncing
  <2> QED
    BY <1>1, <1>2, <2>1, <2>2, <2>3, FadingAdvance
<1>4. CASE Finish(w)
  BY <1>1, <1>2, <1>4, FadingEnd
<1> QED
  BY <1>3, <1>4 DEF DropInconsistent

\* The stale tables are of the schema being synchronised.
LEMMA ReadStatusInv ==
  ASSUME DeletionInv, NEW w \in Workers, ReadStatus(w)
  PROVE  DeletionInv'
<1> DEFINE h == handler[w]
           f == [pc |-> "export", kind |-> h.kind, schema |-> h.schema, name |-> h.name,
                 listed |-> Names \ Stale(w, hasura), copy |-> h.copy]
<1>1. DatabaseSame /\ UNCHANGED <<hasura, late, restored, spent>> /\ h.pc = "status"
  BY DEF ReadStatus, DatabaseSame
<1>5. Fades /\ Sends /\ spent' \in Bounds
  BY <1>1, AtWork, StillFades, SendsNothing
<1>2. h \in Frames /\ handler \in [Workers -> Frames] /\ h.kind = "sync"
  BY <1>1, AtWork DEF StepOf, Syncing
<1>3. CASE Finish(w)
  BY <1>1, <1>3, <1>5, FadingEnd
<1>4. CASE handler' = [handler EXCEPT ![w] = f]
  <2>1. /\ f \in Frames /\ f.pc = "export" /\ f.kind = "sync" /\ f.name = h.name
        /\ f.schema = h.schema /\ f.listed = Names \ Stale(w, hasura)
    BY <1>2 DEF Frames, Steps
  <2> HIDE DEF f
  <2>2. handler' \in [Workers -> Frames] /\ OthersStay(w) /\ handler'[w] = f
    BY <1>2, <1>4, <2>1 DEF OthersStay
  <2>3. Advances(w)
    BY <1>1, <1>2, <2>1, <2>2 DEF Advances
  <2>4. StepOf(w)' /\ Cleared(w)'
    BY <2>1, <2>2 DEF StepOf, Cleared, Deleting, Syncing
  <2>5. CopyFit(w)'
    <3>1. \A n \in Names : Standing(n) => n \notin Stale(w, hasura)
      BY <1>1, <1>2, AtWork DEF CopyFit, Stale
    <3>2. \A n \in Names : Standing(n)' => Standing(n)
      BY <1>1 DEF Standing, Granted, DatabaseSame
    <3> QED
      BY <2>1, <2>2, <3>1, <3>2 DEF CopyFit
  <2> QED
    BY <1>1, <1>5, <2>2, <2>3, <2>4, <2>5, FadingAdvance
<1> QED
  BY <1>3, <1>4, <1>2 DEF ReadStatus

LEMMA ExportMetadataInv ==
  ASSUME DeletionInv, NEW w \in Workers, ExportMetadata(w)
  PROVE  DeletionInv'
<1> DEFINE h == handler[w]
           c == [n \in Names |-> IF n \in h.listed THEN hasura[n] ELSE Untracked]
           f == [pc |-> "replace", kind |-> h.kind, schema |-> h.schema, name |-> h.name,
                 listed |-> h.listed, copy |-> c]
<1>1. DatabaseSame /\ UNCHANGED <<hasura, late, restored, spent>> /\ h.pc = "export"
  BY DEF ExportMetadata, DatabaseSame
<1>10. Fades /\ Sends /\ spent' \in Bounds
  BY <1>1, AtWork, StillFades, SendsNothing
<1>2. /\ h \in Frames /\ handler \in [Workers -> Frames] /\ h.kind = "sync"
      /\ \A n \in Names : Standing(n) => n \in h.listed
  BY <1>1, AtWork DEF StepOf, CopyFit, Syncing
<1>3. /\ c \in [Names -> Entries] /\ \A n \in Names : c[n].grant \in {0, hasura[n].grant}
      /\ \A n \in h.listed \cap Names : c[n] = hasura[n]
  BY AtWork, IdleFrame
<1>4. handler' = [handler EXCEPT ![w] = f]
  BY <1>2 DEF ExportMetadata
<1> HIDE DEF c
<1>5. /\ f \in Frames /\ f.pc = "replace" /\ f.kind = "sync" /\ f.name = h.name
      /\ f.schema = h.schema /\ f.copy = c
  BY <1>2, <1>3 DEF Frames, Steps
<1> HIDE DEF f
<1>6. handler' \in [Workers -> Frames] /\ OthersStay(w) /\ handler'[w] = f
  BY <1>2, <1>4, <1>5 DEF OthersStay
<1>7. Advances(w)
  BY <1>1, <1>2, <1>5, <1>6 DEF Advances
<1>8. StepOf(w)' /\ Cleared(w)'
  BY <1>5, <1>6 DEF StepOf, Cleared, Deleting, Syncing
<1>9. CopyFit(w)'
  <2>1. /\ handler'[w].pc = "replace" /\ handler'[w].copy = c /\ handler'[w].schema = h.schema
        /\ UNCHANGED <<rel, born, open, outbox, deleted, hasura, restored>>
    BY <1>1, <1>5, <1>6 DEF DatabaseSame
  <2>2. \A n \in Names : /\ n \in restored \/ Younger(hasura[n].grant, n) \/ Pending(n)
                        /\ hasura[n].grant <= born[n] /\ 0 <= born[n]
    BY GrantNumbers DEF DeletionInv, NamesInv, Forgotten, Numbered
  <2>3. \A n \in Names : /\ n \in restored \/ Younger(c[n].grant, n) \/ Pending(n)
                        /\ c[n].grant <= born[n]
    BY <1>3, <2>2 DEF Younger
  <2>4. \A n \in Names : Standing(n) => c[n].grant = rel[n]
    BY <1>2, <1>3 DEF Standing, Granted
  <2>5. \A n \in Names : n \in outbox => n \in restored \/ rel[n] = 0 \/ c[n].grant # rel[n]
    BY <1>3 DEF DeletionInv, NamesInv, Numbered, Standing, Granted
  <2> QED
    BY <2>1, <2>3, <2>4, <2>5 DEF CopyFit, Younger, Pending, Standing, Granted
<1> QED
  BY <1>1, <1>6, <1>7, <1>8, <1>9, <1>10, FadingAdvance

LEMMA ReplaceMetadataInv ==
  ASSUME DeletionInv, NEW w \in Workers, ReplaceMetadata(w)
  PROVE  DeletionInv'
<1> DEFINE r == Replacing(handler[w].copy)
<1>1. /\ DatabaseSame /\ restored' = restored /\ handler[w].pc = "replace" /\ Finish(w)
      /\ Answered(r) \/ Lost(r)
  BY DEF ReplaceMetadata, DatabaseSame
<1>2. /\ handler[w].copy \in [Names -> Entries] /\ r \in Requests /\ r.type = "replace"
      /\ r.copy = handler[w].copy
  BY AtWork, FramesHave, RequestType
<1> HIDE DEF r
<1>3. spent' \in Bounds
  BY <1>1, AtWork, Spending DEF Answered, Lost
<1>4. handler' \in [Workers -> Frames] /\ Advances(w) /\ handler'[w].pc = "idle"
  BY <1>1, FinishEnds, AtWork
<1>5. hasura' \in {hasura, handler[w].copy} /\ late' \in {late, late \cup {r}}
  BY <1>1, <1>2 DEF Answered, Lost, Applied
<1>6. \A n \in Names : handler[w].copy[n].grant <= born[n]
  BY <1>1, AtWork DEF CopyFit
<1>7. Sends /\ LateInv'
  <2>1. Sends
    BY <1>2, <1>5, <1>6, AtWork DEF Sends, Fit
  <2> QED
    BY <1>1, <2>1, LateFits DEF DatabaseSame
<1>8. TypeOK'
  BY <1>1, <1>2, <1>3, <1>4, <1>5, <1>7 DEF DeletionInv, TypeOK, DatabaseSame, Sends
<1>9. NamesInv'
  <2> SUFFICES ASSUME NEW n \in Names PROVE Numbered(n)' /\ Forgotten(n)'
    BY DEF NamesInv
  <2>1. Numbered(n) /\ Forgotten(n)
    BY DEF DeletionInv, NamesInv
  <2>2. /\ n \in restored \/ Younger(hasura'[n].grant, n) \/ Pending(n)
        /\ hasura'[n].grant <= born[n]
    BY <1>1, <1>5, <1>6, <2>1, AtWork DEF CopyFit, Forgotten, Numbered
  <2>3. n \in outbox => ~Standing(n)'
    BY <1>1, <1>5, <2>1, AtWork DEF DatabaseSame, Standing, Granted, CopyFit, Numbered
  <2> QED
    BY <1>1, <2>1, <2>2, <2>3 DEF Numbered, Forgotten, Younger, Pending, DatabaseSame
<1>10. StepOf(w)' /\ CopyFit(w)' /\ Cleared(w)'
  BY <1>4 DEF StepOf, CopyFit, Cleared, Deleting, Syncing
<1>11. handler[w].pc # "idle" /\ handler[w].kind \in Exclusive
  BY <1>1, AtWork DEF StepOf, Syncing, Exclusive
<1> QED
  BY <1>4, <1>7, <1>8, <1>9, <1>10, <1>11, ExclusiveAdvance DEF DeletionInv

-----------------------------------------------------------------------------
LEMMA NextInv == DeletionInv /\ [Next]_vars => DeletionInv'
<1> SUFFICES ASSUME DeletionInv, [Next]_vars PROVE DeletionInv'
  OBVIOUS
<1>1. CASE UNCHANGED vars
  BY <1>1 DEF vars, DeletionInv, TypeOK, WorkersInv, NamesInv, StepOf, Alone, CopyFit, Cleared,
              Numbered, Forgotten, Younger, Pending, Standing, Granted, LateInv, Fit
<1>2. ASSUME NEW w \in Workers, NEW n \in Names,
             \/ CreateTable(w, n) \/ TrackTable(w, n) \/ ImportSql(w, n) \/ GrantPolicy(w, n)
             \/ DropTable(w, n) \/ RecoverDeletion(w, n)
             \/ SyncSchema(w, n) \/ ConfigureRealtime(w, n)
      PROVE  DeletionInv'
  BY <1>2, CreateTableInv, TrackTableInv, ImportSqlInv, GrantPolicyInv, DropTableInv,
     RecoverDeletionInv, SyncSchemaInv, ConfigureRealtimeInv
<1>3. ASSUME NEW w \in Workers, Continue(w) \/ Crash(w)
      PROVE  DeletionInv'
  BY <1>3, TrackCreatedInv, CheckRelationInv, IsTrackedInv, UntrackTableInv, ClearOutboxInv,
     TrackListedInv, DropInconsistentInv, ReadStatusInv, ExportMetadataInv, ReplaceMetadataInv,
     CrashInv DEF Continue
<1>4. ASSUME NEW n \in Names, OpenCreate(n) \/ CloseCreate(n)
      PROVE  DeletionInv'
  BY <1>4, OpenCreateInv, CloseCreateInv
<1>5. ASSUME NEW r \in late, LateArrives(r)
      PROVE  DeletionInv'
  BY <1>5, LateArrivesInv
<1> QED
  BY <1>1, <1>2, <1>3, <1>4, <1>5 DEF Next

LEMMA InvHolds == Spec => []DeletionInv
<1>1. Init => DeletionInv
  BY InitInv
<1>2. DeletionInv /\ [Next]_vars => DeletionInv'
  BY NextInv
<1> QED
  BY <1>1, <1>2, PTL DEF Spec

\* A dropped table is forgotten: a relation is never exposed under permissions,
\* nor judged by a baseline, of a table dropTable removed under its name, and once
\* the row of a deletion is gone the metadata has none of them; whatever fails,
\* crashes or arrives late, for any number of workers, names and relations.
\* Excepted, on record in restored, are the permissions that a replacement of the
\* whole document brings back when Hasura carries it out after its sender gave up.
THEOREM DroppedTablesForgotten == Spec => []DroppedIsForgotten
<1>1. DeletionInv => DroppedIsForgotten
  BY DEF DeletionInv, NamesInv, DroppedIsForgotten, GrantsDieWithTable, ClearedMeansForgotten,
         Forgotten, Younger, Pending
<1> QED
  BY <1>1, InvHolds, PTL

-----------------------------------------------------------------------------
(* Grants of the relations that stand *)

\* A grant is taken from a relation that stands by a request carried out late only.
Keeps(n) ==
    Standing(n) /\ rel'[n] = rel[n] =>
      \/ Granted(n)'
      \/ \E r \in late \ late' : r.type = "replace" \/ r = Request("untrack", n)

LEMMA KeepsIf ==
  ASSUME NEW n \in Names, hasura'[n].grant = hasura[n].grant
  PROVE  Keeps(n)
BY DEF Keeps, Standing, Granted

\* A request that is no replacement keeps the grants of a relation that is there,
\* unless it untracks its name.
LEMMA SentKeeps ==
  ASSUME DeletionInv, NEW r \in Requests, r.type # "replace", NEW n \in Names,
         r # Request("untrack", n) \/ n \in outbox, Answered(r) \/ Refused(r) \/ Lost(r)
  PROVE  Keeps(n)
<1>1. hasura'[n] = hasura[n] \/ hasura'[n] = Applied(hasura, r)[n]
  BY DEF Answered, Refused, Lost
<1>2. n \in outbox => ~Standing(n)
  BY DEF DeletionInv, NamesInv, Numbered
<1>3. rel[n] = 0 \/ r = Request("untrack", n) \/ Applied(hasura, r)[n].grant = hasura[n].grant
  BY AppliedFades DEF DeletionInv
<1> QED
  BY <1>1, <1>2, <1>3 DEF Keeps, Standing, Granted

LEMMA ContinueKeeps ==
  ASSUME DeletionInv, NEW w \in Workers, Continue(w), NEW n \in Names
  PROVE  Keeps(n)
<1>1. CASE TrackCreated(w)
  <2>1. /\ Request("track", handler[w].name) \in Requests
        /\ Request("track", handler[w].name).type = "track"
        /\ Request("untrack", n).type = "untrack"
    BY <1>1, AtWork, RequestType DEF TrackCreated, StepOf
  <2> QED
    BY <1>1, <2>1, SentKeeps DEF TrackCreated
<1>2. CASE CheckRelation(w) \/ IsTracked(w) \/ ClearOutbox(w) \/ ReadStatus(w) \/ ExportMetadata(w)
  BY <1>2, KeepsIf DEF CheckRelation, IsTracked, ClearOutbox, ReadStatus, ExportMetadata
<1>3. CASE UntrackTable(w)
  <2>1. handler[w].name \in Names \cap outbox
    BY <1>3, AtWork DEF UntrackTable, StepOf, Deleting
  <2>2. /\ Request("untrack", handler[w].name) \in Requests
        /\ Request("untrack", handler[w].name).type = "untrack"
        /\ Request("untrack", handler[w].name) # Request("untrack", n) \/ n \in outbox
    BY <2>1, RequestType
  <2> QED
    BY <1>3, <2>2, SentKeeps DEF UntrackTable
<1>4. CASE TrackListed(w)
  <2>1. PICK some : Tracking(some)
    BY <1>4 DEF TrackListed
  <2>2. hasura'[n] \in {hasura[n], Tracked(hasura[n])} /\ hasura[n] \in Entries
    BY <2>1, AtWork DEF Tracking
  <2> QED
    BY <2>2, TrackedEntry, KeepsIf
<1>5. CASE DropInconsistent(w)
  BY <1>5, RequestType, SentKeeps DEF DropInconsistent
<1>6. CASE ReplaceMetadata(w)
  <2>1. handler[w].pc = "replace" /\ UNCHANGED rel /\ hasura' \in {hasura, handler[w].copy}
    BY <1>6, AtWork, FramesHave, RequestType DEF ReplaceMetadata, Answered, Lost, Applied
  <2>2. Standing(n) => handler[w].copy[n].grant = rel[n]
    BY <2>1, AtWork DEF CopyFit
  <2> QED
    BY <2>1, <2>2 DEF Keeps, Standing, Granted
<1> QED
  BY <1>1, <1>2, <1>3, <1>4, <1>5, <1>6 DEF Continue

LEMMA LateKeeps ==
  ASSUME DeletionInv, NEW r \in late, LateArrives(r), NEW n \in Names
  PROVE  Keeps(n)
<1>1. r \in Requests /\ hasura' = Applied(hasura, r) /\ r \in late \ late' /\ rel' = rel
  BY AtWork DEF LateArrives, DeletionInv, TypeOK
<1>2. CASE r.type = "replace" \/ r = Request("untrack", n)
  BY <1>1, <1>2 DEF Keeps
<1>3. CASE r.type # "replace" /\ r # Request("untrack", n)
  BY <1>1, <1>3, AppliedFades DEF DeletionInv, Keeps, Standing, Granted
<1> QED
  BY <1>2, <1>3

LEMMA StepKeeps ==
  ASSUME DeletionInv, [Next]_vars, NEW n \in Names
  PROVE  Keeps(n)
<1>1. CASE UNCHANGED vars
  BY <1>1, KeepsIf DEF vars
<1>2. ASSUME NEW w \in Workers, NEW m \in Names,
             \/ CreateTable(w, m) \/ ImportSql(w, m) \/ DropTable(w, m)
             \/ RecoverDeletion(w, m) \/ SyncSchema(w, m)
      PROVE  Keeps(n)
  BY <1>2, KeepsIf DEF CreateTable, ImportSql, DropTable, RecoverDeletion, SyncSchema
<1>3. ASSUME NEW w \in Workers, NEW m \in Names, TrackTable(w, m) \/ ConfigureRealtime(w, m)
      PROVE  Keeps(n)
  <2>1. /\ Request("track", m) \in Requests /\ Request("track", m).type = "track"
        /\ Request("untrack", n).type = "untrack"
    BY RequestType
  <2> QED
    BY <1>3, <2>1, SentKeeps DEF TrackTable, ConfigureRealtime
<1>4. ASSUME NEW w \in Workers, NEW m \in Names, GrantPolicy(w, m)
      PROVE  Keeps(n)
  BY <1>4 DEF GrantPolicy, DeletionInv, TypeOK, Keeps, Standing, Granted
<1>5. ASSUME NEW w \in Workers, Crash(w) PROVE Keeps(n)
  BY <1>5, KeepsIf DEF Crash
<1>6. ASSUME NEW m \in Names, OpenCreate(m) \/ CloseCreate(m) PROVE Keeps(n)
  BY <1>6, KeepsIf DEF OpenCreate, CloseCreate
<1> QED
  BY <1>1, <1>2, <1>3, <1>4, <1>5, <1>6, ContinueKeeps, LateKeeps DEF Next

\* While a relation stands it keeps the grants it was given, for any number of
\* workers, names and schemas: under the exclusive lock what a synchronisation read
\* is still what it writes, and no deletion untracks a table that a policy can reach.
\* Excepted is what Hasura carries out after its sender gave up: an untracking of the
\* name, or a replacement of the whole document.
THEOREM StandingGrantsAreKept == Spec => StandingGrantsKept
<1> DEFINE Step == \A n \in Names \ restored : Granted(n) /\ rel'[n] = rel[n] =>
        \/ Granted(n)'
        \/ \E r \in late \ late' : r.type = "replace" \/ r = Request("untrack", n)
<1>1. DeletionInv /\ [Next]_vars => [Step]_vars
  BY StepKeeps DEF Keeps, Standing
<1>2. Spec => [][Step]_vars
  BY <1>1, InvHolds, PTL DEF Spec
<1> QED
  BY <1>2 DEF StandingGrantsKept
=============================================================================
