------------------------ MODULE ProjectAccountProofs ------------------------
(***************************************************************************)
(* What module ProjectAccount promises, for any number of request handlers,*)
(* executors, users, deletions, tokens and notifications.  The argument    *)
(* rests on the fences:                                                    *)
(*                                                                         *)
(*   - a fence says how far its deletion is (RowSound), and while it is    *)
(*     open the subject has no other identity than the deleted one         *)
(*     (OpenBlocks), so the generations of fences and identities advance;  *)
(*   - an executor whose claim still stands works on the phase the row is  *)
(*     at (ExecutorSound), so whatever it writes back is not older;        *)
(*   - what a phase has removed stays removed while the project is open    *)
(*     (Cleaned, Ran): a request admitted earlier is recorded in `late',   *)
(*     and a restore closes the project until it has replayed every fence. *)
(***************************************************************************)
EXTENDS ProjectAccount, WellFoundedInduction, TLAPS

-----------------------------------------------------------------------------
(* The inductive invariant *)

WorkPhases == {"business_cleanup", "storage_cleanup", "project_user_cleanup", "provider_revoke"}

\* The status, the phase and the fence of a deletion agree.
RowSound(d) ==
  /\ fence[d] = "none" <=> del[d].status \notin Final
  /\ fence[d] = "done" <=> del[d].status = "completed"
  /\ del[d].status \notin Final => del[d].phase = "awaiting_confirmation"
  /\ del[d].status \in Underway => del[d].phase \in WorkPhases
  /\ del[d].status = "completed" => del[d].phase = "completed"
  /\ del[d].user < nextUser /\ del[d].gen <= del[d].user
  /\ del[d].status # "processing" => del[d].holder = Nobody

\* A deletion names a notification that was sent, and after the account was made.
EventNamed(d) ==
  del[d].event # 0 => /\ ev[del[d].event].kind # "none"
                      /\ del[d].user < ev[del[d].event].before

\* An identity is as old as its user.
IdentitySound == identity.user < nextUser /\ identity.gen <= identity.user

\* While a deletion is under way nobody else is the subject.
OpenBlocks(d) == fence[d] = "open" /\ HasIdentity => identity.user = del[d].user

\* A recorded notification was sent; while it waits, for an account older than it.
EventSound(e) ==
  /\ ev[e].row # "none" => ev[e].kind # "none"
  /\ ev[e].row = "application_action_pending" /\ ev[e].user # 0 => ev[e].user < ev[e].before

\* The token an accepted deletion left is gone once the subject is somebody else.
TokenSound(t) ==
  dtok[t].status # "none" =>
    /\ dtok[t].d \in Dels
    /\ dtok[t].purpose = "accepted_deletion" /\ fence[dtok[t].d] = "done" =>
         ~(HasIdentity /\ identity.user # del[dtok[t].d].user)

WorkerSound(w) ==
  /\ wk[w].pc \in {"accept", "compensate"} => wk[w].d \in Dels
  /\ wk[w].pc \in {"write", "markPending", "revoke"} => wk[w].user \in Users

\* What the phases that are over have removed.
Cleaned(d) ==
  /\ del[d].phase \in {"project_user_cleanup", "provider_revoke", "completed"} =>
       del[d].user \notin objects \ late
  /\ gate = "none" /\ del[d].phase \in {"storage_cleanup", "project_user_cleanup",
                                        "provider_revoke", "completed"} =>
       del[d].user \notin data \ late
  /\ gate = "none" /\ del[d].phase \in {"provider_revoke", "completed"} =>
       del[d].user \notin users

\* What the phase an executor has just run has removed.
Ran(e) ==
  LET u == del[ex[e].d].user IN
  /\ ex[e].phase = "storage_cleanup" => u \notin objects \ late
  /\ gate = "none" /\ ex[e].phase = "business_cleanup" => u \notin data \ late
  /\ gate = "none" /\ ex[e].phase = "project_user_cleanup" => u \notin users

ExecutorSound(e) ==
  /\ ex[e].pc \in {"run", "advance", "retry", "contract"} =>
       /\ ex[e].d \in Dels /\ del[ex[e].d].status \in Final
       /\ ex[e].phase \in WorkPhases
       /\ HoldsDeletion(e, ex[e].d) => del[ex[e].d].phase = ex[e].phase
  /\ ex[e].pc = "advance" => Ran(e)
  /\ ex[e].pc \in {"revoke", "deleteToken", "settle", "retryToken"} =>
       ex[e].d \in Dels /\ ex[e].t \in TokenIds

\* The project is closed while a restore is at work.
RestoreSound == rs # "idle" => gate = "restoring"

DeletionsInv == \A d \in Dels : RowSound(d) /\ EventNamed(d) /\ OpenBlocks(d) /\ Cleaned(d)
TokensInv == \A t \in TokenIds : TokenSound(t)
EventsInv == \A e \in Events : EventSound(e)
WorkersInv == \A w \in Workers : WorkerSound(w)
ExecutorsInv == \A e \in Executors : ExecutorSound(e)

\* The part that speaks of the rows of deletions, tokens and the identity.
RecordsInv ==
  DeletionsInv /\ TokensInv /\ IdentitySound /\ GenerationsAdvance /\ AcceptedIsFinal

AccountInv ==
  TypeOK /\ RecordsInv /\ EventsInv /\ WorkersInv /\ ExecutorsInv /\ RestoreSound
-----------------------------------------------------------------------------
(* Steps by what they leave alone *)

\* A row keeps its user, its generation and its phase, and how far it is.
RowStays(d) ==
  /\ fence'[d] = fence[d]
  /\ del'[d].user = del[d].user /\ del'[d].gen = del[d].gen /\ del'[d].event = del[d].event
  /\ del'[d].phase = del[d].phase
  /\ del'[d].status \in Underway <=> del[d].status \in Underway
  /\ del'[d].status = "completed" <=> del[d].status = "completed"
  /\ del'[d].status # "processing" => del'[d].holder = Nobody

\* A row is written anew as an open intent of the subject.
RowDrafted(d) ==
  /\ fence[d] = "none" /\ fence'[d] = "none"
  /\ del'[d].status = "pending_confirmation" /\ del'[d].phase = "awaiting_confirmation"
  /\ del'[d].user = identity.user /\ del'[d].gen = identity.gen
  /\ del'[d].event = 0 /\ del'[d].holder = Nobody

RowsStay == \A d \in Dels : RowStays(d) \/ RowDrafted(d)

\* The identity goes, or stays and is not made active.
IdentityFades ==
  \/ identity'.status = "none" /\ identity'.user = 0 /\ identity'.gen = 0
  \/ /\ identity'.user = identity.user /\ identity'.gen = identity.gen
     /\ \/ identity'.status = identity.status
        \/ HasIdentity /\ identity'.status \notin {"none", "active"}

\* No token appears.
TokensFade ==
  \A t \in TokenIds : dtok'[t].status # "none" =>
    /\ dtok[t].status # "none" /\ dtok'[t].d = dtok[t].d /\ dtok'[t].purpose = dtok[t].purpose

\* What was sent stays sent.
EventsGrow ==
  \A e \in Events : ev[e].kind # "none" =>
    ev'[e].kind # "none" /\ ev'[e].before = ev[e].before

\* Nothing of a user whose deletion was accepted comes back, unless it is
\* recorded as late or the project is closed.
SchemaSafe ==
  \A d \in Dels : del[d].status \in Final =>
    /\ del[d].user \in objects' \ late' => del[d].user \in objects \ late
    /\ gate' = "none" /\ del[d].user \in data' \ late' => gate = "none" /\ del[d].user \in data \ late
    /\ gate' = "none" /\ del[d].user \in users' => gate = "none" /\ del[d].user \in users

\* An accepted deletion stays accepted, and executor e gains no claim on one and
\* keeps a claim only while the phase stays.
ClaimsStay(e) ==
  \A d \in Dels : del[d].status \in Final =>
    /\ del'[d].status \in Final /\ del'[d].user = del[d].user
    /\ HoldsDeletion(e, d)' => HoldsDeletion(e, d) /\ del'[d].phase = del[d].phase

-----------------------------------------------------------------------------
(* Lemmas about the operators *)

\* The maximum of a bounded set of numbers that has 0: its complement to the
\* bound has a least element.
LEMMA MaxOfBounded ==
  ASSUME NEW N \in Nat, NEW S \in SUBSET (0..N), 0 \in S
  PROVE  Max(S) \in S /\ \A y \in S : y <= Max(S)
<1> DEFINE T == {k \in Nat : k <= N /\ N - k \in S}
<1>1. N \in T
  OBVIOUS
<1>2. PICK k \in T : \A j \in T : ~ (<<j, k>> \in OpToRel(<, Nat))
  <2>1. T \subseteq Nat /\ T # {}
    BY <1>1
  <2> HIDE DEF T
  <2> QED
    BY <2>1, NatLessThanWellFounded, WFMin, Zenon
<1>3. \A j \in T : k <= j
  <2> SUFFICES ASSUME NEW j \in T, j < k PROVE FALSE
    OBVIOUS
  <2>1. <<j, k>> \in OpToRel(<, Nat)
    BY Zenon DEF OpToRel
  <2> QED
    BY <1>2, <2>1, Zenon
<1>4. N - k \in S /\ \A y \in S : N - k >= y
  <2>1. \A y \in S : N - y \in T
    OBVIOUS
  <2> QED
    BY <1>3, <2>1
<1> QED
  BY <1>4 DEF Max

LEMMA Numbers ==
  /\ MaxUsers \in Nat \ {0} /\ MaxDeletions \in Nat /\ MaxTokens \in Nat
  /\ MaxEvents \in Nat /\ MaxCalls \in Nat /\ MaxFaults \in Nat
  /\ Dels = 1..MaxDeletions /\ Users = 1..MaxUsers /\ TokenIds = 1..MaxTokens
  /\ Events = 1..MaxEvents
BY ProjectAccountAssumption DEF Dels, Users, TokenIds, Events

WorkerFrames == [pc: WorkerPcs, d: 0..MaxDeletions, user: 0..MaxUsers]
ExecutorFrames == [pc: ExecutorPcs, d: 0..MaxDeletions, phase: Phases, t: 0..MaxTokens]

LEMMA Defaults ==
  /\ NoIdentity \in Identity /\ NoDeletion \in Deletion /\ NoToken \in Token
  /\ NoEvent \in Event /\ IdleWorker \in WorkerFrames /\ IdleExecutor \in ExecutorFrames
  /\ NoIdentity.status = "none" /\ NoIdentity.user = 0 /\ NoIdentity.gen = 0
  /\ NoDeletion.status = "none" /\ NoDeletion.phase = "awaiting_confirmation"
  /\ NoDeletion.user = 0 /\ NoDeletion.gen = 0 /\ NoDeletion.holder = Nobody
  /\ NoDeletion.event = 0
  /\ NoToken.status = "none" /\ NoToken.holder = Nobody
  /\ NoEvent.kind = "none" /\ NoEvent.row = "none"
  /\ IdleWorker.pc = "idle" /\ IdleExecutor.pc = "idle"
<1>1. NoIdentity \in Identity
  BY Numbers DEF NoIdentity, Identity, IdentityStatuses
<1>2. NoDeletion \in Deletion
  BY Numbers DEF NoDeletion, Deletion, Statuses, Phases, LeaseStates, Revocations
<1>3. NoToken \in Token
  BY Numbers DEF NoToken, Token, LeaseStates
<1>4. NoEvent \in Event
  BY Numbers DEF NoEvent, Event
<1>5. IdleWorker \in WorkerFrames /\ IdleWorker.pc = "idle"
  BY Numbers DEF IdleWorker, WorkerFrames, WorkerPcs
<1>6. IdleExecutor \in ExecutorFrames /\ IdleExecutor.pc = "idle"
  BY Numbers DEF IdleExecutor, ExecutorFrames, ExecutorPcs, Phases
<1>7. /\ NoIdentity.status = "none" /\ NoIdentity.user = 0 /\ NoIdentity.gen = 0
      /\ NoToken.status = "none" /\ NoToken.holder = Nobody
      /\ NoEvent.kind = "none" /\ NoEvent.row = "none"
  BY DEF NoIdentity, NoToken, NoEvent
<1>8. /\ NoDeletion.status = "none" /\ NoDeletion.phase = "awaiting_confirmation"
      /\ NoDeletion.user = 0 /\ NoDeletion.gen = 0 /\ NoDeletion.holder = Nobody
      /\ NoDeletion.event = 0
  BY DEF NoDeletion
<1> QED
  BY <1>1, <1>2, <1>3, <1>4, <1>5, <1>6, <1>7, <1>8

LEMMA Counted ==
  ASSUME TypeOK, Call \/ Fault \/ Uncounted
  PROVE  calls' \in 0..MaxCalls /\ faults' \in 0..MaxFaults
BY Numbers DEF TypeOK, Call, Fault, Uncounted

LEMMA RowFields ==
  ASSUME TypeOK, NEW d \in Dels
  PROVE  /\ del[d] \in Deletion /\ del[d].status \in Statuses /\ del[d].phase \in Phases
         /\ del[d].user \in 0..MaxUsers /\ del[d].gen \in 0..MaxUsers
         /\ del[d].event \in 0..MaxEvents /\ del[d].user \in Nat /\ del[d].gen \in Nat
         /\ del[d].holder \in Executors \cup {Nobody}
BY Numbers, SMTT(30) DEF TypeOK, Deletion

LEMMA IdentityFields ==
  ASSUME TypeOK
  PROVE  /\ identity \in Identity /\ identity.status \in IdentityStatuses
         /\ identity.user \in 0..MaxUsers /\ identity.gen \in 0..MaxUsers
         /\ identity.user \in Nat /\ identity.gen \in Nat /\ nextUser \in Nat
         /\ (identity.status # "none" <=> identity.user # 0)
BY Numbers DEF TypeOK, Identity

\* A worker ends, or starts on something.
LEMMA FinishEnds ==
  ASSUME TypeOK, WorkersInv, NEW w \in Workers, Finish(w)
  PROVE  wk' \in [Workers -> WorkerFrames] /\ WorkersInv'
<1>1. wk \in [Workers -> WorkerFrames]
  BY DEF TypeOK, WorkerFrames
<1>2. /\ wk' \in [Workers -> WorkerFrames] /\ wk'[w].pc = "idle"
      /\ \A v \in Workers \ {w} : wk'[v] = wk[v]
  BY <1>1, Defaults DEF Finish
<1>3. \A v \in Workers : WorkerSound(v)'
  BY <1>2 DEF WorkersInv, WorkerSound
<1> QED
  BY <1>2, <1>3 DEF WorkersInv

LEMMA StartEnters ==
  ASSUME TypeOK, WorkersInv, NEW w \in Workers, NEW pc \in WorkerPcs, NEW d \in 0..MaxDeletions,
         NEW u \in 0..MaxUsers, Start(w, pc, d, u),
         pc \in {"accept", "compensate"} => d \in Dels,
         pc \in {"write", "markPending", "revoke"} => u \in Users
  PROVE  wk' \in [Workers -> WorkerFrames] /\ WorkersInv'
<1> DEFINE f == [pc |-> pc, d |-> d, user |-> u]
<1>1. wk \in [Workers -> WorkerFrames]
  BY DEF TypeOK, WorkerFrames
<1>2. f \in WorkerFrames /\ f.pc = pc /\ f.d = d /\ f.user = u
  BY DEF WorkerFrames
<1>3. wk' = [wk EXCEPT ![w] = f]
  BY DEF Start
<1> HIDE DEF f
<1>4. /\ wk' \in [Workers -> WorkerFrames] /\ wk'[w] = f
      /\ \A v \in Workers \ {w} : wk'[v] = wk[v]
  BY <1>1, <1>2, <1>3
<1>5. \A v \in Workers : WorkerSound(v)'
  BY <1>2, <1>4 DEF WorkersInv, WorkerSound
<1> QED
  BY <1>4, <1>5 DEF WorkersInv

LEMMA RestEnds ==
  ASSUME TypeOK, NEW e \in Executors, Rest(e)
  PROVE  /\ ex' \in [Executors -> ExecutorFrames] /\ ExecutorSound(e)'
         /\ \A f \in Executors \ {e} : ex'[f] = ex[f]
<1>1. ex \in [Executors -> ExecutorFrames]
  BY DEF TypeOK, ExecutorFrames
<1>2. /\ ex' \in [Executors -> ExecutorFrames] /\ ex'[e].pc = "idle"
      /\ \A f \in Executors \ {e} : ex'[f] = ex[f]
  BY <1>1, Defaults DEF Rest
<1> QED
  BY <1>2 DEF ExecutorSound

LEMMA ReleaseType ==
  ASSUME TypeOK, NEW e \in Executors, Release(e)
  PROVE  plock' \in Executors \cup {Nobody, Restorer}
BY DEF TypeOK, Release

\* The mark functions make no identity active.
LEMMA MarkFades ==
  ASSUME TypeOK, NEW status \in {"revoke_pending", "revoked", "deletion_pending"},
         MarkIdentity(status), HasIdentity
  PROVE  /\ IdentityFades /\ identity' \in Identity /\ live' \subseteq Users
         /\ identity'.status = status /\ identity'.user = identity.user
         /\ identity'.gen = identity.gen
         /\ (identity'.status # "none" <=> identity'.user # 0)
<1>1. identity \in Identity /\ live \subseteq Users
  BY DEF TypeOK
<1>2. identity' = [identity EXCEPT !.status = status]
  BY DEF MarkIdentity
<1>3. /\ identity' \in Identity /\ identity'.status = status
      /\ identity'.user = identity.user /\ identity'.gen = identity.gen
  BY <1>1, <1>2 DEF Identity, IdentityStatuses
<1>4. live' \subseteq Users
  BY <1>1 DEF MarkIdentity
<1> QED
  BY <1>3, <1>4, IdentityFields DEF IdentityFades, HasIdentity
-----------------------------------------------------------------------------
(* What is preserved by a step of a given shape *)

LEMMA RowKept ==
  ASSUME AccountInv, NEW d \in Dels, RowStays(d), nextUser' \in Nat, nextUser <= nextUser'
  PROVE  RowSound(d)'
<1>1. RowSound(d) /\ del[d].status \in Statuses /\ del[d].user \in Nat /\ nextUser \in Nat
  BY RowFields, IdentityFields DEF AccountInv, RecordsInv, DeletionsInv
<1>2. del'[d].status \in Final <=> del[d].status \in Final
  BY DEF RowStays, Final
<1> QED
  BY <1>1, <1>2 DEF RowSound, RowStays

LEMMA EventKept ==
  ASSUME AccountInv, NEW d \in Dels, del'[d].event = del[d].event, del'[d].user = del[d].user,
         EventsGrow
  PROVE  EventNamed(d)'
<1>1. EventNamed(d) /\ (del[d].event # 0 => del[d].event \in Events)
  BY RowFields, Numbers DEF AccountInv, RecordsInv, DeletionsInv
<1> QED
  BY <1>1 DEF EventNamed, EventsGrow

LEMMA CleanKept ==
  ASSUME AccountInv, NEW d \in Dels, RowStays(d), SchemaSafe
  PROVE  Cleaned(d)'
<1>1. Cleaned(d) /\ RowSound(d)
  BY DEF AccountInv, RecordsInv, DeletionsInv
<1>2. del[d].phase # "awaiting_confirmation" => del[d].status \in Final
  BY <1>1 DEF RowSound
<1> QED
  BY <1>1, <1>2 DEF Cleaned, RowStays, SchemaSafe

LEMMA OpenKept ==
  ASSUME AccountInv, NEW d \in Dels, RowStays(d), IdentityFades
  PROVE  OpenBlocks(d)'
<1>1. OpenBlocks(d)
  BY DEF AccountInv, RecordsInv, DeletionsInv
<1> QED
  BY <1>1 DEF OpenBlocks, RowStays, IdentityFades, HasIdentity

LEMMA DraftSound ==
  ASSUME AccountInv, NEW d \in Dels, RowDrafted(d), nextUser' \in Nat, nextUser <= nextUser'
  PROVE  RowSound(d)' /\ EventNamed(d)' /\ Cleaned(d)' /\ OpenBlocks(d)'
<1>1. IdentitySound /\ identity.user \in Nat /\ nextUser \in Nat
  BY IdentityFields DEF AccountInv, RecordsInv
<1>2. RowSound(d)'
  BY <1>1 DEF RowDrafted, RowSound, IdentitySound, Final, Underway
<1> QED
  BY <1>2 DEF RowDrafted, EventNamed, Cleaned, OpenBlocks

LEMMA GenerationsKept ==
  ASSUME AccountInv, IdentityFades,
         \A d \in Dels : fence'[d] # "none" =>
           fence[d] # "none" /\ del'[d].user = del[d].user /\ del'[d].gen = del[d].gen
  PROVE  GenerationsAdvance'
<1>1. GenerationsAdvance
  BY DEF AccountInv, RecordsInv
<1> QED
  BY <1>1 DEF GenerationsAdvance, IdentityFades, HasIdentity

LEMMA FinalKept ==
  ASSUME AccountInv, IdentityFades,
         \A d \in Dels : del'[d].status \in Final =>
           del[d].status \in Final /\ del'[d].user = del[d].user
  PROVE  AcceptedIsFinal'
<1>1. AcceptedIsFinal
  BY DEF AccountInv, RecordsInv
<1> QED
  BY <1>1 DEF AcceptedIsFinal, IdentityFades, HasIdentity

LEMMA IdentityKept ==
  ASSUME AccountInv, IdentityFades, nextUser' \in Nat, nextUser <= nextUser'
  PROVE  IdentitySound'
<1>1. IdentitySound /\ identity.user \in Nat /\ nextUser \in Nat
  BY IdentityFields DEF AccountInv, RecordsInv
<1> QED
  BY <1>1 DEF IdentitySound, IdentityFades

LEMMA TokenKept ==
  ASSUME AccountInv, RowsStay, IdentityFades, NEW t \in TokenIds, dtok[t].status # "none",
         dtok'[t].d = dtok[t].d, dtok'[t].purpose = dtok[t].purpose
  PROVE  TokenSound(t)'
<1>1. TokenSound(t)
  BY DEF AccountInv, RecordsInv, TokensInv
<1>2. dtok[t].d \in Dels
  BY <1>1 DEF TokenSound
<1>3. fence'[dtok[t].d] = "done" =>
        fence[dtok[t].d] = "done" /\ del'[dtok[t].d].user = del[dtok[t].d].user
  BY <1>2 DEF RowsStay, RowStays, RowDrafted
<1> QED
  BY <1>1, <1>2, <1>3 DEF TokenSound, IdentityFades, HasIdentity

\* A step that accepts nothing, completes nothing and signs nobody up.
LEMMA RecordsKept ==
  ASSUME AccountInv, RowsStay, IdentityFades, TokensFade, EventsGrow, SchemaSafe,
         nextUser' = nextUser
  PROVE  RecordsInv'
<1>1. nextUser' \in Nat /\ nextUser <= nextUser'
  BY IdentityFields DEF AccountInv
<1>2. \A d \in Dels : RowSound(d)' /\ EventNamed(d)' /\ OpenBlocks(d)' /\ Cleaned(d)'
  <2> TAKE d \in Dels
  <2>1. CASE RowStays(d)
    BY <1>1, <2>1, RowKept, EventKept, CleanKept, OpenKept DEF RowStays
  <2>2. CASE RowDrafted(d)
    BY <1>1, <2>2, DraftSound
  <2> QED
    BY <2>1, <2>2 DEF RowsStay
<1>3. \A t \in TokenIds : TokenSound(t)'
  <2> TAKE t \in TokenIds
  <2>1. CASE dtok'[t].status = "none"
    BY <2>1 DEF TokenSound
  <2>2. CASE dtok'[t].status # "none"
    BY <2>2, TokenKept DEF TokensFade
  <2> QED
    BY <2>1, <2>2
<1>4. GenerationsAdvance' /\ AcceptedIsFinal' /\ IdentitySound'
  <2>1. \A d \in Dels :
          /\ fence'[d] # "none" =>
               fence[d] # "none" /\ del'[d].user = del[d].user /\ del'[d].gen = del[d].gen
          /\ del'[d].status \in Final => del[d].status \in Final /\ del'[d].user = del[d].user
    BY DEF RowsStay, RowStays, RowDrafted, Final, Underway
  <2> QED
    BY <1>1, <2>1, GenerationsKept, FinalKept, IdentityKept
<1> QED
  BY <1>2, <1>3, <1>4 DEF RecordsInv, TokensInv, DeletionsInv

\* What an executor relies on while it does not move.
LEMMA ExecutorKept ==
  ASSUME AccountInv, SchemaSafe, NEW e \in Executors, ex'[e] = ex[e], ClaimsStay(e)
  PROVE  ExecutorSound(e)'
<1> DEFINE d == ex[e].d
<1>1. ExecutorSound(e) /\ ex'[e].d = d
  BY DEF AccountInv, ExecutorsInv
<1>2. CASE ex[e].pc \in {"run", "advance", "retry", "contract"}
  <2>1. /\ d \in Dels /\ del[d].status \in Final /\ ex[e].phase \in WorkPhases
        /\ HoldsDeletion(e, d) => del[d].phase = ex[e].phase
    BY <1>1, <1>2 DEF ExecutorSound
  <2>2. del'[d].status \in Final /\ del'[d].user = del[d].user
    BY <2>1 DEF ClaimsStay
  <2>3. HoldsDeletion(e, ex[e].d)' => HoldsDeletion(e, d) /\ del'[d].phase = del[d].phase
    BY <1>1, <2>1 DEF ClaimsStay, HoldsDeletion
  <2>4. ex[e].pc = "advance" => Ran(e)'
    BY <1>1, <2>1, <2>2 DEF ExecutorSound, Ran, SchemaSafe
  <2> QED
    BY <1>1, <1>2, <2>1, <2>2, <2>3, <2>4 DEF ExecutorSound
<1>3. CASE ex[e].pc \notin {"run", "advance", "retry", "contract"}
  BY <1>1, <1>3 DEF ExecutorSound
<1> QED
  BY <1>2, <1>3

LEMMA SameRows ==
  ASSUME AccountInv, UNCHANGED <<del, fence>>
  PROVE  /\ RowsStay /\ \A d \in Dels : RowStays(d)
         /\ \A e \in Executors : ClaimsStay(e)
<1>1. \A d \in Dels : RowSound(d)
  BY DEF AccountInv, RecordsInv, DeletionsInv
<1> QED
  BY <1>1 DEF RowsStay, RowStays, RowSound, ClaimsStay, HoldsDeletion

LEMMA SameIdentity ==
  ASSUME identity' = identity
  PROVE  IdentityFades
BY DEF IdentityFades

LEMMA SameSchema ==
  ASSUME gate' = gate \/ gate' # "none",
         users' \subseteq users, data' \subseteq data, objects' \subseteq objects, late' = late
  PROVE  SchemaSafe
BY DEF SchemaSafe

LEMMA SameTokens ==
  ASSUME dtok' = dtok
  PROVE  TokensFade
BY DEF TokensFade

LEMMA SameEvents ==
  ASSUME AccountInv, ev' = ev
  PROVE  EventsGrow /\ EventsInv'
BY DEF EventsGrow, AccountInv, EventsInv, EventSound

\* The parts of the invariant that speak of the handlers.
LEMMA WorkersStay ==
  ASSUME AccountInv, wk' = wk
  PROVE  WorkersInv' /\ wk' \in [Workers -> WorkerFrames]
BY DEF AccountInv, WorkersInv, WorkerSound, TypeOK, WorkerFrames

LEMMA ExecutorsStay ==
  ASSUME AccountInv, SchemaSafe, ex' = ex, \A e \in Executors : ClaimsStay(e)
  PROVE  ExecutorsInv'
BY ExecutorKept DEF ExecutorsInv

\* A step over the same deletions, fences, tokens and notifications.
SameRecords == UNCHANGED <<del, fence, dtok, ev, nextUser>>

LEMMA RecordsSteady ==
  ASSUME AccountInv, SameRecords, IdentityFades, SchemaSafe
  PROVE  /\ RecordsInv' /\ EventsInv' /\ RowsStay
         /\ \A e \in Executors : ClaimsStay(e)
BY SameRows, SameTokens, SameEvents, RecordsKept DEF SameRecords

\* Most requests: the records, the project and the executors stay, the identity
\* may fade, a worker moves.
LEMMA RequestStep ==
  ASSUME AccountInv, SameRecords, IdentityFades, UNCHANGED <<gate, late, rs, backup, plock, ex>>,
         users' \subseteq users, data' \subseteq data, objects' \subseteq objects,
         identity' \in Identity, identity'.status # "none" <=> identity'.user # 0,
         ptok' \in BOOLEAN, ptok' => identity'.status # "none", live' \subseteq Users,
         hook' \in BOOLEAN, enabled' \in BOOLEAN,
         wk' \in [Workers -> WorkerFrames], WorkersInv', Call \/ Fault \/ Uncounted
  PROVE  AccountInv'
<1>1. SchemaSafe
  BY SameSchema
<1>2. RecordsInv' /\ EventsInv' /\ RowsStay /\ \A e \in Executors : ClaimsStay(e)
  BY <1>1, RecordsSteady
<1>3. ExecutorsInv'
  BY <1>1, <1>2, ExecutorsStay
<1>4. RestoreSound'
  BY DEF AccountInv, RestoreSound
<1>5. TypeOK'
  BY Counted DEF AccountInv, TypeOK, SameRecords, WorkerFrames
<1> QED
  BY <1>2, <1>3, <1>4, <1>5 DEF AccountInv
-----------------------------------------------------------------------------
(* Initially *)

LEMMA InitInv == Init => AccountInv
<1> SUFFICES ASSUME Init PROVE AccountInv
  OBVIOUS
<1> DEFINE i == [status |-> "active", user |-> 1, gen |-> 1]
           b == [users |-> {1}, data |-> {1}]
<1>1. 1 \in Users /\ Users = 1..MaxUsers
  BY Numbers
<1>2. i \in Identity /\ i.user = 1 /\ i.gen = 1 /\ i.status = "active"
  BY <1>1, Numbers DEF Identity, IdentityStatuses
<1>3. b \in [users: SUBSET Users, data: SUBSET Users]
  BY <1>1
<1>4. identity = i /\ backup = b /\ nextUser = 2
  BY DEF Init
<1> HIDE DEF i, b
<1>5. /\ \A d \in Dels : del[d] = NoDeletion /\ fence[d] = "none"
      /\ \A t \in TokenIds : dtok[t] = NoToken
      /\ \A e \in Events : ev[e] = NoEvent
      /\ \A w \in Workers : wk[w] = IdleWorker
      /\ \A e \in Executors : ex[e] = IdleExecutor
  BY DEF Init
<1>6. TypeOK
  <2>1. /\ users \subseteq Users /\ data \subseteq Users /\ objects \subseteq Users
        /\ live \subseteq Users /\ late \subseteq Users
        /\ nextUser \in 1..(MaxUsers + 1)
        /\ calls \in 0..MaxCalls /\ faults \in 0..MaxFaults
    BY <1>1, Numbers DEF Init
  <2>2. /\ del \in [Dels -> Deletion] /\ fence \in [Dels -> {"none", "open", "done"}]
        /\ dtok \in [TokenIds -> Token] /\ ev \in [Events -> Event]
        /\ wk \in [Workers -> WorkerFrames] /\ ex \in [Executors -> ExecutorFrames]
    BY Defaults DEF Init
  <2>3. hook \in BOOLEAN /\ enabled \in BOOLEAN /\ ptok \in BOOLEAN
    BY Zenon DEF Init
  <2> QED
    BY <1>2, <1>3, <1>4, <2>1, <2>2, <2>3 DEF Init, TypeOK, WorkerFrames, ExecutorFrames
<1>7. \A d \in Dels : RowSound(d) /\ EventNamed(d) /\ OpenBlocks(d) /\ Cleaned(d)
  BY <1>4, <1>5, Defaults DEF RowSound, EventNamed, OpenBlocks, Cleaned, Final, Underway
<1>8. TokensInv /\ EventsInv /\ WorkersInv /\ ExecutorsInv
  BY <1>5, Defaults DEF TokensInv, EventsInv, WorkersInv, ExecutorsInv, TokenSound, EventSound,
                        WorkerSound, ExecutorSound
<1>9. IdentitySound /\ RestoreSound /\ GenerationsAdvance /\ AcceptedIsFinal
  BY <1>2, <1>4, <1>5, Defaults DEF Init, IdentitySound, RestoreSound, GenerationsAdvance,
                                    AcceptedIsFinal, Final, Underway
<1> QED
  BY <1>6, <1>7, <1>8, <1>9 DEF AccountInv, RecordsInv, DeletionsInv

-----------------------------------------------------------------------------
(* Sign-in, sessions and revocation *)

\* Typing facts of the variables a request leaves alone.
LEMMA AuthTypes ==
  ASSUME AccountInv
  PROVE  /\ TypeOK /\ WorkersInv /\ identity \in Identity /\ identity.user \in 0..MaxUsers
         /\ (identity.status # "none" <=> identity.user # 0)
         /\ ptok \in BOOLEAN /\ (ptok => identity.status # "none") /\ live \subseteq Users
         /\ hook \in BOOLEAN /\ enabled \in BOOLEAN
         /\ 0 \in 0..MaxDeletions /\ wk \in [Workers -> WorkerFrames]
<1>1. ptok => identity.status # "none"
  BY Zenon DEF AccountInv, TypeOK
<1>2. /\ TypeOK /\ WorkersInv /\ identity \in Identity /\ ptok \in BOOLEAN /\ live \subseteq Users
      /\ hook \in BOOLEAN /\ enabled \in BOOLEAN /\ wk \in [Workers -> WorkerFrames]
  BY Zenon DEF AccountInv, TypeOK, WorkerFrames
<1>3. identity.user \in 0..MaxUsers /\ (identity.status # "none" <=> identity.user # 0)
  BY <1>2, IdentityFields
<1>4. 0 \in 0..MaxDeletions
  BY Numbers
<1> QED
  BY <1>1, <1>2, <1>3, <1>4, Zenon

\* A request handler moves and nothing else changes.
LEMMA WorkerOnly ==
  ASSUME AccountInv, UNCHANGED <<schemaVars, authVars, configVars, deletionVars, restVars, gate,
                                 plock, ex, rs>>,
         wk' \in [Workers -> WorkerFrames], WorkersInv', Call \/ Fault \/ Uncounted
  PROVE  AccountInv'
<1>1. /\ SameRecords /\ UNCHANGED <<gate, late, rs, backup, plock, ex>>
      /\ UNCHANGED <<users, data, objects, identity, ptok, live, hook, enabled>>
  BY DEF schemaVars, authVars, configVars, deletionVars, restVars, SameRecords
<1> QED
  BY <1>1, AuthTypes, SameIdentity, RequestStep

\* The identity is marked by a request.
LEMMA RequestMarks ==
  ASSUME AccountInv, UNCHANGED <<schemaVars, configVars, deletionVars, restVars, gate, plock, ex, rs>>,
         HasIdentity, ptok' \in {ptok, FALSE},
         NEW status \in {"revoke_pending", "revoked", "deletion_pending"}, MarkIdentity(status),
         wk' \in [Workers -> WorkerFrames], WorkersInv', Call \/ Fault \/ Uncounted
  PROVE  AccountInv'
<1>1. /\ SameRecords /\ UNCHANGED <<gate, late, rs, backup, plock, ex>>
      /\ UNCHANGED <<users, data, objects, hook, enabled>>
  BY DEF schemaVars, configVars, deletionVars, restVars, SameRecords
<1>2. /\ IdentityFades /\ identity' \in Identity /\ live' \subseteq Users
      /\ identity'.status = status
      /\ (identity'.status # "none" <=> identity'.user # 0)
  BY AuthTypes, MarkFades
<1>3. ptok' \in BOOLEAN /\ identity'.status # "none"
  BY <1>2, AuthTypes
<1> QED
  BY <1>1, <1>2, <1>3, AuthTypes, RequestStep

LEMMA LoginRefusedInv ==
  ASSUME AccountInv, NEW w \in Workers, LoginRefused(w) \/ LoginBreaks(w)
  PROVE  AccountInv'
<1>1. /\ Start(w, "markPending", 0, identity.user) /\ (Call \/ Fault)
      /\ UNCHANGED <<schemaVars, authVars, configVars, deletionVars, restVars, gate, plock, ex, rs>>
  BY DEF LoginRefused, LoginBreaks
<1>2. identity.user \in Users
  BY AuthTypes, Numbers DEF LoginRefused, LoginBreaks, HasIdentity
<1>3. wk' \in [Workers -> WorkerFrames] /\ WorkersInv'
  BY <1>1, <1>2, AuthTypes, StartEnters DEF WorkerPcs
<1> QED
  BY <1>1, <1>3, WorkerOnly

LEMMA SessionStartInv ==
  ASSUME AccountInv, NEW w \in Workers, NEW u \in Users, RefreshBegins(w, u) \/ RequestAdmitted(w, u)
  PROVE  AccountInv'
<1>1. /\ Start(w, "refresh", 0, u) \/ Start(w, "write", 0, u)
      /\ Call
      /\ UNCHANGED <<schemaVars, authVars, configVars, deletionVars, restVars, gate, plock, ex, rs>>
  BY DEF RefreshBegins, RequestAdmitted
<1>2. u \in 0..MaxUsers
  BY Numbers
<1>3. wk' \in [Workers -> WorkerFrames] /\ WorkersInv'
  BY <1>1, <1>2, AuthTypes, StartEnters DEF WorkerPcs
<1> QED
  BY <1>1, <1>3, WorkerOnly

LEMMA WorkerLeavesInv ==
  ASSUME AccountInv, NEW w \in Workers, ConfirmRefused(w) \/ WorkerCrashes(w)
  PROVE  AccountInv'
<1>1. /\ Finish(w) /\ (Uncounted \/ Fault)
      /\ UNCHANGED <<schemaVars, authVars, configVars, deletionVars, restVars, gate, plock, ex, rs>>
  BY DEF ConfirmRefused, WorkerCrashes
<1> QED
  BY <1>1, AuthTypes, FinishEnds, WorkerOnly

LEMMA ConfirmFailsInv ==
  ASSUME AccountInv, NEW w \in Workers, ConfirmFails(w)
  PROVE  AccountInv'
<1> DEFINE g == [wk[w] EXCEPT !.pc = "compensate"]
<1>1. /\ wk[w].pc = "accept" /\ wk' = [wk EXCEPT ![w].pc = "compensate"] /\ (Uncounted \/ Fault)
      /\ UNCHANGED <<schemaVars, authVars, configVars, deletionVars, restVars, gate, plock, ex, rs>>
  BY DEF ConfirmFails
<1>2. wk[w] \in WorkerFrames /\ wk[w].d \in Dels
  BY <1>1, AuthTypes DEF WorkersInv, WorkerSound
<1>3. g \in WorkerFrames /\ g.pc = "compensate" /\ g.d = wk[w].d
  BY <1>2 DEF WorkerFrames, WorkerPcs
<1>4. wk' = [wk EXCEPT ![w] = g]
  BY <1>1, AuthTypes
<1> HIDE DEF g
<1>5. /\ wk' \in [Workers -> WorkerFrames] /\ wk'[w] = g
      /\ \A v \in Workers \ {w} : wk'[v] = wk[v]
  BY <1>3, <1>4, AuthTypes
<1>6. \A v \in Workers : WorkerSound(v)'
  BY <1>2, <1>3, <1>5, AuthTypes DEF WorkersInv, WorkerSound
<1> QED
  BY <1>1, <1>5, <1>6, WorkerOnly DEF WorkersInv

LEMMA MarkPendingInv ==
  ASSUME AccountInv, NEW w \in Workers, MarkPending(w)
  PROVE  AccountInv'
<1>1. /\ UNCHANGED <<schemaVars, ptok, configVars, deletionVars, restVars, gate, plock, ex, rs>>
      /\ Uncounted /\ Finish(w)
  BY DEF MarkPending
<1>2. wk' \in [Workers -> WorkerFrames] /\ WorkersInv'
  BY <1>1, AuthTypes, FinishEnds
<1>3. CASE UNCHANGED <<identity, live>>
  BY <1>1, <1>2, <1>3, WorkerOnly DEF authVars
<1>4. CASE identity.user = wk[w].user /\ MarkRevokePending
  <2>1. wk[w].user \in Users
    BY AuthTypes DEF MarkPending, WorkersInv, WorkerSound
  <2>2. HasIdentity
    BY <1>4, <2>1, AuthTypes, Numbers DEF HasIdentity
  <2> QED
    BY <1>1, <1>2, <1>4, <2>2, RequestMarks DEF MarkRevokePending
<1> QED
  BY <1>3, <1>4 DEF MarkPending

LEMMA RefreshEndsInv ==
  ASSUME AccountInv, NEW w \in Workers, RefreshEnds(w)
  PROVE  AccountInv'
<1>1. /\ UNCHANGED <<schemaVars, configVars, deletionVars, restVars, gate, plock, ex, rs>>
      /\ Uncounted /\ Finish(w)
  BY DEF RefreshEnds
<1>2. wk' \in [Workers -> WorkerFrames] /\ WorkersInv'
  BY <1>1, AuthTypes, FinishEnds
<1>3. CASE UNCHANGED authVars
  BY <1>1, <1>2, <1>3, WorkerOnly
<1>4. CASE HasIdentity /\ MarkRevoked
  BY <1>1, <1>2, <1>4, RequestMarks DEF MarkRevoked
<1> QED
  BY <1>3, <1>4 DEF RefreshEnds, HasIdentity

LEMMA RevokeBeginsInv ==
  ASSUME AccountInv, NEW w \in Workers, RevokeBegins(w)
  PROVE  AccountInv'
<1>1. /\ UNCHANGED <<schemaVars, ptok, configVars, deletionVars, restVars, gate, plock, ex, rs>>
      /\ Call /\ HasIdentity /\ MarkRevokePending
      /\ Start(w, "revoke", 0, identity.user) \/ UNCHANGED wk
  BY DEF RevokeBegins
<1>2. identity.user \in Users
  BY <1>1, AuthTypes, Numbers DEF HasIdentity
<1>3. wk' \in [Workers -> WorkerFrames] /\ WorkersInv'
  BY <1>1, <1>2, AuthTypes, StartEnters, WorkersStay DEF WorkerPcs
<1> QED
  BY <1>1, <1>3, RequestMarks DEF MarkRevokePending

LEMMA RevokeEndsInv ==
  ASSUME AccountInv, NEW w \in Workers, RevokeEnds(w)
  PROVE  AccountInv'
<1>1. /\ UNCHANGED <<schemaVars, configVars, deletionVars, restVars, gate, plock, ex, rs>>
      /\ Uncounted /\ Finish(w)
  BY DEF RevokeEnds
<1>2. wk' \in [Workers -> WorkerFrames] /\ WorkersInv'
  BY <1>1, AuthTypes, FinishEnds
<1>3. CASE UNCHANGED authVars
  BY <1>1, <1>2, <1>3, WorkerOnly
<1>4. CASE identity.user = wk[w].user /\ MarkRevoked
  <2>1. wk[w].user \in Users
    BY AuthTypes DEF RevokeEnds, WorkersInv, WorkerSound
  <2>2. HasIdentity
    BY <1>4, <2>1, AuthTypes, Numbers DEF HasIdentity
  <2> QED
    BY <1>1, <1>2, <1>4, <2>2, RequestMarks DEF MarkRevoked
<1> QED
  BY <1>3, <1>4 DEF RevokeEnds

LEMMA AdminDeletesUserInv ==
  ASSUME AccountInv, NEW u \in Users, AdminDeletesUser(u)
  PROVE  AccountInv'
<1>1. /\ SameRecords /\ UNCHANGED <<gate, late, rs, backup, plock, ex, wk>>
      /\ UNCHANGED <<data, objects, hook, enabled, ptok>> /\ Call
      /\ users' \subseteq users /\ live' \subseteq live
      /\ identity' = IF identity.user = u THEN NoIdentity ELSE identity
  BY DEF AdminDeletesUser, configVars, deletionVars, restVars, SameRecords
<1>2. /\ IdentityFades /\ identity' \in Identity
      /\ (identity'.status # "none" <=> identity'.user # 0)
  BY <1>1, AuthTypes, Defaults DEF IdentityFades
<1>3. ptok' => identity'.status # "none"
  <2>1. CASE identity.user = u
    <3>1. ~ptok
      BY <2>1, Zenon DEF AdminDeletesUser
    <3>2. ptok' = ptok
      BY <1>1
    <3> QED
      BY <3>1, <3>2, Zenon
  <2>2. CASE identity.user # u
    BY <1>1, <2>2, AuthTypes
  <2> QED
    BY <2>1, <2>2
<1>4. wk' \in [Workers -> WorkerFrames] /\ WorkersInv'
  BY <1>1, WorkersStay
<1> QED
  BY <1>1, <1>2, <1>3, <1>4, AuthTypes, RequestStep

LEMMA SetConfigInv ==
  ASSUME AccountInv, NEW on \in BOOLEAN, SetConfig(on)
  PROVE  AccountInv'
<1>1. /\ SameRecords /\ UNCHANGED <<gate, late, rs, backup, plock, ex, wk>>
      /\ UNCHANGED <<users, data, objects, identity, ptok, live, hook>> /\ Call
      /\ enabled' = on
  BY DEF SetConfig, schemaVars, authVars, deletionVars, restVars, SameRecords
<1>2. enabled' \in BOOLEAN
  BY <1>1
<1>3. wk' \in [Workers -> WorkerFrames] /\ WorkersInv'
  BY <1>1, WorkersStay
<1> QED
  BY <1>1, <1>2, <1>3, AuthTypes, SameIdentity, RequestStep

\* A login is admitted only without a deletion that was ever accepted.
LEMMA LoginReactivatesInv ==
  ASSUME AccountInv, NEW w \in Workers, LoginReactivates(w)
  PROVE  AccountInv'
<1>1. /\ UNCHANGED <<users, data, objects, hook, enabled, gate, late, rs, backup, plock, ex, wk>>
      /\ SameRecords /\ Call /\ HasIdentity /\ SessionUsable(identity.user)
      /\ identity' = [identity EXCEPT !.status = "active"] /\ ptok' = TRUE
      /\ live' = live \cup {identity.user}
  BY DEF LoginReactivates, schemaVars, configVars, deletionVars, restVars, SameRecords, HasIdentity
<1>2. /\ identity' \in Identity /\ identity'.status = "active"
      /\ identity'.user = identity.user /\ identity'.gen = identity.gen /\ identity.user \in Users
  BY <1>1, AuthTypes, Numbers DEF Identity, IdentityStatuses, HasIdentity
<1>3. /\ SchemaSafe /\ EventsGrow /\ EventsInv'
      /\ \A d \in Dels : RowStays(d)
      /\ \A e \in Executors : ClaimsStay(e)
  BY <1>1, SameRows, SameSchema, SameEvents DEF SameRecords
<1>4. TypeOK'
  <2>1. ptok' \in BOOLEAN /\ live' \subseteq Users
        /\ (identity'.status # "none" <=> identity'.user # 0)
    BY <1>1, <1>2, AuthTypes, Numbers
  <2> QED
    BY <1>1, <1>2, <2>1, Counted DEF AccountInv, TypeOK, SameRecords
<1>5. DeletionsInv'
  <2>1. \A d \in Dels : OpenBlocks(d)'
    BY <1>1, <1>2 DEF AccountInv, RecordsInv, DeletionsInv, OpenBlocks, SameRecords, HasIdentity
  <2>2. nextUser' \in Nat /\ nextUser <= nextUser'
    BY <1>1, IdentityFields DEF AccountInv, SameRecords
  <2> QED
    BY <1>3, <2>1, <2>2, RowKept, EventKept, CleanKept DEF DeletionsInv, RowStays
<1>6. TokensInv' /\ IdentitySound' /\ GenerationsAdvance'
  BY <1>1, <1>2 DEF AccountInv, RecordsInv, TokensInv, TokenSound, IdentitySound,
                    GenerationsAdvance, SameRecords, HasIdentity
<1>7. AcceptedIsFinal'
  BY <1>1, <1>2 DEF SessionUsable, AcceptedIsFinal, SameRecords
<1>8. ExecutorsInv' /\ WorkersInv' /\ RestoreSound'
  BY <1>1, <1>3, ExecutorsStay, WorkersStay DEF AccountInv, RestoreSound
<1> QED
  BY <1>3, <1>4, <1>5, <1>6, <1>7, <1>8 DEF AccountInv, RecordsInv

-----------------------------------------------------------------------------
(* Signing up *)

\* The next generation is later than every fenced one and not above the user.
LEMMA NextGenerationAbove ==
  ASSUME AccountInv
  PROVE  /\ NextGeneration \in Nat /\ NextGeneration <= nextUser
         /\ \A d \in Dels : fence[d] # "none" => NextGeneration > del[d].gen
<1> DEFINE S == {0} \cup {del[d].gen : d \in {c \in Dels : fence[c] # "none"}}
<1>1. MaxUsers \in Nat /\ nextUser \in Nat /\ nextUser # 0
  BY Numbers DEF AccountInv, TypeOK
<1>2. \A d \in Dels : del[d].gen \in 0..MaxUsers /\ del[d].gen < nextUser
  BY <1>1, RowFields DEF AccountInv, RecordsInv, DeletionsInv, RowSound
<1>3. S \in SUBSET (0..MaxUsers) /\ 0 \in S /\ \A x \in S : x \in Nat /\ x < nextUser
  BY <1>1, <1>2
<1>4. \A d \in Dels : fence[d] # "none" => del[d].gen \in S
  OBVIOUS
<1>5. NextGeneration = Max(S) + 1
  BY DEF NextGeneration
<1> HIDE DEF S
<1>6. Max(S) \in S /\ \A y \in S : y <= Max(S)
  BY <1>1, <1>3, MaxOfBounded
<1>7. Max(S) \in Nat /\ Max(S) < nextUser
  BY <1>1, <1>3, <1>6
<1>8. \A d \in Dels : fence[d] # "none" => del[d].gen <= Max(S)
  BY <1>4, <1>6
<1>9. \A d \in Dels : fence[d] # "none" => Max(S) + 1 > del[d].gen
  BY <1>2, <1>7, <1>8
<1> QED
  BY <1>1, <1>5, <1>7, <1>9

\* The subject comes back: nothing of it is under way and its old tokens go.
LEMMA LoginSignsUpInv ==
  ASSUME AccountInv, NEW w \in Workers, LoginSignsUp(w)
  PROVE  AccountInv'
<1> DEFINE i == [status |-> "active", user |-> nextUser, gen |-> NextGeneration]
<1>1. /\ UNCHANGED <<data, objects, hook, enabled, fence, ev, backup, late, gate, plock, wk, ex, rs>>
      /\ ~HasIdentity /\ nextUser <= MaxUsers /\ MaySignUp /\ Uncounted /\ ptok' = TRUE
      /\ users' = users \cup {nextUser} /\ live' = live \cup {nextUser}
      /\ nextUser' = nextUser + 1 /\ identity' = i
      /\ dtok' = [t \in TokenIds |-> IF Superseded(t) THEN NoToken ELSE dtok[t]]
      /\ del' = [d \in Dels |->
               IF fence[d] = "done" /\ del[d].revocation = "pending"
               THEN [del[d] EXCEPT !.revocation = "superseded"] ELSE del[d]]
  BY DEF LoginSignsUp, configVars
<1>2. nextUser \in Users /\ nextUser \in Nat /\ MaxUsers \in Nat /\ Users = 1..MaxUsers
  BY <1>1, Numbers DEF AccountInv, TypeOK
<1>3. NextGeneration \in 0..MaxUsers
  BY <1>1, <1>2, NextGenerationAbove
<1>4. i \in Identity /\ i.status = "active" /\ i.user = nextUser /\ i.gen = NextGeneration
  BY <1>2, <1>3 DEF Identity, IdentityStatuses
<1> HIDE DEF i
<1>5. \A d \in Dels :
        /\ del'[d] \in Deletion /\ del'[d].status = del[d].status /\ del'[d].phase = del[d].phase
        /\ del'[d].user = del[d].user /\ del'[d].gen = del[d].gen
        /\ del'[d].event = del[d].event /\ del'[d].holder = del[d].holder
  <2> TAKE d \in Dels
  <2> DEFINE g == [del[d] EXCEPT !.revocation = "superseded"]
  <2>1. del[d] \in Deletion
    BY RowFields DEF AccountInv
  <2>2. del'[d] = del[d] \/ del'[d] = g
    BY <1>1
  <2>3. /\ g \in Deletion /\ g.status = del[d].status /\ g.phase = del[d].phase
        /\ g.user = del[d].user /\ g.gen = del[d].gen
        /\ g.event = del[d].event /\ g.holder = del[d].holder
    BY <2>1 DEF Deletion, Revocations
  <2> HIDE DEF g
  <2> QED
    BY <2>1, <2>2, <2>3
<1>6. del' \in [Dels -> Deletion] /\ dtok' \in [TokenIds -> Token]
  <2>1. del' = [d \in Dels |-> del'[d]]
    BY <1>1
  <2>2. dtok' \in [TokenIds -> Token]
    BY <1>1, Defaults DEF AccountInv, TypeOK
  <2> QED
    BY <1>5, <2>1, <2>2
<1>7. /\ \A d \in Dels : RowStays(d)
      /\ \A e \in Executors : ClaimsStay(e)
  BY <1>1, <1>5 DEF AccountInv, RecordsInv, DeletionsInv, RowSound, RowStays,
                    ClaimsStay, HoldsDeletion
<1>8. \A d \in Dels : del[d].user # nextUser /\ del[d].user \in Nat
  BY RowFields DEF AccountInv, RecordsInv, DeletionsInv, RowSound
<1>9. SchemaSafe /\ EventsGrow /\ EventsInv'
  BY <1>1, <1>8, SameEvents DEF SchemaSafe
<1>10. TypeOK'
  <2>1. /\ users' \subseteq Users /\ live' \subseteq Users /\ nextUser' \in 1..(MaxUsers + 1)
        /\ ptok' \in BOOLEAN /\ (identity'.status # "none" <=> identity'.user # 0)
        /\ identity' \in Identity /\ identity'.status # "none"
    BY <1>1, <1>2, <1>4 DEF AccountInv, TypeOK
  <2> QED
    BY <1>1, <1>6, <2>1, Counted DEF AccountInv, TypeOK
<1>11. \A d \in Dels : fence[d] # "open"
  BY <1>1 DEF AccountInv, RecordsInv, DeletionsInv, RowSound, MaySignUp, Final
<1>12. DeletionsInv'
  <2>1. \A d \in Dels : OpenBlocks(d)'
    BY <1>1, <1>11 DEF OpenBlocks
  <2>2. nextUser' \in Nat /\ nextUser <= nextUser'
    BY <1>1, <1>2
  <2> QED
    BY <1>5, <1>7, <1>9, <2>1, <2>2, RowKept, EventKept, CleanKept DEF DeletionsInv
<1>13. TokensInv'
  <2> SUFFICES ASSUME NEW t \in TokenIds, dtok'[t].status # "none"
               PROVE  dtok'[t].d \in Dels /\ fence'[dtok'[t].d] # "done"
    BY DEF TokensInv, TokenSound
  <2>1. dtok'[t] = dtok[t] /\ ~Superseded(t)
    BY <1>1, Defaults
  <2>2. dtok[t].d \in Dels /\ dtok[t].status \in {"pending", "in_flight"}
    BY <2>1 DEF AccountInv, TypeOK, RecordsInv, TokensInv, TokenSound, Token
  <2> QED
    BY <1>1, <2>1, <2>2 DEF MaySignUp, Superseded
<1>14. IdentitySound' /\ GenerationsAdvance'
  <2>1. IdentitySound'
    BY <1>1, <1>2, <1>4, NextGenerationAbove DEF IdentitySound
  <2>2. GenerationsAdvance
    BY DEF AccountInv, RecordsInv
  <2> QED
    BY <1>1, <1>4, <1>5, <2>1, <2>2, NextGenerationAbove DEF GenerationsAdvance
<1>15. AcceptedIsFinal'
  BY <1>1, <1>4, <1>5, <1>8 DEF AcceptedIsFinal
<1>16. ExecutorsInv' /\ WorkersInv' /\ RestoreSound'
  BY <1>1, <1>7, <1>9, ExecutorsStay, WorkersStay DEF AccountInv, RestoreSound
<1> QED
  BY <1>9, <1>10, <1>12, <1>13, <1>14, <1>15, <1>16 DEF AccountInv, RecordsInv
-----------------------------------------------------------------------------
(* Writes, backups and notifications on their way *)

\* A request that writes after the acceptance is recorded.
LEMMA RequestWritesInv ==
  ASSUME AccountInv, NEW w \in Workers, RequestWrites(w)
  PROVE  AccountInv'
<1> DEFINE u == wk[w].user
<1>1. /\ wk[w].pc = "write" /\ Uncounted /\ Finish(w) /\ SameRecords
      /\ UNCHANGED <<users, identity, ptok, live, hook, enabled, backup, gate, plock, ex, rs>>
      /\ data' \subseteq data \cup {u} /\ objects' \subseteq objects \cup {u}
      /\ late' = IF \E d \in Dels : del[d].user = u /\ del[d].status \in Final
                 THEN late \cup {u} ELSE late
  BY DEF RequestWrites, authVars, configVars, deletionVars, SameRecords
<1>2. u \in Users
  BY <1>1, AuthTypes DEF WorkersInv, WorkerSound
<1>3. data' \subseteq Users /\ objects' \subseteq Users /\ late' \subseteq Users
  BY <1>1, <1>2 DEF AccountInv, TypeOK
<1>4. SchemaSafe
  <2> SUFFICES ASSUME NEW d \in Dels, del[d].status \in Final
               PROVE  /\ late \subseteq late' /\ (del[d].user = u => u \in late')
    BY <1>1 DEF SchemaSafe
  <2> QED
    BY <1>1
<1>5. wk' \in [Workers -> WorkerFrames] /\ WorkersInv'
  BY <1>1, AuthTypes, FinishEnds
<1>6. RecordsInv' /\ EventsInv' /\ \A e \in Executors : ClaimsStay(e)
  BY <1>1, <1>4, RecordsSteady, SameIdentity
<1>7. ExecutorsInv' /\ RestoreSound'
  BY <1>1, <1>4, <1>6, ExecutorsStay DEF AccountInv, RestoreSound
<1>8. TypeOK'
  BY <1>1, <1>3, <1>5, Counted DEF AccountInv, TypeOK, SameRecords, WorkerFrames
<1> QED
  BY <1>5, <1>6, <1>7, <1>8 DEF AccountInv

LEMMA TakeBackupInv ==
  ASSUME AccountInv, TakeBackup
  PROVE  AccountInv'
<1>1. /\ Call /\ SameRecords /\ backup' = [users |-> users, data |-> data]
      /\ UNCHANGED <<users, data, objects, identity, ptok, live, hook, enabled, late, gate, plock,
                     wk, ex, rs>>
  BY DEF TakeBackup, schemaVars, authVars, configVars, deletionVars, SameRecords
<1>2. SchemaSafe
  BY <1>1, SameSchema
<1>3. RecordsInv' /\ EventsInv' /\ \A e \in Executors : ClaimsStay(e)
  BY <1>1, <1>2, RecordsSteady, SameIdentity
<1>4. ExecutorsInv' /\ RestoreSound' /\ WorkersInv'
  BY <1>1, <1>2, <1>3, ExecutorsStay, WorkersStay DEF AccountInv, RestoreSound
<1>5. backup' \in [users: SUBSET Users, data: SUBSET Users]
  BY <1>1 DEF AccountInv, TypeOK
<1>6. TypeOK'
  BY <1>1, <1>5, Counted DEF AccountInv, TypeOK, SameRecords
<1> QED
  BY <1>3, <1>4, <1>6 DEF AccountInv

\* Only the log of notifications changes.
LEMMA EventsOnly ==
  ASSUME AccountInv, ev' \in [Events -> Event], EventsGrow, EventsInv', Call \/ Fault \/ Uncounted,
         UNCHANGED <<schemaVars, authVars, configVars, deletionVars, backup, late,
                     nextUser, gate, plock, wk, ex, rs>>
  PROVE  AccountInv'
<1>1. UNCHANGED <<users, data, objects, identity, ptok, live, hook, enabled, del, fence, dtok>>
  BY DEF schemaVars, authVars, configVars, deletionVars
<1>2. SchemaSafe /\ RowsStay /\ (\A e \in Executors : ClaimsStay(e)) /\ IdentityFades /\ TokensFade
  BY <1>1, SameSchema, SameRows, SameIdentity, SameTokens
<1>3. RecordsInv'
  BY <1>2, RecordsKept
<1>4. ExecutorsInv' /\ RestoreSound' /\ WorkersInv'
  BY <1>2, ExecutorsStay, WorkersStay DEF AccountInv, RestoreSound
<1>5. TypeOK'
  BY <1>1, Counted DEF AccountInv, TypeOK
<1> QED
  BY <1>3, <1>4, <1>5 DEF AccountInv

LEMMA EventFields ==
  ASSUME AccountInv, NEW e \in Events
  PROVE  /\ ev[e] \in Event /\ ev \in [Events -> Event] /\ EventSound(e)
         /\ ev[e].user \in 0..MaxUsers /\ ev[e].before \in Nat
BY Numbers DEF AccountInv, TypeOK, EventsInv, Event

LEMMA AppleEmitsInv ==
  ASSUME AccountInv, NEW e \in Events, NEW kind \in {"consent-revoked", "account-deleted"},
         AppleEmits(e, kind)
  PROVE  AccountInv'
<1> DEFINE g == [ev[e] EXCEPT !.kind = kind, !.before = nextUser]
<1>1. /\ ev' = [ev EXCEPT ![e].kind = kind, ![e].before = nextUser] /\ ev[e].kind = "none"
      /\ Uncounted
      /\ UNCHANGED <<schemaVars, authVars, configVars, deletionVars, backup, late,
                     nextUser, gate, plock, wk, ex, rs>>
  BY DEF AppleEmits, FreeEvent
<1>2. ev[e] \in Event /\ ev \in [Events -> Event] /\ EventSound(e)
  BY EventFields
<1>3. nextUser \in 0..(MaxUsers + 1)
  BY Numbers DEF AccountInv, TypeOK
<1>4. g \in Event /\ g.kind = kind /\ g.row = ev[e].row
  BY <1>2, <1>3 DEF Event
<1>5. ev' = [ev EXCEPT ![e] = g]
  BY <1>1, <1>2
<1> HIDE DEF g
<1>6. ev' \in [Events -> Event] /\ ev'[e] = g /\ \A f \in Events \ {e} : ev'[f] = ev[f]
  BY <1>2, <1>4, <1>5
<1>7. EventsGrow
  BY <1>1, <1>6 DEF EventsGrow
<1>8. \A f \in Events : EventSound(f)'
  BY <1>1, <1>2, <1>4, <1>6 DEF AccountInv, EventsInv, EventSound
<1> QED
  BY <1>1, <1>6, <1>7, <1>8, EventsOnly DEF EventsInv

-----------------------------------------------------------------------------
(* Intents, leases and claims: the rows stay *)

LEMMA RowsStep ==
  ASSUME AccountInv, RowsStay, TokensFade, del' \in [Dels -> Deletion], dtok' \in [TokenIds -> Token],
         UNCHANGED <<schemaVars, authVars, configVars, fence, restVars, gate, rs>>,
         plock' \in Executors \cup {Nobody, Restorer},
         ex' \in [Executors -> ExecutorFrames], ExecutorsInv',
         wk' \in [Workers -> WorkerFrames], WorkersInv', Call \/ Fault \/ Uncounted
  PROVE  AccountInv'
<1>1. UNCHANGED <<users, data, objects, identity, ptok, live, hook, enabled, ev, backup, late, nextUser>>
  BY DEF schemaVars, authVars, configVars, restVars
<1>2. SchemaSafe /\ IdentityFades /\ EventsGrow /\ EventsInv'
  BY <1>1, SameSchema, SameIdentity, SameEvents
<1>3. RecordsInv' /\ RestoreSound'
  BY <1>1, <1>2, RecordsKept DEF AccountInv, RestoreSound
<1>4. TypeOK'
  BY <1>1, Counted DEF AccountInv, TypeOK, WorkerFrames, ExecutorFrames
<1> QED
  BY <1>2, <1>3, <1>4 DEF AccountInv

\* One row changes, and stays where it is.
LEMMA OneRowStays ==
  ASSUME AccountInv, NEW d \in Dels, RowStays(d), fence' = fence,
         \A c \in Dels \ {d} : del'[c] = del[c]
  PROVE  RowsStay
<1>1. \A c \in Dels : RowSound(c)
  BY DEF AccountInv, RecordsInv, DeletionsInv
<1>2. \A c \in Dels \ {d} : RowStays(c)
  BY <1>1 DEF RowStays, RowSound
<1> QED
  BY <1>2 DEF RowsStay

LEMMA OneRowClaims ==
  ASSUME AccountInv, NEW d \in Dels, RowStays(d), NEW e \in Executors,
         \A c \in Dels \ {d} : del'[c] = del[c],
         HoldsDeletion(e, d)' => HoldsDeletion(e, d)
  PROVE  ClaimsStay(e)
BY DEF ClaimsStay, RowStays, HoldsDeletion, Final

\* An executor does not move, a row changes its lease, its confirmer or the state
\* of its revocation.
LEMMA QuietRow ==
  ASSUME AccountInv, NEW d \in Dels, NEW g \in Deletion, del' = [del EXCEPT ![d] = g],
         g.status = del[d].status, g.phase = del[d].phase, g.user = del[d].user,
         g.gen = del[d].gen, g.event = del[d].event, g.holder = del[d].holder, fence' = fence
  PROVE  /\ RowsStay /\ del' \in [Dels -> Deletion]
         /\ \A e \in Executors : ClaimsStay(e)
<1>1. /\ del' \in [Dels -> Deletion] /\ del'[d] = g
      /\ \A c \in Dels \ {d} : del'[c] = del[c]
  BY DEF AccountInv, TypeOK
<1>2. RowStays(d)
  BY <1>1 DEF RowStays, AccountInv, RecordsInv, DeletionsInv, RowSound
<1>3. RowsStay
  BY <1>1, <1>2, OneRowStays
<1>4. \A e \in Executors : ClaimsStay(e)
  BY <1>1, <1>2, OneRowClaims DEF HoldsDeletion
<1> QED
  BY <1>1, <1>3, <1>4

LEMMA ExecutorTypes ==
  ASSUME AccountInv
  PROVE  /\ ex \in [Executors -> ExecutorFrames] /\ plock \in Executors \cup {Nobody, Restorer}
         /\ del \in [Dels -> Deletion] /\ dtok \in [TokenIds -> Token] /\ ExecutorsInv /\ TypeOK
BY DEF AccountInv, TypeOK, ExecutorFrames

\* A step that only changes one row in this way, and perhaps moves a worker.
LEMMA QuietRowStep ==
  ASSUME AccountInv, NEW d \in Dels, NEW g \in Deletion, del' = [del EXCEPT ![d] = g],
         g.status = del[d].status, g.phase = del[d].phase, g.user = del[d].user,
         g.gen = del[d].gen, g.event = del[d].event, g.holder = del[d].holder,
         UNCHANGED <<schemaVars, authVars, configVars, fence, dtok, restVars, gate, plock, ex, rs>>,
         wk' \in [Workers -> WorkerFrames], WorkersInv', Call \/ Fault \/ Uncounted
  PROVE  AccountInv'
<1>1. RowsStay /\ del' \in [Dels -> Deletion] /\ \A e \in Executors : ClaimsStay(e)
  BY QuietRow
<1>2. SchemaSafe
  BY SameSchema DEF schemaVars, restVars
<1>3. ExecutorsInv'
  BY <1>1, <1>2, ExecutorsStay
<1> QED
  BY <1>1, <1>3, ExecutorTypes, SameTokens, RowsStep

LEMMA ReadExpiresIntentInv ==
  ASSUME AccountInv, NEW d \in Dels, ReadExpiresIntent(d)
  PROVE  AccountInv'
<1> DEFINE g == [del[d] EXCEPT !.status = "expired", !.confirmer = Nobody]
<1>1. /\ del[d].status = "pending_confirmation" /\ Uncounted
      /\ del' = [del EXCEPT ![d].status = "expired", ![d].confirmer = Nobody]
      /\ UNCHANGED <<schemaVars, authVars, configVars, fence, dtok, restVars, gate,
                     plock, wk, ex, rs>>
  BY DEF ReadExpiresIntent
<1>2. del[d] \in Deletion /\ RowSound(d) /\ del \in [Dels -> Deletion]
  BY ExecutorTypes DEF AccountInv, RecordsInv, DeletionsInv
<1>3. /\ g \in Deletion /\ g.status = "expired" /\ g.phase = del[d].phase /\ g.user = del[d].user
      /\ g.gen = del[d].gen /\ g.event = del[d].event /\ g.holder = del[d].holder
  BY <1>2 DEF Deletion, Statuses
<1>4. del' = [del EXCEPT ![d] = g]
  BY <1>1, <1>2
<1> HIDE DEF g
<1>5. /\ del' \in [Dels -> Deletion] /\ del'[d] = g
      /\ \A c \in Dels \ {d} : del'[c] = del[c]
  BY <1>2, <1>3, <1>4
<1>6. RowStays(d)
  BY <1>1, <1>2, <1>3, <1>5 DEF RowStays, RowSound, Underway
<1>7. RowsStay /\ \A e \in Executors : ClaimsStay(e)
  BY <1>1, <1>3, <1>5, <1>6, OneRowStays, OneRowClaims DEF HoldsDeletion
<1>8. SchemaSafe
  BY <1>1, SameSchema DEF schemaVars, restVars
<1>9. ExecutorsInv'
  BY <1>1, <1>7, <1>8, ExecutorsStay
<1> QED
  BY <1>1, <1>5, <1>7, <1>9, ExecutorTypes, WorkersStay, SameTokens, RowsStep

LEMMA ConfirmClaimsInv ==
  ASSUME AccountInv, NEW w \in Workers, NEW d \in Dels, ConfirmClaims(w, d)
  PROVE  AccountInv'
<1> DEFINE g == [del[d] EXCEPT !.confirmer = w]
<1>1. /\ del' = [del EXCEPT ![d].confirmer = w] /\ Call /\ Start(w, "accept", d, del[d].user)
      /\ UNCHANGED <<schemaVars, authVars, configVars, fence, dtok, restVars, gate, plock, ex, rs>>
  BY DEF ConfirmClaims
<1>2. del[d] \in Deletion /\ del \in [Dels -> Deletion] /\ del[d].user \in 0..MaxUsers
  BY ExecutorTypes, RowFields
<1>3. /\ g \in Deletion /\ g.status = del[d].status /\ g.phase = del[d].phase
      /\ g.user = del[d].user /\ g.gen = del[d].gen /\ g.event = del[d].event
      /\ g.holder = del[d].holder
  BY <1>2 DEF Deletion
<1>4. del' = [del EXCEPT ![d] = g]
  BY <1>1, <1>2
<1> HIDE DEF g
<1>5. d \in 0..MaxDeletions
  BY Numbers
<1>6. wk' \in [Workers -> WorkerFrames] /\ WorkersInv'
  BY <1>1, <1>2, <1>5, AuthTypes, StartEnters DEF WorkerPcs
<1> QED
  BY <1>1, <1>3, <1>4, <1>6, QuietRowStep

LEMMA ConfirmLeaseExpiresInv ==
  ASSUME AccountInv, NEW d \in Dels, ConfirmLeaseExpires(d)
  PROVE  AccountInv'
<1> DEFINE g == [del[d] EXCEPT !.confirmer = Nobody]
<1>1. /\ del' = [del EXCEPT ![d].confirmer = Nobody] /\ Uncounted
      /\ UNCHANGED <<schemaVars, authVars, configVars, fence, dtok, restVars, gate, plock, wk, ex, rs>>
  BY DEF ConfirmLeaseExpires
<1>2. del[d] \in Deletion /\ del \in [Dels -> Deletion]
  BY ExecutorTypes
<1>3. /\ g \in Deletion /\ g.status = del[d].status /\ g.phase = del[d].phase
      /\ g.user = del[d].user /\ g.gen = del[d].gen /\ g.event = del[d].event
      /\ g.holder = del[d].holder
  BY <1>2 DEF Deletion
<1>4. del' = [del EXCEPT ![d] = g]
  BY <1>1, <1>2
<1> HIDE DEF g
<1> QED
  BY <1>1, <1>3, <1>4, WorkersStay, QuietRowStep

\* A lease of a row runs out or is renewed.
LEMMA DeletionLeaseInv ==
  ASSUME AccountInv, NEW d \in Dels, NEW lease \in LeaseStates, del' = [del EXCEPT ![d].lease = lease],
         UNCHANGED <<schemaVars, authVars, configVars, fence, dtok, restVars, gate, plock, wk, ex, rs>>,
         Fault \/ Uncounted
  PROVE  AccountInv'
<1> DEFINE g == [del[d] EXCEPT !.lease = lease]
<1>1. del[d] \in Deletion /\ del \in [Dels -> Deletion]
  BY ExecutorTypes
<1>2. /\ g \in Deletion /\ g.status = del[d].status /\ g.phase = del[d].phase
      /\ g.user = del[d].user /\ g.gen = del[d].gen /\ g.event = del[d].event
      /\ g.holder = del[d].holder
  BY <1>1 DEF Deletion
<1>3. del' = [del EXCEPT ![d] = g]
  BY <1>1
<1> HIDE DEF g
<1> QED
  BY <1>2, <1>3, WorkersStay, QuietRowStep

\* An intent replaces the open ones of the same user, none of them accepted.
LEMMA CreateIntentInv ==
  ASSUME AccountInv, NEW d \in Dels, CreateIntent(d)
  PROVE  AccountInv'
<1> DEFINE n == [NoDeletion EXCEPT !.status = "pending_confirmation",
                                   !.user = identity.user, !.gen = identity.gen]
           x(c) == [del[c] EXCEPT !.status = "expired", !.confirmer = Nobody]
<1>1. /\ Uncounted /\ SessionUsable(identity.user) /\ del[d].status = "none"
      /\ UNCHANGED <<schemaVars, authVars, configVars, fence, dtok, restVars, gate,
                     plock, wk, ex, rs>>
      /\ del' = [c \in Dels |-> IF c = d THEN n
                               ELSE IF c \in ActiveDeletions(identity.user) THEN x(c) ELSE del[c]]
  BY DEF CreateIntent, FreeDeletion
<1>2. \A c \in Dels : del[c] \in Deletion /\ RowSound(c)
  BY ExecutorTypes DEF AccountInv, RecordsInv, DeletionsInv
<1>3. /\ n \in Deletion /\ n.status = "pending_confirmation" /\ n.phase = "awaiting_confirmation"
      /\ n.user = identity.user /\ n.gen = identity.gen /\ n.event = 0 /\ n.holder = Nobody
  BY Defaults, IdentityFields, AuthTypes DEF Deletion, Statuses
<1>4. \A c \in Dels :
        /\ x(c) \in Deletion /\ x(c).status = "expired" /\ x(c).phase = del[c].phase
        /\ x(c).user = del[c].user /\ x(c).gen = del[c].gen /\ x(c).event = del[c].event
        /\ x(c).holder = del[c].holder
  BY <1>2 DEF Deletion, Statuses
<1>5. /\ del'[d] = n
      /\ \A c \in Dels \ {d} : c \in ActiveDeletions(identity.user) => del'[c] = x(c)
      /\ \A c \in Dels \ {d} : c \notin ActiveDeletions(identity.user) => del'[c] = del[c]
      /\ del' = [c \in Dels |-> del'[c]]
  BY <1>1
<1> HIDE DEF n, x
<1>6. del' \in [Dels -> Deletion]
  BY <1>2, <1>3, <1>4, <1>5
<1>7. RowDrafted(d)
  BY <1>1, <1>2, <1>3, <1>5 DEF RowDrafted, RowSound, Final, Underway
<1>8. \A c \in Dels \ {d} : RowStays(c)
  <2> TAKE c \in Dels \ {d}
  <2>1. CASE c \in ActiveDeletions(identity.user)
    <3>1. del[c].status \notin Final
      BY <1>1, <2>1 DEF SessionUsable, ActiveDeletions
    <3>2. del'[c] = x(c)
      BY <1>5, <2>1
    <3> QED
      BY <1>1, <1>2, <1>4, <3>1, <3>2 DEF RowStays, RowSound, Final, Underway
  <2>2. CASE c \notin ActiveDeletions(identity.user)
    BY <1>1, <1>2, <1>5, <2>2 DEF RowStays, RowSound
  <2> QED
    BY <2>1, <2>2
<1>9. RowsStay
  BY <1>7, <1>8 DEF RowsStay
<1>10. \A e \in Executors : ClaimsStay(e)
  <2> SUFFICES ASSUME NEW c \in Dels, del[c].status \in Final PROVE del'[c] = del[c]
    BY DEF ClaimsStay, HoldsDeletion
  <2>1. c # d /\ c \notin ActiveDeletions(identity.user)
    BY <1>1 DEF SessionUsable, ActiveDeletions, Final, Underway
  <2> QED
    BY <1>5, <2>1
<1>11. SchemaSafe
  BY <1>1, SameSchema DEF schemaVars, restVars
<1>12. ExecutorsInv'
  BY <1>1, <1>10, <1>11, ExecutorsStay
<1> QED
  BY <1>1, <1>6, <1>9, <1>12, ExecutorTypes, WorkersStay, SameTokens, RowsStep
-----------------------------------------------------------------------------
(* Acceptance *)

LEMMA TokenRows ==
  ASSUME NEW d \in Dels, NEW purpose \in {"accepted_deletion", "reauth_compensation"}
  PROVE  /\ StoredToken(d, purpose) \in Token /\ StoredToken(d, purpose).d = d
         /\ StoredToken(d, purpose).purpose = purpose
<1>1. d \in 0..MaxDeletions
  BY Numbers
<1> QED
  BY <1>1, Defaults DEF StoredToken, Token

\* The accepted row: nobody else is fenced for this user, so its generation is
\* above all that are fenced; the identity waits for its deletion.
LEMMA AcceptanceSound ==
  ASSUME AccountInv, NEW d \in Dels, NEW g \in Deletion, del[d].status \notin Final,
         del' = [del EXCEPT ![d] = g],
         g.status = "accepted", g.phase = "business_cleanup", g.user = identity.user,
         g.gen = identity.gen, g.holder = Nobody, EventNamed(d)',
         fence' = [fence EXCEPT ![d] = "open"], FenceFree(identity.user), HasIdentity,
         MarkIdentity("deletion_pending"), EventsGrow,
         \A t \in TokenIds : dtok'[t].status # "none" =>
           \/ dtok'[t].d = d
           \/ /\ dtok[t].status # "none" /\ dtok'[t].d = dtok[t].d
              /\ dtok'[t].purpose = dtok[t].purpose,
         UNCHANGED <<users, data, objects, late, gate, nextUser>>
  PROVE  /\ RecordsInv' /\ del' \in [Dels -> Deletion]
         /\ fence' \in [Dels -> {"none", "open", "done"}]
         /\ \A e \in Executors : ClaimsStay(e)
<1>1. /\ del' \in [Dels -> Deletion] /\ del'[d] = g
      /\ \A c \in Dels \ {d} : del'[c] = del[c]
  BY ExecutorTypes
<1>2. /\ fence' \in [Dels -> {"none", "open", "done"}] /\ fence'[d] = "open"
      /\ \A c \in Dels \ {d} : fence'[c] = fence[c]
  BY DEF AccountInv, TypeOK
<1>3. /\ IdentityFades /\ identity'.status = "deletion_pending"
      /\ identity'.user = identity.user /\ identity'.gen = identity.gen
  BY AuthTypes, MarkFades
<1>4. \A c \in Dels : RowSound(c)
  BY DEF AccountInv, RecordsInv, DeletionsInv
<1>5. \A c \in Dels \ {d} : RowStays(c)
  BY <1>1, <1>2, <1>4 DEF RowStays, RowSound
<1>6. SchemaSafe
  BY SameSchema
<1>7. nextUser' \in Nat /\ nextUser <= nextUser' /\ identity.user \in Nat /\ identity.gen \in Nat
  BY IdentityFields, AuthTypes
<1>8. IdentitySound /\ IdentitySound'
  BY <1>3, <1>7, IdentityKept DEF AccountInv, RecordsInv
<1>9. DeletionsInv'
  <2>1. RowSound(d)'
    BY <1>1, <1>2, <1>8 DEF RowSound, IdentitySound, Final, Underway, WorkPhases
  <2>2. OpenBlocks(d)' /\ Cleaned(d)'
    BY <1>1, <1>3 DEF OpenBlocks, Cleaned
  <2>3. \A c \in Dels \ {d} : RowSound(c)' /\ EventNamed(c)' /\ OpenBlocks(c)' /\ Cleaned(c)'
    BY <1>3, <1>5, <1>6, <1>7, RowKept, EventKept, CleanKept, OpenKept DEF RowStays
  <2> QED
    BY <2>1, <2>2, <2>3 DEF DeletionsInv
<1>10. TokensInv'
  <2> SUFFICES ASSUME NEW t \in TokenIds, dtok'[t].status # "none" PROVE TokenSound(t)'
    BY DEF TokensInv, TokenSound
  <2>1. CASE dtok'[t].d = d
    BY <1>2, <2>1 DEF TokenSound
  <2>2. CASE dtok'[t].d # d
    <3>1. TokenSound(t) /\ dtok[t].status # "none" /\ dtok'[t].d = dtok[t].d
          /\ dtok'[t].purpose = dtok[t].purpose
      BY <2>2 DEF AccountInv, RecordsInv, TokensInv
    <3>2. dtok[t].d \in Dels \ {d}
      BY <2>2, <3>1 DEF TokenSound
    <3> QED
      BY <1>1, <1>2, <1>3, <3>1, <3>2 DEF TokenSound, HasIdentity
  <2> QED
    BY <2>1, <2>2
<1>11. GenerationsAdvance'
  <2>1. GenerationsAdvance
    BY DEF AccountInv, RecordsInv
  <2>2. \A c \in Dels \ {d} : fence[c] # "none" => identity.gen > del[c].gen /\ del[c].gen \in Nat
    BY <2>1, RowFields, AuthTypes DEF FenceFree, GenerationsAdvance
  <2>3. \A c \in Dels \ {d} : fence[c] # "none" => del'[c].gen # del'[d].gen
    BY <1>1, <1>7, <2>2
  <2> QED
    BY <1>1, <1>2, <1>3, <2>1, <2>2, <2>3 DEF GenerationsAdvance
<1>12. AcceptedIsFinal'
  BY <1>3 DEF AcceptedIsFinal
<1>13. \A e \in Executors : ClaimsStay(e)
  BY <1>1 DEF ClaimsStay, HoldsDeletion
<1> QED
  BY <1>1, <1>2, <1>8, <1>9, <1>10, <1>11, <1>12, <1>13 DEF RecordsInv

LEMMA ConfirmAcceptsInv ==
  ASSUME AccountInv, NEW w \in Workers, NEW t \in TokenIds, ConfirmAccepts(w, t)
  PROVE  AccountInv'
<1>1. PICK d \in Dels : d = wk[w].d
  BY AuthTypes DEF ConfirmAccepts, WorkersInv, WorkerSound
<1> DEFINE g == [del[d] EXCEPT !.status = "accepted", !.phase = "business_cleanup",
                               !.confirmer = Nobody, !.revocation = "pending"]
           k == StoredToken(d, "accepted_deletion")
<1>2. /\ wk[w].pc = "accept" /\ Uncounted /\ Confirmable(w, d) /\ Finish(w)
      /\ fence' = [fence EXCEPT ![d] = "open"] /\ dtok' = [dtok EXCEPT ![t] = k]
      /\ MarkIdentity("deletion_pending")
      /\ del' = [del EXCEPT ![d].status = "accepted", ![d].phase = "business_cleanup",
                            ![d].confirmer = Nobody, ![d].revocation = "pending"]
      /\ UNCHANGED <<schemaVars, ptok, configVars, restVars, gate, plock, ex, rs>>
  BY <1>1 DEF ConfirmAccepts
<1>3. UNCHANGED <<users, data, objects, hook, enabled, ev, backup, late, nextUser>>
  BY <1>2 DEF schemaVars, configVars, restVars
<1>4. del[d] \in Deletion /\ del \in [Dels -> Deletion] /\ RowSound(d) /\ EventNamed(d)
  BY ExecutorTypes DEF AccountInv, RecordsInv, DeletionsInv
<1>5. /\ g \in Deletion /\ g.status = "accepted" /\ g.phase = "business_cleanup"
      /\ g.user = del[d].user /\ g.gen = del[d].gen /\ g.holder = del[d].holder
      /\ g.event = del[d].event
  BY <1>4 DEF Deletion, Statuses, Phases, Revocations
<1>6. del' = [del EXCEPT ![d] = g]
  BY <1>2, <1>4
<1>7. /\ del[d].status \notin Final /\ FenceFree(identity.user) /\ HasIdentity
      /\ del[d].user = identity.user /\ del[d].gen = identity.gen /\ del[d].holder = Nobody
  BY <1>2, <1>4 DEF Confirmable, RowSound, Final, Underway, HasIdentity
<1>8. k \in Token /\ k.d = d
  BY TokenRows
<1> HIDE DEF g, k
<1>9. /\ dtok' \in [TokenIds -> Token]
      /\ dtok'[t].d = d /\ \A s \in TokenIds \ {t} : dtok'[s] = dtok[s]
  BY <1>2, <1>8, ExecutorTypes
<1>10. EventsGrow /\ EventsInv' /\ EventNamed(d)'
  <2>1. del'[d].event = del[d].event /\ del'[d].user = del[d].user
    BY <1>4, <1>5, <1>6
  <2> QED
    BY <1>3, <2>1, SameEvents, EventKept
<1>11. /\ RecordsInv' /\ del' \in [Dels -> Deletion] /\ fence' \in [Dels -> {"none", "open", "done"}]
       /\ \A e \in Executors : ClaimsStay(e)
  <2>1. /\ fence' = [fence EXCEPT ![d] = "open"] /\ MarkIdentity("deletion_pending")
        /\ UNCHANGED <<users, data, objects, late, gate, nextUser>>
    BY <1>2, <1>3
  <2>2. g.user = identity.user /\ g.gen = identity.gen /\ g.holder = Nobody
    BY <1>5, <1>7
  <2>3. \A s \in TokenIds : dtok'[s] = dtok[s] \/ dtok'[s].d = d
    BY <1>9
  <2> QED
    BY <1>5, <1>6, <1>7, <1>10, <2>1, <2>2, <2>3, AcceptanceSound
<1>12. wk' \in [Workers -> WorkerFrames] /\ WorkersInv'
  BY <1>2, AuthTypes, FinishEnds
<1>13. ExecutorsInv' /\ RestoreSound'
  BY <1>2, <1>3, <1>11, SameSchema, ExecutorsStay DEF AccountInv, RestoreSound
<1>14. TypeOK'
  <2>1. /\ identity' \in Identity /\ live' \subseteq Users /\ identity'.status # "none"
        /\ (identity'.status # "none" <=> identity'.user # 0)
    BY <1>2, <1>7, AuthTypes, MarkFades
  <2> QED
    BY <1>2, <1>3, <1>9, <1>11, <1>12, <2>1, Counted DEF AccountInv, TypeOK, WorkerFrames
<1> QED
  BY <1>10, <1>11, <1>12, <1>13, <1>14 DEF AccountInv

\* A token of a failed confirmation is stored: it belongs to no accepted deletion.
LEMMA CompensateInv ==
  ASSUME AccountInv, NEW w \in Workers, Compensate(w)
  PROVE  AccountInv'
<1> DEFINE d == wk[w].d
           k == StoredToken(d, "reauth_compensation")
<1>1. /\ wk[w].pc = "compensate" /\ Finish(w)
      /\ UNCHANGED <<schemaVars, authVars, configVars, del, fence, restVars, gate, plock, ex, rs>>
      /\ \/ Uncounted /\ UNCHANGED dtok
         \/ Fault /\ \E t \in TokenIds : dtok' = [dtok EXCEPT ![t] = k]
  BY DEF Compensate
<1>2. UNCHANGED <<users, data, objects, identity, ptok, live, hook, enabled, ev, backup, late, nextUser>>
  BY <1>1 DEF schemaVars, authVars, configVars, restVars
<1>3. k \in Token /\ k.d = d /\ d \in Dels /\ k.purpose = "reauth_compensation"
  BY <1>1, AuthTypes, TokenRows DEF WorkersInv, WorkerSound
<1> HIDE DEF k, d
<1>4. dtok' \in [TokenIds -> Token] /\ \A t \in TokenIds : dtok'[t] = dtok[t] \/ dtok'[t] = k
  BY <1>1, <1>3, ExecutorTypes
<1>5. /\ SchemaSafe /\ RowsStay /\ (\A d_1 \in Dels : RowStays(d_1))
      /\ (\A e \in Executors : ClaimsStay(e)) /\ IdentityFades /\ EventsGrow /\ EventsInv'
  BY <1>1, <1>2, SameSchema, SameRows, SameIdentity, SameEvents
<1>6. RecordsInv'
  <2>1. DeletionsInv' /\ IdentitySound' /\ GenerationsAdvance' /\ AcceptedIsFinal'
    <3>1. DeletionsInv /\ IdentitySound /\ GenerationsAdvance /\ AcceptedIsFinal
      BY DEF AccountInv, RecordsInv
    <3> QED
      BY <1>1, <1>2, <3>1 DEF DeletionsInv, RowSound, EventNamed, OpenBlocks, Cleaned, IdentitySound,
                     GenerationsAdvance, AcceptedIsFinal, HasIdentity
  <2>2. \A t \in TokenIds : TokenSound(t)'
    <3> TAKE t \in TokenIds
    <3>1. CASE dtok'[t] = dtok[t]
      BY <1>1, <1>2, <3>1 DEF AccountInv, RecordsInv, TokensInv, TokenSound, HasIdentity
    <3>2. CASE dtok'[t] = k
      BY <1>3, <3>2 DEF TokenSound
    <3> QED
      BY <1>4, <3>1, <3>2
  <2> QED
    BY <2>1, <2>2 DEF RecordsInv, TokensInv
<1>7. wk' \in [Workers -> WorkerFrames] /\ WorkersInv'
  BY <1>1, AuthTypes, FinishEnds
<1>8. ExecutorsInv' /\ RestoreSound'
  BY <1>1, <1>5, ExecutorsStay DEF AccountInv, RestoreSound
<1>9. TypeOK'
  BY <1>1, <1>2, <1>4, <1>7, Counted DEF AccountInv, TypeOK, WorkerFrames
<1> QED
  BY <1>5, <1>6, <1>7, <1>8, <1>9 DEF AccountInv

-----------------------------------------------------------------------------
(* Notifications *)

\* A notification marks the identity.
LEMMA EventMarks ==
  ASSUME AccountInv, ev' \in [Events -> Event], EventsGrow, EventsInv', Uncounted, HasIdentity,
         ptok' = FALSE, NEW status \in {"revoked", "deletion_pending"}, MarkIdentity(status),
         UNCHANGED <<schemaVars, configVars, deletionVars, backup, late, nextUser, gate, plock,
                     wk, ex, rs>>
  PROVE  AccountInv'
<1>1. UNCHANGED <<users, data, objects, hook, enabled, del, fence, dtok>>
  BY DEF schemaVars, configVars, deletionVars
<1>2. /\ IdentityFades /\ identity' \in Identity /\ live' \subseteq Users
      /\ (identity'.status # "none" <=> identity'.user # 0)
  BY AuthTypes, MarkFades
<1>3. SchemaSafe /\ RowsStay /\ (\A e \in Executors : ClaimsStay(e)) /\ TokensFade
  BY <1>1, SameSchema, SameRows, SameTokens
<1>4. RecordsInv'
  BY <1>2, <1>3, RecordsKept
<1>5. ExecutorsInv' /\ RestoreSound' /\ WorkersInv'
  BY <1>3, ExecutorsStay, WorkersStay DEF AccountInv, RestoreSound
<1>6. ptok' \in BOOLEAN /\ ~ptok'
  BY Zenon
<1>7. TypeOK'
  BY <1>1, <1>2, <1>6, Counted DEF AccountInv, TypeOK
<1> QED
  BY <1>4, <1>5, <1>7 DEF AccountInv

\* A notification about an account that existed when it was sent is accepted.
LEMMA AcceptFromAppleInv ==
  ASSUME AccountInv, NEW e \in Events, NEW d \in Dels, NEW t \in TokenIds, AcceptFromApple(e, d, t),
         ev' \in [Events -> Event], EventsGrow, EventsInv', HasIdentity,
         ev'[e].kind # "none", identity.user < ev'[e].before, Call \/ Uncounted,
         UNCHANGED <<schemaVars, configVars, backup, late, nextUser, gate, plock, wk, ex, rs>>
  PROVE  AccountInv'
<1> DEFINE r == IF ptok THEN "pending" ELSE "not_required"
           g == [del[d] EXCEPT !.status = "accepted", !.phase = "business_cleanup",
                               !.user = identity.user, !.gen = identity.gen,
                               !.confirmer = Nobody, !.event = e, !.revocation = r]
           k == StoredToken(d, "accepted_deletion")
<1>1. UNCHANGED <<users, data, objects, hook, enabled>>
  BY DEF schemaVars, configVars
<1>2. /\ fence' = [fence EXCEPT ![d] = "open"] /\ FenceFree(identity.user)
      /\ MarkIdentity("deletion_pending") /\ ptok' = FALSE
      /\ dtok' = dtok \/ dtok' = [dtok EXCEPT ![t] = k]
      /\ del' = [del EXCEPT ![d].status = "accepted", ![d].phase = "business_cleanup",
                            ![d].user = identity.user, ![d].gen = identity.gen,
                            ![d].confirmer = Nobody, ![d].event = e, ![d].revocation = r]
  BY DEF AcceptFromApple
<1>3. /\ del[d] \in Deletion /\ del \in [Dels -> Deletion] /\ RowSound(d)
      /\ identity.user \in 0..MaxUsers /\ identity.gen \in 0..MaxUsers
      /\ e \in 0..MaxEvents /\ e # 0
  BY ExecutorTypes, IdentityFields, Numbers DEF AccountInv, RecordsInv, DeletionsInv
<1>4. r \in Revocations
  BY DEF Revocations
<1> HIDE DEF r
<1>5. /\ g \in Deletion /\ g.status = "accepted" /\ g.phase = "business_cleanup"
      /\ g.user = identity.user /\ g.gen = identity.gen /\ g.holder = del[d].holder
      /\ g.event = e
  BY <1>3, <1>4 DEF Deletion, Statuses, Phases
<1>6. del' = [del EXCEPT ![d] = g]
  BY <1>2, <1>3
<1>7. del[d].status \notin Final
  BY DEF AcceptFromApple, FreeDeletion, Final, Underway
<1>8. del[d].holder = Nobody
  BY <1>3, <1>7 DEF RowSound, Final, Underway
<1>9. k \in Token /\ k.d = d
  BY TokenRows
<1> HIDE DEF g, k
<1>10. /\ dtok' \in [TokenIds -> Token]
       /\ \A s \in TokenIds : dtok'[s] = dtok[s] \/ dtok'[s].d = d
  BY <1>2, <1>9, ExecutorTypes
<1>11. EventNamed(d)'
  BY <1>3, <1>5, <1>6 DEF EventNamed
<1>12. /\ RecordsInv' /\ del' \in [Dels -> Deletion] /\ fence' \in [Dels -> {"none", "open", "done"}]
       /\ \A f \in Executors : ClaimsStay(f)
  BY <1>1, <1>2, <1>5, <1>6, <1>7, <1>8, <1>10, <1>11, AcceptanceSound
<1>13. ExecutorsInv' /\ RestoreSound' /\ WorkersInv'
  BY <1>1, <1>12, SameSchema, ExecutorsStay, WorkersStay DEF AccountInv, RestoreSound
<1>14. TypeOK'
  <2>1. /\ identity' \in Identity /\ live' \subseteq Users
        /\ (identity'.status # "none" <=> identity'.user # 0)
    BY <1>2, AuthTypes, MarkFades
  <2>2. ptok' \in BOOLEAN /\ ~ptok'
    BY <1>2, Zenon
  <2> QED
    BY <1>1, <1>10, <1>12, <2>1, <2>2, Counted DEF AccountInv, TypeOK
<1> QED
  BY <1>12, <1>13, <1>14 DEF AccountInv

\* The row of a notification: recorded, or acknowledged.
LEMMA EventRowChanges ==
  ASSUME AccountInv, NEW e \in Events, ev[e].kind # "none", NEW g \in Event, ev' = [ev EXCEPT ![e] = g],
         g.kind = ev[e].kind, g.before = ev[e].before,
         g.row = "application_action_pending" => g.user < g.before
  PROVE  /\ ev' \in [Events -> Event] /\ EventsGrow /\ EventsInv'
         /\ ev'[e].kind # "none" /\ ev'[e].before = ev[e].before
<1>1. ev' \in [Events -> Event] /\ ev'[e] = g /\ \A f \in Events \ {e} : ev'[f] = ev[f]
  BY EventFields
<1>2. EventsGrow
  BY <1>1 DEF EventsGrow
<1>3. EventsInv'
  BY <1>1 DEF AccountInv, EventsInv, EventSound
<1> QED
  BY <1>1, <1>2, <1>3

LEMMA RecordEventSound ==
  ASSUME AccountInv, NEW e \in Events, ev[e].kind # "none",
         NEW row \in {"handled", "application_action_pending"}, RecordEvent(e, row),
         row = "application_action_pending" => ~Stale(e)
  PROVE  /\ ev' \in [Events -> Event] /\ EventsGrow /\ EventsInv'
         /\ ev'[e].kind # "none" /\ ev'[e].before = ev[e].before
<1> DEFINE g == [ev[e] EXCEPT !.row = row, !.user = identity.user]
<1>1. ev[e] \in Event /\ ev \in [Events -> Event] /\ identity.user \in 0..MaxUsers
      /\ identity.user \in Nat /\ ev[e].before \in Nat
  BY EventFields, AuthTypes, Numbers
<1>2. /\ g \in Event /\ g.kind = ev[e].kind /\ g.before = ev[e].before
      /\ g.row = row /\ g.user = identity.user
  BY <1>1 DEF Event
<1>3. ev' = [ev EXCEPT ![e] = g]
  BY <1>1 DEF RecordEvent
<1> HIDE DEF g
<1>4. row = "application_action_pending" => identity.user < ev[e].before
  BY <1>1 DEF Stale
<1> QED
  BY <1>2, <1>3, <1>4, EventRowChanges

LEMMA NotificationArrivesInv ==
  ASSUME AccountInv, NEW e \in Events, NotificationArrives(e)
  PROVE  AccountInv'
<1>1. /\ ev[e].kind # "none" /\ Uncounted
      /\ UNCHANGED <<schemaVars, configVars, backup, late, nextUser, gate, plock, wk, ex, rs>>
  BY DEF NotificationArrives
<1>2. CASE RecordEvent(e, "handled") /\ UNCHANGED <<authVars, deletionVars>>
  BY <1>1, <1>2, RecordEventSound, EventsOnly
<1>3. CASE HasIdentity /\ RecordEvent(e, "handled") /\ MarkRevoked /\ UNCHANGED deletionVars
  BY <1>1, <1>3, RecordEventSound, EventMarks DEF MarkRevoked
<1>4. CASE HasIdentity /\ ~Stale(e) /\ RecordEvent(e, "handled") /\ Converge(e)
  <2>1. /\ ev' \in [Events -> Event] /\ EventsGrow /\ EventsInv'
        /\ ev'[e].kind # "none" /\ ev'[e].before = ev[e].before
    BY <1>1, <1>4, RecordEventSound
  <2>2. CASE UNCHANGED <<authVars, deletionVars>>
    BY <1>1, <2>1, <2>2, EventsOnly
  <2>3. ASSUME NEW d \in Dels, NEW t \in TokenIds, AcceptFromApple(e, d, t) PROVE AccountInv'
    <3>1. identity.user < ev'[e].before
      BY <1>4, <2>1, EventFields, AuthTypes, Numbers DEF Stale
    <3> QED
      BY <1>1, <1>4, <2>1, <2>3, <3>1, AcceptFromAppleInv
  <2> QED
    BY <1>4, <2>2, <2>3 DEF Converge
<1>5. CASE /\ HasIdentity /\ ~Stale(e) /\ RecordEvent(e, "application_action_pending")
           /\ MarkIdentity("deletion_pending") /\ ptok' = FALSE /\ UNCHANGED deletionVars
  BY <1>1, <1>5, RecordEventSound, EventMarks
<1> QED
  BY <1>2, <1>3, <1>4, <1>5 DEF NotificationArrives

LEMMA AcknowledgeEventInv ==
  ASSUME AccountInv, NEW e \in Events, AcknowledgeEvent(e)
  PROVE  AccountInv'
<1> DEFINE g == [ev[e] EXCEPT !.row = "acknowledged"]
<1>1. /\ ev[e].row = "application_action_pending" /\ Call /\ HasIdentity /\ ev[e].user = identity.user
      /\ Converge(e) /\ ev' = [ev EXCEPT ![e].row = "acknowledged"]
      /\ UNCHANGED <<schemaVars, configVars, backup, late, nextUser, gate, plock, wk, ex, rs>>
  BY DEF AcknowledgeEvent
<1>2. ev[e] \in Event /\ ev \in [Events -> Event] /\ EventSound(e)
  BY EventFields
<1>3. g \in Event /\ g.kind = ev[e].kind /\ g.before = ev[e].before /\ g.row = "acknowledged"
  BY <1>2 DEF Event
<1>4. ev' = [ev EXCEPT ![e] = g]
  BY <1>1, <1>2
<1> HIDE DEF g
<1>5. ev[e].kind # "none" /\ identity.user < ev[e].before
  BY <1>1, <1>2, AuthTypes DEF EventSound, HasIdentity
<1>6. /\ ev' \in [Events -> Event] /\ EventsGrow /\ EventsInv'
      /\ ev'[e].kind # "none" /\ ev'[e].before = ev[e].before
  BY <1>3, <1>4, <1>5, EventRowChanges
<1>7. CASE UNCHANGED <<authVars, deletionVars>>
  BY <1>1, <1>6, <1>7, EventsOnly
<1>8. ASSUME NEW d \in Dels, NEW t \in TokenIds, AcceptFromApple(e, d, t) PROVE AccountInv'
  BY <1>1, <1>5, <1>6, <1>8, AcceptFromAppleInv
<1> QED
  BY <1>1, <1>7, <1>8 DEF Converge
-----------------------------------------------------------------------------
(* Executors *)

\* Executor e moves, rows stay, and no other executor gains a claim.
LEMMA ExecutorStepInv ==
  ASSUME AccountInv, NEW e \in Executors, RowsStay, TokensFade,
         del' \in [Dels -> Deletion], dtok' \in [TokenIds -> Token],
         UNCHANGED <<schemaVars, authVars, configVars, fence, restVars, gate, wk, rs>>,
         plock' \in Executors \cup {Nobody, Restorer},
         ex' \in [Executors -> ExecutorFrames], ExecutorSound(e)',
         \A f \in Executors \ {e} : ex'[f] = ex[f] /\ ClaimsStay(f), Call \/ Fault \/ Uncounted
  PROVE  AccountInv'
<1>1. SchemaSafe
  BY SameSchema DEF schemaVars, restVars
<1>2. ExecutorsInv'
  BY <1>1, ExecutorKept DEF ExecutorsInv
<1> QED
  BY <1>2, WorkersStay, RowsStep

\* Only the executor moves.
LEMMA ExecutorOnly ==
  ASSUME AccountInv, NEW e \in Executors, Call \/ Fault \/ Uncounted,
         UNCHANGED <<schemaVars, authVars, configVars, deletionVars, restVars, gate, wk, rs>>,
         plock' \in Executors \cup {Nobody, Restorer},
         ex' \in [Executors -> ExecutorFrames], ExecutorSound(e)',
         \A f \in Executors \ {e} : ex'[f] = ex[f]
  PROVE  AccountInv'
<1>1. UNCHANGED <<del, fence, dtok>>
  BY DEF deletionVars
<1> QED
  BY <1>1, ExecutorTypes, SameRows, SameTokens, ExecutorStepInv

LEMMA PcMoves ==
  ASSUME AccountInv, NEW e \in Executors, NEW pc \in ExecutorPcs, ex' = [ex EXCEPT ![e].pc = pc]
  PROVE  /\ ex' \in [Executors -> ExecutorFrames] /\ ex'[e].pc = pc /\ ex'[e].d = ex[e].d
         /\ ex'[e].phase = ex[e].phase /\ ex'[e].t = ex[e].t
         /\ \A f \in Executors \ {e} : ex'[f] = ex[f]
<1> DEFINE g == [ex[e] EXCEPT !.pc = pc]
<1>1. ex \in [Executors -> ExecutorFrames]
  BY ExecutorTypes
<1>2. /\ g \in ExecutorFrames /\ g.pc = pc /\ g.d = ex[e].d /\ g.phase = ex[e].phase
      /\ g.t = ex[e].t
  BY <1>1 DEF ExecutorFrames
<1>3. ex' = [ex EXCEPT ![e] = g]
  BY <1>1
<1> HIDE DEF g
<1> QED
  BY <1>1, <1>2, <1>3

LEMMA PhaseFailsInv ==
  ASSUME AccountInv, NEW e \in Executors, PhaseFails(e) \/ CleanupRejected(e)
  PROVE  AccountInv'
<1>1. /\ ex[e].pc \in {"run", "advance"} /\ (Fault \/ Uncounted)
      /\ UNCHANGED <<schemaVars, authVars, configVars, deletionVars, restVars, gate, plock, wk, rs>>
  BY DEF PhaseFails, CleanupRejected
<1>2. PICK pc \in {"retry", "contract"} : ex' = [ex EXCEPT ![e].pc = pc]
  BY DEF PhaseFails, CleanupRejected
<1>3. /\ ex' \in [Executors -> ExecutorFrames] /\ ex'[e].pc = pc /\ ex'[e].d = ex[e].d
      /\ ex'[e].phase = ex[e].phase /\ \A f \in Executors \ {e} : ex'[f] = ex[f]
  BY <1>2, PcMoves DEF ExecutorPcs
<1>4. ExecutorSound(e) /\ del' = del
  BY <1>1 DEF AccountInv, ExecutorsInv, deletionVars
<1>5. ExecutorSound(e)'
  BY <1>1, <1>3, <1>4 DEF ExecutorSound, HoldsDeletion
<1> QED
  BY <1>1, <1>3, <1>5, ExecutorTypes, ExecutorOnly

LEMMA AppleAnswersInv ==
  ASSUME AccountInv, NEW e \in Executors, AppleAnswers(e)
  PROVE  AccountInv'
<1>1. /\ ex[e].pc = "revoke" /\ (Fault \/ Uncounted)
      /\ UNCHANGED <<schemaVars, authVars, configVars, deletionVars, restVars, gate, plock, wk, rs>>
  BY DEF AppleAnswers
<1>2. PICK pc \in {"deleteToken", "retryToken"} : ex' = [ex EXCEPT ![e].pc = pc]
  BY DEF AppleAnswers
<1>3. /\ ex' \in [Executors -> ExecutorFrames] /\ ex'[e].pc = pc /\ ex'[e].d = ex[e].d
      /\ ex'[e].t = ex[e].t /\ \A f \in Executors \ {e} : ex'[f] = ex[f]
  BY <1>2, PcMoves DEF ExecutorPcs
<1>4. ExecutorSound(e)
  BY DEF AccountInv, ExecutorsInv
<1>5. ExecutorSound(e)'
  BY <1>1, <1>3, <1>4 DEF ExecutorSound
<1> QED
  BY <1>1, <1>3, <1>5, ExecutorTypes, ExecutorOnly

LEMMA ExecutorCrashesInv ==
  ASSUME AccountInv, NEW e \in Executors, ExecutorCrashes(e)
  PROVE  AccountInv'
<1>1. /\ Fault /\ Release(e) /\ Rest(e)
      /\ UNCHANGED <<schemaVars, authVars, configVars, deletionVars, restVars, gate, wk, rs>>
  BY DEF ExecutorCrashes
<1> QED
  BY <1>1, ExecutorTypes, RestEnds, ReleaseType, ExecutorOnly

LEMMA ClaimDeletionInv ==
  ASSUME AccountInv, NEW e \in Executors, NEW d \in Dels, ClaimDeletion(e, d)
  PROVE  AccountInv'
<1> DEFINE g == [del[d] EXCEPT !.status = "processing", !.holder = e, !.lease = "live"]
           h == [pc |-> "run", d |-> d, phase |-> del[d].phase, t |-> 0]
<1>1. /\ del[d].status \in {"accepted", "processing"} /\ Uncounted /\ Hold(e)
      /\ del' = [del EXCEPT ![d].status = "processing", ![d].holder = e, ![d].lease = "live"]
      /\ ex' = [ex EXCEPT ![e] = h]
      /\ UNCHANGED <<schemaVars, authVars, configVars, fence, dtok, restVars, gate, wk, rs>>
  BY DEF ClaimDeletion
<1>2. del[d] \in Deletion /\ del \in [Dels -> Deletion] /\ RowSound(d) /\ del[d].phase \in Phases
  BY ExecutorTypes, RowFields DEF AccountInv, RecordsInv, DeletionsInv
<1>3. /\ g \in Deletion /\ g.status = "processing" /\ g.phase = del[d].phase /\ g.user = del[d].user
      /\ g.gen = del[d].gen /\ g.event = del[d].event /\ g.holder = e
  BY <1>2 DEF Deletion, Statuses, LeaseStates
<1>4. del' = [del EXCEPT ![d] = g]
  BY <1>1, <1>2
<1>5. h \in ExecutorFrames /\ h.pc = "run" /\ h.d = d /\ h.phase = del[d].phase
  BY <1>2, Numbers DEF ExecutorFrames, ExecutorPcs
<1> HIDE DEF g, h
<1>6. /\ del' \in [Dels -> Deletion] /\ del'[d] = g
      /\ \A c \in Dels \ {d} : del'[c] = del[c]
  BY <1>2, <1>3, <1>4
<1>7. /\ ex' \in [Executors -> ExecutorFrames] /\ ex'[e] = h
      /\ \A f \in Executors \ {e} : ex'[f] = ex[f]
  BY <1>1, <1>5, ExecutorTypes
<1>8. RowStays(d)
  BY <1>1, <1>3, <1>6 DEF RowStays, Underway
<1>9. RowsStay
  BY <1>1, <1>6, <1>8, OneRowStays
<1>10. \A f \in Executors \ {e} : ClaimsStay(f)
  BY <1>3, <1>6, <1>8, OneRowClaims DEF HoldsDeletion
<1>11. del[d].phase \in WorkPhases
  BY <1>1, <1>2 DEF RowSound, Underway
<1>12. ExecutorSound(e)'
  BY <1>3, <1>5, <1>6, <1>7, <1>11 DEF ExecutorSound, Final, Underway
<1> QED
  BY <1>1, <1>6, <1>7, <1>9, <1>10, <1>12, ExecutorTypes, SameTokens, ExecutorStepInv DEF Hold

\* An executor that is done with its row leaves it, or has lost it.
LEMMA RetryDeletionInv ==
  ASSUME AccountInv, NEW e \in Executors, RetryDeletion(e)
  PROVE  AccountInv'
<1>1. /\ ex[e].pc \in {"retry", "contract"} /\ Uncounted /\ Release(e) /\ Rest(e)
      /\ UNCHANGED <<schemaVars, authVars, configVars, fence, dtok, restVars, gate, wk, rs>>
  BY DEF RetryDeletion
<1>2. CASE ~HoldsDeletion(e, ex[e].d)
  <2>1. UNCHANGED <<schemaVars, authVars, configVars, deletionVars, restVars, gate, wk, rs>>
    BY <1>1, <1>2 DEF RetryDeletion, deletionVars
  <2> QED
    BY <1>1, <2>1, ExecutorTypes, RestEnds, ReleaseType, ExecutorOnly
<1>3. CASE HoldsDeletion(e, ex[e].d)
  <2>1. PICK d \in Dels : d = ex[e].d
    BY <1>1 DEF AccountInv, ExecutorsInv, ExecutorSound
  <2>2. PICK status \in {"processing", "attention_required"} :
          del' = [del EXCEPT ![d].phase = ex[e].phase, ![d].holder = Nobody,
                             ![d].lease = "none", ![d].status = status]
    BY <1>3, <2>1 DEF RetryDeletion
  <2> DEFINE g == [del[d] EXCEPT !.phase = ex[e].phase, !.holder = Nobody, !.lease = "none",
                                 !.status = status]
  <2>3. del[d] \in Deletion /\ del \in [Dels -> Deletion] /\ del[d].phase \in Phases
    BY ExecutorTypes, RowFields
  <2>4. ex[e].phase = del[d].phase /\ del[d].status = "processing"
    BY <1>1, <1>3, <2>1 DEF AccountInv, ExecutorsInv, ExecutorSound, HoldsDeletion
  <2>5. /\ g \in Deletion /\ g.status = status /\ g.phase = del[d].phase /\ g.user = del[d].user
        /\ g.gen = del[d].gen /\ g.event = del[d].event /\ g.holder = Nobody
    BY <2>3, <2>4 DEF Deletion, Statuses, LeaseStates
  <2>6. del' = [del EXCEPT ![d] = g]
    BY <2>2, <2>3
  <2> HIDE DEF g
  <2>7. /\ del' \in [Dels -> Deletion] /\ del'[d] = g
        /\ \A c \in Dels \ {d} : del'[c] = del[c]
    BY <2>3, <2>5, <2>6
  <2>8. RowStays(d)
    BY <1>1, <2>4, <2>5, <2>7 DEF RowStays, Underway
  <2>9. RowsStay
    BY <1>1, <2>7, <2>8, OneRowStays
  <2>10. \A f \in Executors : ClaimsStay(f)
    BY <2>5, <2>7, <2>8, OneRowClaims, ProjectAccountAssumption DEF HoldsDeletion
  <2> QED
    BY <1>1, <2>7, <2>9, <2>10, ExecutorTypes, SameTokens, RestEnds, ReleaseType, ExecutorStepInv
<1> QED
  BY <1>2, <1>3

LEMMA OperatorResumesInv ==
  ASSUME AccountInv, NEW d \in Dels, OperatorResumes(d)
  PROVE  AccountInv'
<1> DEFINE g == [del[d] EXCEPT !.status = "processing"]
<1>1. /\ del[d].status = "attention_required" /\ Call
      /\ del' = [del EXCEPT ![d].status = "processing"]
      /\ UNCHANGED <<schemaVars, authVars, configVars, fence, dtok, restVars, gate,
                     plock, wk, ex, rs>>
  BY DEF OperatorResumes
<1>2. del[d] \in Deletion /\ RowSound(d) /\ del \in [Dels -> Deletion]
  BY ExecutorTypes DEF AccountInv, RecordsInv, DeletionsInv
<1>3. /\ g \in Deletion /\ g.status = "processing" /\ g.phase = del[d].phase /\ g.user = del[d].user
      /\ g.gen = del[d].gen /\ g.event = del[d].event /\ g.holder = del[d].holder
  BY <1>2 DEF Deletion, Statuses
<1>4. del' = [del EXCEPT ![d] = g]
  BY <1>1, <1>2
<1> HIDE DEF g
<1>5. /\ del' \in [Dels -> Deletion] /\ del'[d] = g
      /\ \A c \in Dels \ {d} : del'[c] = del[c]
  BY <1>2, <1>3, <1>4
<1>6. RowStays(d) /\ del[d].holder = Nobody
  BY <1>1, <1>2, <1>3, <1>5 DEF RowStays, RowSound, Underway
<1>7. RowsStay /\ \A e \in Executors : ClaimsStay(e)
  BY <1>1, <1>3, <1>5, <1>6, OneRowStays, OneRowClaims, ProjectAccountAssumption DEF HoldsDeletion
<1>8. SchemaSafe
  BY <1>1, SameSchema DEF schemaVars, restVars
<1>9. ExecutorsInv'
  BY <1>1, <1>7, <1>8, ExecutorsStay
<1> QED
  BY <1>1, <1>5, <1>7, <1>9, ExecutorTypes, WorkersStay, SameTokens, RowsStep
-----------------------------------------------------------------------------
(* Tokens *)

LEMMA TokenFields ==
  ASSUME AccountInv, NEW t \in TokenIds
  PROVE  /\ dtok[t] \in Token /\ dtok \in [TokenIds -> Token] /\ TokenSound(t)
         /\ dtok[t].d \in 0..MaxDeletions /\ t \in 0..MaxTokens
BY ExecutorTypes, Numbers DEF AccountInv, RecordsInv, TokensInv, Token

\* The row of a token changes hands, or goes.
LEMMA OneTokenFades ==
  ASSUME AccountInv, NEW t \in TokenIds, NEW k \in Token, dtok' = [dtok EXCEPT ![t] = k],
         k.status # "none" => /\ dtok[t].status # "none" /\ k.d = dtok[t].d
                              /\ k.purpose = dtok[t].purpose
  PROVE  dtok' \in [TokenIds -> Token] /\ TokensFade
<1>1. /\ dtok' \in [TokenIds -> Token] /\ dtok'[t] = k
      /\ \A s \in TokenIds \ {t} : dtok'[s] = dtok[s]
  BY TokenFields
<1> QED
  BY <1>1 DEF TokensFade

LEMMA ClaimTokenInv ==
  ASSUME AccountInv, NEW e \in Executors, NEW t \in TokenIds, ClaimToken(e, t)
  PROVE  AccountInv'
<1> DEFINE k == [dtok[t] EXCEPT !.status = "in_flight", !.holder = e, !.lease = "live"]
           h == [IdleExecutor EXCEPT !.pc = "revoke", !.d = dtok[t].d, !.t = t]
<1>1. /\ dtok[t].status # "none" /\ Uncounted /\ Hold(e)
      /\ dtok' = [dtok EXCEPT ![t].status = "in_flight", ![t].holder = e, ![t].lease = "live"]
      /\ ex' = [ex EXCEPT ![e] = h]
      /\ UNCHANGED <<schemaVars, authVars, configVars, del, fence, restVars, gate, wk, rs>>
  BY DEF ClaimToken
<1>2. /\ dtok[t] \in Token /\ dtok \in [TokenIds -> Token]
      /\ dtok[t].d \in 0..MaxDeletions /\ t \in 0..MaxTokens /\ dtok[t].d \in Dels
  BY <1>1, TokenFields DEF TokenSound
<1>3. k \in Token /\ k.d = dtok[t].d /\ k.purpose = dtok[t].purpose
  BY <1>2 DEF Token, LeaseStates
<1>4. dtok' = [dtok EXCEPT ![t] = k]
  BY <1>1, <1>2
<1>5. h \in ExecutorFrames /\ h.pc = "revoke" /\ h.d = dtok[t].d /\ h.t = t
  BY <1>2, Defaults DEF ExecutorFrames, ExecutorPcs
<1> HIDE DEF k, h
<1>6. dtok' \in [TokenIds -> Token] /\ TokensFade
  BY <1>1, <1>3, <1>4, OneTokenFades
<1>7. /\ ex' \in [Executors -> ExecutorFrames] /\ ex'[e] = h
      /\ \A f \in Executors \ {e} : ex'[f] = ex[f]
  BY <1>1, <1>5, ExecutorTypes
<1>8. ExecutorSound(e)'
  BY <1>2, <1>5, <1>7 DEF ExecutorSound
<1> QED
  BY <1>1, <1>6, <1>7, <1>8, ExecutorTypes, SameRows, ExecutorStepInv DEF Hold

LEMMA DeleteTokenInv ==
  ASSUME AccountInv, NEW e \in Executors, DeleteToken(e)
  PROVE  AccountInv'
<1>1. /\ ex[e].pc = "deleteToken" /\ Uncounted
      /\ UNCHANGED <<schemaVars, authVars, configVars, del, fence, restVars, gate, wk, rs>>
  BY DEF DeleteToken
<1>2. ExecutorSound(e)
  BY DEF AccountInv, ExecutorsInv
<1>3. CASE HoldsToken(e, ex[e].t)
  <2>1. PICK t \in TokenIds : t = ex[e].t
    BY <1>1, <1>2 DEF ExecutorSound
  <2>2. dtok' = [dtok EXCEPT ![t] = NoToken] /\ ex' = [ex EXCEPT ![e].pc = "settle"] /\ plock' = plock
    BY <1>3, <2>1 DEF DeleteToken
  <2>3. dtok' \in [TokenIds -> Token] /\ TokensFade
    BY <2>2, Defaults, OneTokenFades
  <2>4. /\ ex' \in [Executors -> ExecutorFrames] /\ ex'[e].pc = "settle" /\ ex'[e].d = ex[e].d
        /\ ex'[e].t = ex[e].t /\ \A f \in Executors \ {e} : ex'[f] = ex[f]
    BY <2>2, PcMoves DEF ExecutorPcs
  <2>5. ExecutorSound(e)'
    BY <1>1, <1>2, <2>4 DEF ExecutorSound
  <2> QED
    BY <1>1, <2>2, <2>3, <2>4, <2>5, ExecutorTypes, SameRows, ExecutorStepInv
<1>4. CASE ~HoldsToken(e, ex[e].t)
  <2>1. /\ Release(e) /\ Rest(e)
        /\ UNCHANGED <<schemaVars, authVars, configVars, deletionVars, restVars, gate, wk, rs>>
    BY <1>1, <1>4 DEF DeleteToken, deletionVars
  <2> QED
    BY <1>1, <2>1, ExecutorTypes, RestEnds, ReleaseType, ExecutorOnly
<1> QED
  BY <1>3, <1>4

LEMMA RetryTokenInv ==
  ASSUME AccountInv, NEW e \in Executors, RetryToken(e)
  PROVE  AccountInv'
<1>1. /\ ex[e].pc = "retryToken" /\ Uncounted /\ Release(e) /\ Rest(e)
      /\ UNCHANGED <<schemaVars, authVars, configVars, del, fence, restVars, gate, wk, rs>>
  BY DEF RetryToken
<1>2. PICK t \in TokenIds : t = ex[e].t
  BY <1>1 DEF AccountInv, ExecutorsInv, ExecutorSound
<1> DEFINE k == [dtok[t] EXCEPT !.status = "pending", !.holder = Nobody, !.lease = "none"]
<1>3. dtok[t] \in Token /\ dtok \in [TokenIds -> Token]
  BY TokenFields
<1>4. k \in Token /\ k.d = dtok[t].d /\ k.purpose = dtok[t].purpose
  BY <1>3 DEF Token, LeaseStates
<1>5. \/ dtok[t].status # "none" /\ dtok' = [dtok EXCEPT ![t] = k]
      \/ dtok' = dtok
  BY <1>2, <1>3 DEF RetryToken, HoldsToken
<1> HIDE DEF k
<1>6. dtok' \in [TokenIds -> Token] /\ TokensFade
  BY <1>3, <1>4, <1>5, OneTokenFades, SameTokens
<1> QED
  BY <1>1, <1>6, ExecutorTypes, SameRows, RestEnds, ReleaseType, ExecutorStepInv

LEMMA SettleRevocationInv ==
  ASSUME AccountInv, NEW e \in Executors, SettleRevocation(e)
  PROVE  AccountInv'
<1>1. /\ ex[e].pc = "settle" /\ Uncounted /\ Release(e) /\ Rest(e)
      /\ UNCHANGED <<schemaVars, authVars, configVars, fence, dtok, restVars, gate, wk, rs>>
  BY DEF SettleRevocation
<1>2. PICK d \in Dels : d = ex[e].d
  BY <1>1 DEF AccountInv, ExecutorsInv, ExecutorSound
<1> DEFINE g == [del[d] EXCEPT !.revocation = "succeeded"]
<1>3. del[d] \in Deletion /\ del \in [Dels -> Deletion]
  BY ExecutorTypes
<1>4. /\ g \in Deletion /\ g.status = del[d].status /\ g.phase = del[d].phase
      /\ g.user = del[d].user /\ g.gen = del[d].gen /\ g.event = del[d].event
      /\ g.holder = del[d].holder
  BY <1>3 DEF Deletion, Revocations
<1>5. del' = [del EXCEPT ![d] = g] \/ del' = del
  BY <1>2, <1>3 DEF SettleRevocation
<1> HIDE DEF g
<1>6. RowsStay /\ del' \in [Dels -> Deletion] /\ \A f \in Executors : ClaimsStay(f)
  <2>1. CASE del' = [del EXCEPT ![d] = g]
    BY <1>1, <1>4, <2>1, QuietRow
  <2>2. CASE del' = del
    BY <1>1, <1>3, <2>2, SameRows
  <2> QED
    BY <1>5, <2>1, <2>2
<1> QED
  BY <1>1, <1>6, ExecutorTypes, SameTokens, RestEnds, ReleaseType, ExecutorStepInv

\* A lease of a token runs out or is renewed.
LEMMA TokenLeaseInv ==
  ASSUME AccountInv, NEW t \in TokenIds, NEW lease \in LeaseStates,
         dtok' = [dtok EXCEPT ![t].lease = lease],
         UNCHANGED <<schemaVars, authVars, configVars, del, fence, restVars, gate, plock, wk, ex, rs>>,
         Fault \/ Uncounted
  PROVE  AccountInv'
<1> DEFINE k == [dtok[t] EXCEPT !.lease = lease]
<1>1. dtok[t] \in Token /\ dtok \in [TokenIds -> Token]
  BY TokenFields
<1>2. k \in Token /\ k.d = dtok[t].d /\ k.purpose = dtok[t].purpose /\ k.status = dtok[t].status
  BY <1>1 DEF Token
<1>3. dtok' = [dtok EXCEPT ![t] = k]
  BY <1>1
<1> HIDE DEF k
<1>4. dtok' \in [TokenIds -> Token] /\ TokensFade
  BY <1>2, <1>3, OneTokenFades
<1>5. ExecutorsInv'
  BY SameRows, SameSchema, ExecutorsStay DEF schemaVars, restVars
<1> QED
  BY <1>4, <1>5, ExecutorTypes, SameRows, WorkersStay, RowsStep

-----------------------------------------------------------------------------
(* The phases of a deletion *)

\* The held row goes to the next phase; what the phase removed is gone.
LEMMA AdvanceDeletionInv ==
  ASSUME AccountInv, NEW e \in Executors, AdvanceDeletion(e)
  PROVE  AccountInv'
<1>1. /\ ex[e].pc = "advance" /\ Uncounted /\ Release(e) /\ Rest(e)
      /\ UNCHANGED <<schemaVars, authVars, configVars, dtok, restVars, gate, wk, rs>>
  BY DEF AdvanceDeletion
<1>2. CASE ~HoldsDeletion(e, ex[e].d)
  <2>1. UNCHANGED <<schemaVars, authVars, configVars, deletionVars, restVars, gate, wk, rs>>
    BY <1>1, <1>2 DEF AdvanceDeletion, deletionVars
  <2> QED
    BY <1>1, <2>1, ExecutorTypes, RestEnds, ReleaseType, ExecutorOnly
<1>3. CASE HoldsDeletion(e, ex[e].d)
  <2>1. PICK d \in Dels : d = ex[e].d
    BY <1>1 DEF AccountInv, ExecutorsInv, ExecutorSound
  <2>2. PICK phase : phase = NextPhase(ex[e].phase)
    OBVIOUS
  <2> DEFINE status == IF phase = "completed" THEN "completed" ELSE del[d].status
             g == [del[d] EXCEPT !.phase = phase, !.holder = Nobody, !.lease = "none",
                                 !.status = status]
  <2>3. /\ del' = [del EXCEPT ![d].phase = phase, ![d].holder = Nobody, ![d].lease = "none",
                              ![d].status = IF phase = "completed" THEN "completed" ELSE @]
        /\ fence' = IF phase = "completed" THEN [fence EXCEPT ![d] = "done"] ELSE fence
    BY <1>3, <2>1, <2>2 DEF AdvanceDeletion
  <2>4. /\ del[d] \in Deletion /\ del \in [Dels -> Deletion] /\ RowSound(d) /\ Cleaned(d)
        /\ OpenBlocks(d)
        /\ fence \in [Dels -> {"none", "open", "done"}]
    BY ExecutorTypes DEF AccountInv, RecordsInv, DeletionsInv, TypeOK
  <2>5. /\ ex[e].phase = del[d].phase /\ del[d].status = "processing" /\ Ran(e)
        /\ ex[e].phase \in WorkPhases
    BY <1>1, <1>3, <2>1 DEF AccountInv, ExecutorsInv, ExecutorSound, HoldsDeletion
  <2>6. /\ phase \in Phases /\ phase \in {"storage_cleanup", "project_user_cleanup",
                                          "provider_revoke", "completed"}
        /\ del[d].phase = "business_cleanup" => phase = "storage_cleanup"
        /\ del[d].phase = "storage_cleanup" => phase = "project_user_cleanup"
        /\ del[d].phase = "project_user_cleanup" => phase = "provider_revoke"
        /\ del[d].phase = "provider_revoke" => phase = "completed"
    BY <2>2, <2>5 DEF NextPhase, WorkPhases, Phases
  <2>7. status \in {"processing", "completed"} /\ (status = "completed" <=> phase = "completed")
    BY <2>5
  <2>8. del' = [del EXCEPT ![d] = g]
    BY <2>3, <2>4
  <2> HIDE DEF status
  <2>9. /\ g \in Deletion /\ g.status = status /\ g.phase = phase /\ g.user = del[d].user
        /\ g.gen = del[d].gen /\ g.event = del[d].event /\ g.holder = Nobody
    BY <2>4, <2>6, <2>7 DEF Deletion, Statuses, LeaseStates
  <2> HIDE DEF g
  <2>10. /\ del' \in [Dels -> Deletion] /\ del'[d] = g
         /\ \A c \in Dels \ {d} : del'[c] = del[c]
    BY <2>4, <2>8, <2>9
  <2>11. /\ fence' \in [Dels -> {"none", "open", "done"}]
         /\ fence'[d] = IF phase = "completed" THEN "done" ELSE fence[d]
         /\ fence[d] = "open" /\ \A c \in Dels \ {d} : fence'[c] = fence[c]
    BY <2>3, <2>4, <2>5 DEF RowSound, Final, Underway
  <2>12. UNCHANGED <<users, data, objects, identity, ptok, live, hook, enabled, ev, backup, late,
                     nextUser>>
    BY <1>1 DEF schemaVars, authVars, configVars, restVars
  <2>13. /\ SchemaSafe /\ IdentityFades /\ EventsGrow /\ EventsInv'
         /\ nextUser' \in Nat /\ nextUser <= nextUser'
    BY <1>1, <2>12, SameSchema, SameIdentity, SameEvents, IdentityFields, AuthTypes
  <2>14. \A c \in Dels \ {d} : RowStays(c)
    BY <2>10, <2>11 DEF AccountInv, RecordsInv, DeletionsInv, RowSound, RowStays
  <2>15. \A f \in Executors : ClaimsStay(f)
    <3>1. \A f \in Executors : f # Nobody
      BY ProjectAccountAssumption
    <3>2. del'[d].status \in Final /\ del'[d].user = del[d].user /\ del'[d].holder = Nobody
      BY <2>7, <2>9, <2>10 DEF Final, Underway
    <3> QED
      BY <2>10, <3>1, <3>2 DEF ClaimsStay, HoldsDeletion
  <2>16. RowSound(d)'
    BY <2>4, <2>5, <2>6, <2>7, <2>9, <2>10, <2>11, <2>12
    DEF RowSound, Final, Underway, WorkPhases
  <2>17. Cleaned(d)'
    <3>1. /\ del[d].phase = "storage_cleanup" => del[d].user \notin objects \ late
          /\ gate = "none" /\ del[d].phase = "business_cleanup" => del[d].user \notin data \ late
          /\ gate = "none" /\ del[d].phase = "project_user_cleanup" => del[d].user \notin users
      BY <2>1, <2>5 DEF Ran
    <3> QED
      BY <1>1, <2>4, <2>5, <2>6, <2>9, <2>10, <2>12, <3>1 DEF Cleaned, WorkPhases
  <2>18. DeletionsInv'
    <3>1. EventNamed(d)' /\ OpenBlocks(d)'
      BY <2>4, <2>9, <2>10, <2>11, <2>12, <2>13, EventKept DEF OpenBlocks, HasIdentity
    <3>2. \A c \in Dels \ {d} : RowSound(c)' /\ EventNamed(c)' /\ OpenBlocks(c)' /\ Cleaned(c)'
      BY <2>13, <2>14, RowKept, EventKept, CleanKept, OpenKept DEF RowStays
    <3> QED
      BY <2>16, <2>17, <3>1, <3>2 DEF DeletionsInv
  <2>19. TokensInv'
    <3> SUFFICES ASSUME NEW t \in TokenIds, dtok[t].status # "none" PROVE TokenSound(t)'
      BY <1>1 DEF TokensInv, TokenSound
    <3>1. TokenSound(t) /\ dtok'[t] = dtok[t] /\ dtok[t].d \in Dels
      BY <1>1, TokenFields DEF TokenSound
    <3>2. CASE dtok[t].d = d
      BY <2>4, <2>9, <2>10, <2>11, <2>12, <3>1, <3>2 DEF TokenSound, OpenBlocks, HasIdentity
    <3>3. CASE dtok[t].d # d
      BY <2>10, <2>11, <2>12, <3>1, <3>3 DEF TokenSound, HasIdentity
    <3> QED
      BY <3>2, <3>3
  <2>20. GenerationsAdvance' /\ AcceptedIsFinal' /\ IdentitySound'
    <3>1. \A c \in Dels :
            /\ fence'[c] # "none" =>
                 fence[c] # "none" /\ del'[c].user = del[c].user /\ del'[c].gen = del[c].gen
            /\ del'[c].status \in Final => del[c].status \in Final /\ del'[c].user = del[c].user
      BY <2>5, <2>9, <2>10, <2>11 DEF Final, Underway
    <3> QED
      BY <2>13, <3>1, GenerationsKept, FinalKept, IdentityKept
  <2>21. ExecutorsInv'
    BY <1>1, <2>13, <2>15, AuthTypes, RestEnds, ExecutorKept DEF ExecutorsInv
  <2>22. WorkersInv' /\ RestoreSound'
    BY <1>1, WorkersStay DEF AccountInv, RestoreSound
  <2>23. TypeOK'
    <3>1. ex' \in [Executors -> ExecutorFrames] /\ plock' \in Executors \cup {Nobody, Restorer}
      BY <1>1, AuthTypes, RestEnds, ReleaseType
    <3> QED
      BY <1>1, <2>10, <2>11, <2>12, <3>1, Counted DEF AccountInv, TypeOK, ExecutorFrames
  <2> QED
    BY <2>13, <2>18, <2>19, <2>20, <2>21, <2>22, <2>23 DEF AccountInv, RecordsInv
<1> QED
  BY <1>2, <1>3

\* A phase removes what it is for; the rest is as it was, or less.
LEMMA RunPhaseInv ==
  ASSUME AccountInv, NEW e \in Executors, RunPhase(e)
  PROVE  AccountInv'
<1>1. PICK d \in Dels : d = ex[e].d
  BY DEF RunPhase, AccountInv, ExecutorsInv, ExecutorSound
<1>2. PICK u : u = del[d].user
  OBVIOUS
<1>3. /\ ex[e].pc = "run" /\ Uncounted /\ ex' = [ex EXCEPT ![e].pc = "advance"]
      /\ data' = IF ex[e].phase = "business_cleanup" THEN data \ {u} ELSE data
      /\ objects' = IF ex[e].phase = "storage_cleanup" THEN objects \ {u} ELSE objects
      /\ IF ex[e].phase = "project_user_cleanup" THEN ProjectUserCleanup(u)
         ELSE UNCHANGED <<ev, live, identity, ptok, users>>
      /\ UNCHANGED <<hook, enabled, del, fence, dtok, backup, late, nextUser, gate, plock, wk, rs>>
  BY <1>1, <1>2 DEF RunPhase, configVars, deletionVars
<1>4. /\ users' \subseteq users /\ data' \subseteq data /\ objects' \subseteq objects
      /\ live' \subseteq live
      /\ ex[e].phase = "project_user_cleanup" => u \notin users'
  BY <1>3 DEF ProjectUserCleanup
<1>5. IdentityFades /\ identity' \in Identity /\ (identity'.status # "none" <=> identity'.user # 0)
  <2>1. identity' = identity \/ identity' = NoIdentity
    BY <1>3 DEF ProjectUserCleanup
  <2> QED
    BY <2>1, AuthTypes, Defaults DEF IdentityFades
<1>6. ptok' \in BOOLEAN /\ (ptok' => identity'.status # "none")
  <2>1. \/ identity' = identity /\ ptok' = ptok
        \/ ptok' = FALSE
    BY <1>3 DEF ProjectUserCleanup
  <2>2. CASE identity' = identity /\ ptok' = ptok
    BY <2>2, AuthTypes
  <2>3. CASE ptok' = FALSE
    BY <2>3, Zenon
  <2> QED
    BY <2>1, <2>2, <2>3
<1>7. ev' \in [Events -> Event] /\ EventsGrow /\ EventsInv'
  <2>1. CASE ev' = ev
    BY <2>1, SameEvents DEF AccountInv, TypeOK
  <2>2. CASE ProjectUserCleanup(u)
    <3> DEFINE x(f) == [ev[f] EXCEPT !.user = 0]
    <3>1. ev' = [f \in Events |-> IF ev[f].user = u THEN x(f) ELSE ev[f]]
      BY <2>2 DEF ProjectUserCleanup
    <3>2. \A f \in Events :
            /\ ev[f] \in Event /\ x(f) \in Event /\ x(f).kind = ev[f].kind
            /\ x(f).before = ev[f].before /\ x(f).row = ev[f].row /\ x(f).user = 0
      BY EventFields, Numbers DEF Event
    <3>3. /\ \A f \in Events : ev'[f] = ev[f] \/ ev'[f] = x(f)
          /\ ev' = [f \in Events |-> ev'[f]]
      BY <3>1
    <3> HIDE DEF x
    <3>4. ev' \in [Events -> Event]
      BY <3>2, <3>3
    <3>5. EventsGrow
      BY <3>2, <3>3 DEF EventsGrow
    <3>6. \A f \in Events : EventSound(f)'
      BY <3>2, <3>3 DEF AccountInv, EventsInv, EventSound
    <3> QED
      BY <3>4, <3>5, <3>6 DEF EventsInv
  <2> QED
    BY <1>3, <2>1, <2>2
<1>8. /\ SchemaSafe /\ RowsStay /\ TokensFade
      /\ \A f \in Executors : ClaimsStay(f)
  BY <1>3, <1>4, SameSchema, SameRows, SameTokens
<1>9. RecordsInv'
  BY <1>3, <1>5, <1>7, <1>8, RecordsKept
<1>10. /\ ex' \in [Executors -> ExecutorFrames] /\ ex'[e].pc = "advance" /\ ex'[e].d = d
       /\ ex'[e].phase = ex[e].phase /\ \A f \in Executors \ {e} : ex'[f] = ex[f]
  BY <1>1, <1>3, PcMoves DEF ExecutorPcs
<1>11. ExecutorSound(e)'
  <2>1. Ran(e)'
    BY <1>2, <1>3, <1>4, <1>10 DEF Ran
  <2>2. ExecutorSound(e)
    BY DEF AccountInv, ExecutorsInv
  <2> QED
    BY <1>1, <1>3, <1>10, <2>1, <2>2 DEF ExecutorSound, HoldsDeletion
<1>12. ExecutorsInv'
  BY <1>8, <1>10, <1>11, ExecutorKept DEF ExecutorsInv
<1>13. WorkersInv' /\ RestoreSound'
  BY <1>3, WorkersStay DEF AccountInv, RestoreSound
<1>14. TypeOK'
  <2>1. /\ users' \subseteq Users /\ data' \subseteq Users /\ objects' \subseteq Users
        /\ live' \subseteq Users
    BY <1>4 DEF AccountInv, TypeOK
  <2> QED
    BY <1>3, <1>5, <1>6, <1>7, <1>10, <2>1, Counted DEF AccountInv, TypeOK, ExecutorFrames
<1> QED
  BY <1>7, <1>9, <1>12, <1>13, <1>14 DEF AccountInv

-----------------------------------------------------------------------------
(* Restores and lost sessions *)

\* The schema changes behind a closed gate, or by the replay of the fences.
LEMMA RestoreStepInv ==
  ASSUME AccountInv, SameRecords, SchemaSafe, RestoreSound', Call \/ Fault \/ Uncounted,
         UNCHANGED <<objects, identity, ptok, live, enabled, backup, late, wk, ex>>,
         users' \subseteq Users, data' \subseteq Users, hook' \in BOOLEAN,
         gate' \in {"none", "restoring", "recovery_required"},
         plock' \in Executors \cup {Nobody, Restorer},
         rs' \in {"idle", "restore", "replay", "failed"}
  PROVE  AccountInv'
<1>1. RecordsInv' /\ EventsInv' /\ \A e \in Executors : ClaimsStay(e)
  BY SameIdentity, RecordsSteady
<1>2. ExecutorsInv' /\ WorkersInv'
  BY <1>1, ExecutorsStay, WorkersStay
<1>3. TypeOK'
  BY Counted DEF AccountInv, TypeOK, SameRecords
<1> QED
  BY <1>1, <1>2, <1>3 DEF AccountInv

LEMMA RestoreTypes ==
  ASSUME AccountInv
  PROVE  /\ users \subseteq Users /\ data \subseteq Users /\ backup.users \subseteq Users
         /\ backup.data \subseteq Users /\ hook \in BOOLEAN
         /\ gate \in {"none", "restoring", "recovery_required"}
         /\ plock \in Executors \cup {Nobody, Restorer}
         /\ rs \in {"idle", "restore", "replay", "failed"} /\ RestoreSound
BY DEF AccountInv, TypeOK

LEMMA RestoreBeginsInv ==
  ASSUME AccountInv, RestoreBegins
  PROVE  AccountInv'
<1>1. /\ Call /\ plock' = Restorer /\ gate' = "restoring" /\ rs' = "restore" /\ SameRecords
      /\ UNCHANGED <<users, data, objects, identity, ptok, live, hook, enabled, backup, late, wk, ex>>
  BY DEF RestoreBegins, schemaVars, authVars, configVars, deletionVars, restVars, SameRecords
<1>2. SchemaSafe /\ RestoreSound'
  BY <1>1, SameSchema DEF RestoreSound
<1> QED
  BY <1>1, <1>2, RestoreTypes, RestoreStepInv

LEMMA RestoreDataInv ==
  ASSUME AccountInv, RestoreData
  PROVE  AccountInv'
<1>1. /\ rs = "restore" /\ (Uncounted \/ Fault) /\ rs' \in {"replay", "failed"} /\ SameRecords
      /\ users' \in {users, {}, backup.users} /\ data' \in {data, {}, backup.data}
      /\ UNCHANGED <<objects, identity, ptok, live, enabled, backup, late, gate, plock, wk, ex>>
      /\ hook' \in BOOLEAN
  BY DEF RestoreData, authVars, deletionVars, restVars, SameRecords
<1>2. users' \subseteq Users /\ data' \subseteq Users
  BY <1>1, RestoreTypes
<1>3. gate' = "restoring" /\ RestoreSound'
  BY <1>1, RestoreTypes DEF RestoreSound
<1>4. SchemaSafe
  BY <1>1, <1>3 DEF SchemaSafe
<1> QED
  BY <1>1, <1>2, <1>3, <1>4, RestoreTypes, RestoreStepInv

\* Every accepted deletion has a fence, so the replay removes its user.
LEMMA ReplayFencesInv ==
  ASSUME AccountInv, ReplayFences
  PROVE  AccountInv'
<1>1. /\ rs = "replay" /\ SameRecords /\ (Uncounted \/ Fault)
      /\ UNCHANGED <<objects, identity, ptok, live, hook, enabled, backup, late, wk, ex>>
  BY DEF ReplayFences, authVars, configVars, deletionVars, restVars, SameRecords
<1>2. CASE /\ users' = users \ Replayed /\ data' = data \ Replayed /\ gate' = "none" /\ rs' = "idle"
           /\ plock' = IF plock = Restorer THEN Nobody ELSE plock
  <2>1. \A d \in Dels : del[d].status \in Final => del[d].user \in Replayed
    BY DEF AccountInv, RecordsInv, DeletionsInv, RowSound, Replayed
  <2>2. SchemaSafe
    BY <1>1, <1>2, <2>1 DEF SchemaSafe
  <2>3. /\ users' \subseteq Users /\ data' \subseteq Users
        /\ plock' \in Executors \cup {Nobody, Restorer}
    BY <1>2, RestoreTypes
  <2>4. RestoreSound'
    BY <1>2 DEF RestoreSound
  <2> QED
    BY <1>1, <1>2, <2>2, <2>3, <2>4, RestoreTypes, RestoreStepInv
<1>3. CASE rs' = "failed" /\ UNCHANGED <<users, data, gate, plock>>
  <2>1. SchemaSafe /\ RestoreSound'
    BY <1>1, <1>3, RestoreTypes, SameSchema DEF RestoreSound
  <2> QED
    BY <1>1, <1>3, <2>1, RestoreTypes, RestoreStepInv
<1> QED
  BY <1>2, <1>3 DEF ReplayFences

LEMMA RestoreEndsInv ==
  ASSUME AccountInv, RestoreFails \/ RestoreCrashes
  PROVE  AccountInv'
<1>1. /\ (Uncounted \/ Fault) /\ SameRecords /\ rs' = "idle"
      /\ gate' = gate \/ gate' = "recovery_required"
      /\ plock' = IF plock = Restorer THEN Nobody ELSE plock
      /\ UNCHANGED <<users, data, objects, identity, ptok, live, hook, enabled, backup, late, wk, ex>>
  BY DEF RestoreFails, RestoreCrashes, schemaVars, authVars, configVars, deletionVars, restVars,
         SameRecords
<1>2. SchemaSafe /\ RestoreSound'
  BY <1>1, SameSchema DEF RestoreSound
<1>3. plock' \in Executors \cup {Nobody, Restorer}
  BY <1>1, RestoreTypes
<1>4. gate' \in {"none", "restoring", "recovery_required"}
  BY <1>1, RestoreTypes
<1> QED
  BY <1>1, <1>2, <1>3, <1>4, RestoreTypes, RestoreStepInv

LEMMA SessionDropsInv ==
  ASSUME AccountInv, SessionDrops
  PROVE  AccountInv'
<1>1. /\ Fault /\ SameRecords /\ plock' = Nobody
      /\ UNCHANGED <<users, data, objects, identity, ptok, live, hook, enabled, backup, late, gate,
                     rs, wk, ex>>
  BY DEF SessionDrops, schemaVars, authVars, configVars, deletionVars, restVars, SameRecords
<1>2. SchemaSafe /\ RestoreSound'
  BY <1>1, RestoreTypes, SameSchema DEF RestoreSound
<1> QED
  BY <1>1, <1>2, RestoreTypes, RestoreStepInv
-----------------------------------------------------------------------------
(* The invariant holds *)

LEMMA WorkerStepInv ==
  ASSUME AccountInv, NEW w \in Workers, WorkerStep(w) \/ ClientCall(w)
  PROVE  AccountInv'
<1>1. CASE MarkPending(w)
  BY <1>1, MarkPendingInv
<1>2. CASE RefreshEnds(w)
  BY <1>2, RefreshEndsInv
<1>3. CASE RequestWrites(w)
  BY <1>3, RequestWritesInv
<1>4. CASE RevokeEnds(w)
  BY <1>4, RevokeEndsInv
<1>5. CASE ConfirmRefused(w)
  BY <1>5, WorkerLeavesInv
<1>6. ASSUME NEW t \in TokenIds, ConfirmAccepts(w, t) PROVE AccountInv'
  BY <1>6, ConfirmAcceptsInv
<1>7. CASE ConfirmFails(w)
  BY <1>7, ConfirmFailsInv
<1>8. CASE Compensate(w)
  BY <1>8, CompensateInv
<1>9. CASE LoginReactivates(w)
  BY <1>9, LoginReactivatesInv
<1>10. CASE LoginSignsUp(w)
  BY <1>10, LoginSignsUpInv
<1>11. CASE LoginRefused(w) \/ LoginBreaks(w)
  BY <1>11, LoginRefusedInv
<1>12. CASE RevokeBegins(w)
  BY <1>12, RevokeBeginsInv
<1>13. ASSUME NEW u \in Users, RequestAdmitted(w, u) \/ RefreshBegins(w, u) PROVE AccountInv'
  BY <1>13, SessionStartInv
<1>14. ASSUME NEW d \in Dels, ConfirmClaims(w, d) PROVE AccountInv'
  BY <1>14, ConfirmClaimsInv
<1> QED
  BY <1>1, <1>2, <1>3, <1>4, <1>5, <1>6, <1>7, <1>8, <1>9, <1>10, <1>11, <1>12, <1>13, <1>14
  DEF WorkerStep, ClientCall

LEMMA OtherCallInv ==
  ASSUME AccountInv, OtherCall
  PROVE  AccountInv'
<1>1. CASE TakeBackup
  BY <1>1, TakeBackupInv
<1>2. CASE RestoreBegins
  BY <1>2, RestoreBeginsInv
<1>3. ASSUME NEW u \in Users, AdminDeletesUser(u) PROVE AccountInv'
  BY <1>3, AdminDeletesUserInv
<1>4. ASSUME NEW on \in BOOLEAN, SetConfig(on) PROVE AccountInv'
  BY <1>4, SetConfigInv
<1>5. ASSUME NEW d \in Dels, CreateIntent(d) PROVE AccountInv'
  BY <1>5, CreateIntentInv
<1>6. ASSUME NEW d \in Dels, OperatorResumes(d) PROVE AccountInv'
  BY <1>6, OperatorResumesInv
<1>7. ASSUME NEW e \in Events, AcknowledgeEvent(e) PROVE AccountInv'
  BY <1>7, AcknowledgeEventInv
<1>8. ASSUME NEW e \in Events, AppleEmits(e, "consent-revoked") \/ AppleEmits(e, "account-deleted")
      PROVE  AccountInv'
  BY <1>8, AppleEmitsInv
<1> QED
  BY <1>1, <1>2, <1>3, <1>4, <1>5, <1>6, <1>7, <1>8 DEF OtherCall

LEMMA ExecutorStepsInv ==
  ASSUME AccountInv, NEW e \in Executors, ExecutorStep(e)
  PROVE  AccountInv'
<1>1. ASSUME NEW d \in Dels, ClaimDeletion(e, d) PROVE AccountInv'
  BY <1>1, ClaimDeletionInv
<1>2. ASSUME NEW t \in TokenIds, ClaimToken(e, t) PROVE AccountInv'
  BY <1>2, ClaimTokenInv
<1>3. CASE RunPhase(e)
  BY <1>3, RunPhaseInv
<1>4. CASE CleanupRejected(e)
  BY <1>4, PhaseFailsInv
<1>5. CASE AdvanceDeletion(e)
  BY <1>5, AdvanceDeletionInv
<1>6. CASE RetryDeletion(e)
  BY <1>6, RetryDeletionInv
<1>7. CASE AppleAnswers(e)
  BY <1>7, AppleAnswersInv
<1>8. CASE DeleteToken(e)
  BY <1>8, DeleteTokenInv
<1>9. CASE SettleRevocation(e)
  BY <1>9, SettleRevocationInv
<1>10. CASE RetryToken(e)
  BY <1>10, RetryTokenInv
<1> QED
  BY <1>1, <1>2, <1>3, <1>4, <1>5, <1>6, <1>7, <1>8, <1>9, <1>10 DEF ExecutorStep

LEMMA LeasesInv ==
  ASSUME AccountInv, LeasesExpire \/ TimeStep
  PROVE  AccountInv'
<1>1. "live" \in LeaseStates /\ "expired" \in LeaseStates
  BY DEF LeaseStates
<1>2. ASSUME NEW d \in Dels, DeletionLeaseExpires(d) PROVE AccountInv'
  BY <1>1, <1>2, DeletionLeaseInv DEF DeletionLeaseExpires
<1>3. ASSUME NEW t \in TokenIds, TokenLeaseExpires(t) PROVE AccountInv'
  BY <1>1, <1>3, TokenLeaseInv DEF TokenLeaseExpires
<1>4. ASSUME NEW d \in Dels, ReadExpiresIntent(d) PROVE AccountInv'
  BY <1>4, ReadExpiresIntentInv
<1>5. ASSUME NEW d \in Dels, ConfirmLeaseExpires(d) PROVE AccountInv'
  BY <1>5, ConfirmLeaseExpiresInv
<1>6. ASSUME NEW e \in Executors, RenewDeletionLease(e) PROVE AccountInv'
  <2>1. PICK d \in Dels : d = ex[e].d
    BY <1>6 DEF RenewDeletionLease, AccountInv, ExecutorsInv, ExecutorSound
  <2>2. /\ del' = [del EXCEPT ![d].lease = "live"] /\ Uncounted
        /\ UNCHANGED <<schemaVars, authVars, configVars, fence, dtok, restVars, gate,
                       plock, wk, ex, rs>>
    BY <1>6, <2>1 DEF RenewDeletionLease
  <2> QED
    BY <1>1, <2>2, DeletionLeaseInv
<1>7. ASSUME NEW e \in Executors, RenewTokenLease(e) PROVE AccountInv'
  <2>1. PICK t \in TokenIds : t = ex[e].t
    BY <1>7 DEF RenewTokenLease, AccountInv, ExecutorsInv, ExecutorSound
  <2>2. /\ dtok' = [dtok EXCEPT ![t].lease = "live"] /\ Uncounted
        /\ UNCHANGED <<schemaVars, authVars, configVars, del, fence, restVars, gate,
                       plock, wk, ex, rs>>
    BY <1>7, <2>1 DEF RenewTokenLease
  <2> QED
    BY <1>1, <2>2, TokenLeaseInv
<1> QED
  BY <1>2, <1>3, <1>4, <1>5, <1>6, <1>7 DEF LeasesExpire, TimeStep

LEMMA FaultStepInv ==
  ASSUME AccountInv, FaultStep
  PROVE  AccountInv'
<1>1. ASSUME NEW w \in Workers, WorkerCrashes(w) PROVE AccountInv'
  BY <1>1, WorkerLeavesInv
<1>2. ASSUME NEW e \in Executors, ExecutorCrashes(e) PROVE AccountInv'
  BY <1>2, ExecutorCrashesInv
<1>3. ASSUME NEW e \in Executors, PhaseFails(e) PROVE AccountInv'
  BY <1>3, PhaseFailsInv
<1>4. CASE RestoreCrashes
  BY <1>4, RestoreEndsInv
<1>5. CASE SessionDrops
  BY <1>5, SessionDropsInv
<1> QED
  BY <1>1, <1>2, <1>3, <1>4, <1>5 DEF FaultStep

LEMMA NextInv == AccountInv /\ [Next]_vars => AccountInv'
<1> SUFFICES ASSUME AccountInv, [Next]_vars PROVE AccountInv'
  OBVIOUS
<1>1. ASSUME NEW w \in Workers, WorkerStep(w) \/ ClientCall(w) PROVE AccountInv'
  BY <1>1, WorkerStepInv
<1>2. CASE OtherCall
  BY <1>2, OtherCallInv
<1>3. ASSUME NEW e \in Events, NotificationArrives(e) PROVE AccountInv'
  BY <1>3, NotificationArrivesInv
<1>4. ASSUME NEW e \in Executors, ExecutorStep(e) PROVE AccountInv'
  BY <1>4, ExecutorStepsInv
<1>5. CASE LeasesExpire \/ TimeStep
  BY <1>5, LeasesInv
<1>6. CASE RestoreStep
  BY <1>6, RestoreDataInv, ReplayFencesInv, RestoreEndsInv DEF RestoreStep
<1>7. CASE FaultStep
  BY <1>7, FaultStepInv
<1>8. CASE UNCHANGED vars
  <2>1. /\ UNCHANGED <<schemaVars, authVars, configVars, deletionVars, restVars, gate, plock, ex, rs>>
        /\ wk' = wk /\ Uncounted
    BY <1>8 DEF vars, schemaVars, authVars, configVars, deletionVars, restVars, Uncounted
  <2> QED
    BY <2>1, WorkersStay, WorkerOnly
<1> QED
  BY <1>1, <1>2, <1>3, <1>4, <1>5, <1>6, <1>7, <1>8 DEF Next

THEOREM InvHolds == Spec => []AccountInv
BY InitInv, NextInv, PTL DEF Spec

\* The records are well typed, the generations of deleted and living identities
\* advance, a revocation under way hits no new authorization, and no deletion rests
\* on a notification older than the account.
THEOREM AccountRecords == Spec => []AccountsSound
<1>1. ASSUME AccountInv PROVE RevocationBlocksReturn
  <2> SUFFICES ASSUME NEW e \in Executors, ex[e].pc = "revoke", HoldsToken(e, ex[e].t),
                      dtok[ex[e].t].purpose = "accepted_deletion",
                      fence[dtok[ex[e].t].d] = "done"
               PROVE  ~(HasIdentity /\ identity.user # del[dtok[ex[e].t].d].user)
    BY DEF RevocationBlocksReturn
  <2>1. ex[e].t \in TokenIds
    BY <1>1 DEF AccountInv, ExecutorsInv, ExecutorSound
  <2>2. TokenSound(ex[e].t)
    BY <1>1, <2>1 DEF AccountInv, RecordsInv, TokensInv
  <2> QED
    BY <2>2 DEF TokenSound, HoldsToken
<1>2. ASSUME AccountInv PROVE DeletionMatchesEvent
  BY <1>2 DEF AccountInv, RecordsInv, DeletionsInv, EventNamed, DeletionMatchesEvent
<1>3. AccountInv => AccountsSound
  BY <1>1, <1>2 DEF AccountInv, RecordsInv, AccountsSound
<1> QED
  BY <1>3, InvHolds, PTL

\* Once its deletion is accepted, an identity is never active again.
THEOREM AcceptanceIsFinal == Spec => []AcceptedIsFinal
<1>1. AccountInv => AcceptedIsFinal
  BY DEF AccountInv, RecordsInv
<1> QED
  BY <1>1, InvHolds, PTL

\* While the project is open, nothing of a completed deletion is there, whatever
\* was restored; requests admitted before the acceptance are excepted.
THEOREM DeletedStaysDeleted == Spec => []NoResurrection
<1>1. ASSUME AccountInv, gate = "none", NEW d \in Dels, del[d].status = "completed"
      PROVE  del[d].user \notin users /\ del[d].user \notin (data \cup objects) \ late
  <2>1. del[d].phase = "completed" /\ Cleaned(d)
    BY <1>1 DEF AccountInv, RecordsInv, DeletionsInv, RowSound
  <2> QED
    BY <1>1, <2>1 DEF Cleaned
<1>2. AccountInv => NoResurrection
  BY <1>1 DEF NoResurrection
<1> QED
  BY <1>2, InvHolds, PTL
-----------------------------------------------------------------------------
(* Phases never go back *)

RowForward(d) ==
  /\ Rank(del'[d].phase) >= Rank(del[d].phase)
  /\ del[d].status \in Final => del'[d].status \in Final
  /\ del[d].status = "completed" => del'[d].status = "completed"

RowsForward == \A d \in Dels : RowForward(d)

LEMMA RankNat == \A phase : Rank(phase) \in 0..5
BY DEF Rank

LEMMA SamePhase ==
  ASSUME NEW d \in Dels, del'[d].phase = del[d].phase,
         del[d].status \in Final => del'[d].status \in Final,
         del[d].status = "completed" => del'[d].status = "completed"
  PROVE  RowForward(d)
BY RankNat DEF RowForward

LEMMA SameForward ==
  ASSUME del' = del
  PROVE  RowsForward
BY SamePhase DEF RowsForward

\* One row changes.
LEMMA OneForward ==
  ASSUME AccountInv, NEW d \in Dels, RowForward(d), \A c \in Dels \ {d} : del'[c] = del[c]
  PROVE  RowsForward
BY SamePhase DEF RowsForward

\* A row that was not accepted is at the first phase, so whatever it becomes is
\* not earlier.
LEMMA UnacceptedForward ==
  ASSUME AccountInv, NEW d \in Dels, del[d].status \notin Final
  PROVE  RowForward(d)
<1>1. del[d].phase = "awaiting_confirmation"
  BY DEF AccountInv, RecordsInv, DeletionsInv, RowSound
<1> QED
  BY <1>1, RankNat DEF RowForward, Rank, Final

LEMMA WorkerForward ==
  ASSUME AccountInv, NEW w \in Workers, WorkerStep(w) \/ ClientCall(w)
  PROVE  RowsForward
<1>1. ASSUME NEW t \in TokenIds, ConfirmAccepts(w, t) PROVE RowsForward
  <2>1. PICK d \in Dels : d = wk[w].d
    BY <1>1, AuthTypes, SMTT(30) DEF ConfirmAccepts, WorkersInv, WorkerSound
  <2>2. del[d].status \notin Final /\ \A c \in Dels \ {d} : del'[c] = del[c]
    BY <1>1, <2>1, ExecutorTypes DEF ConfirmAccepts, Confirmable, Final, Underway
  <2> QED
    BY <2>2, UnacceptedForward, OneForward
<1>2. CASE LoginSignsUp(w)
  <2>1. \A d \in Dels : del'[d].phase = del[d].phase /\ del'[d].status = del[d].status
    BY <1>2, ExecutorTypes DEF LoginSignsUp, Deletion
  <2> QED
    BY <2>1, SamePhase DEF RowsForward
<1>3. ASSUME NEW d \in Dels, ConfirmClaims(w, d) PROVE RowsForward
  <2>1. del[d].status \notin Final /\ \A c \in Dels \ {d} : del'[c] = del[c]
    BY <1>3, ExecutorTypes DEF ConfirmClaims, Final, Underway
  <2> QED
    BY <2>1, UnacceptedForward, OneForward
<1>4. CASE \/ MarkPending(w) \/ RefreshEnds(w) \/ RequestWrites(w) \/ RevokeEnds(w)
           \/ ConfirmRefused(w) \/ ConfirmFails(w) \/ Compensate(w)
  BY <1>4, SameForward DEF MarkPending, RefreshEnds, RequestWrites, RevokeEnds, ConfirmRefused,
                           ConfirmFails, Compensate, deletionVars
<1>5. CASE \/ LoginReactivates(w) \/ LoginRefused(w) \/ LoginBreaks(w) \/ RevokeBegins(w)
           \/ \E u \in Users : RequestAdmitted(w, u) \/ RefreshBegins(w, u)
  BY <1>5, SameForward DEF LoginReactivates, LoginRefused, LoginBreaks, RevokeBegins,
                           RequestAdmitted, RefreshBegins, deletionVars
<1> QED
  BY <1>1, <1>2, <1>3, <1>4, <1>5 DEF WorkerStep, ClientCall

LEMMA ConvergeForward ==
  ASSUME AccountInv, NEW e \in Events, Converge(e)
  PROVE  RowsForward
<1>1. CASE UNCHANGED <<authVars, deletionVars>>
  BY <1>1, SameForward DEF deletionVars
<1>2. ASSUME NEW d \in Dels, NEW t \in TokenIds, AcceptFromApple(e, d, t) PROVE RowsForward
  <2>1. del[d].status \notin Final
    BY <1>2 DEF AcceptFromApple, FreeDeletion, Final, Underway
  <2>2. \A c \in Dels \ {d} : del'[c] = del[c]
    BY <1>2, ExecutorTypes DEF AcceptFromApple
  <2> QED
    BY <2>1, <2>2, UnacceptedForward, OneForward
<1> QED
  BY <1>1, <1>2 DEF Converge

LEMMA NotificationForward ==
  ASSUME AccountInv, NEW e \in Events, NotificationArrives(e) \/ AcknowledgeEvent(e)
  PROVE  RowsForward
<1>1. Converge(e) \/ UNCHANGED deletionVars
  BY DEF NotificationArrives, AcknowledgeEvent
<1> QED
  BY <1>1, ConvergeForward, SameForward DEF deletionVars

LEMMA OtherForward ==
  ASSUME AccountInv, OtherCall
  PROVE  RowsForward
<1>1. ASSUME NEW d \in Dels, CreateIntent(d) PROVE RowsForward
  <2>1. \A c \in Dels : c = d \/ c \in ActiveDeletions(identity.user) => del[c].status \notin Final
    BY <1>1 DEF CreateIntent, FreeDeletion, SessionUsable, ActiveDeletions, Final, Underway
  <2>2. \A c \in Dels : ~(c = d \/ c \in ActiveDeletions(identity.user)) => del'[c] = del[c]
    BY <1>1 DEF CreateIntent
  <2> QED
    BY <2>1, <2>2, UnacceptedForward, SamePhase DEF RowsForward
<1>2. ASSUME NEW d \in Dels, OperatorResumes(d) PROVE RowsForward
  <2>1. /\ del'[d].phase = del[d].phase /\ del'[d].status = "processing"
        /\ del[d].status = "attention_required" /\ \A c \in Dels \ {d} : del'[c] = del[c]
    BY <1>2, ExecutorTypes DEF OperatorResumes, Deletion
  <2> QED
    BY <2>1, SamePhase, OneForward DEF Final, Underway
<1>3. ASSUME NEW e \in Events, AcknowledgeEvent(e) PROVE RowsForward
  BY <1>3, NotificationForward
<1>4. CASE \/ TakeBackup \/ RestoreBegins
           \/ \E u \in Users : AdminDeletesUser(u)
           \/ \E on \in BOOLEAN : SetConfig(on)
           \/ \E e \in Events : AppleEmits(e, "consent-revoked") \/ AppleEmits(e, "account-deleted")
  BY <1>4, SameForward DEF TakeBackup, RestoreBegins, AdminDeletesUser, SetConfig, AppleEmits,
                           deletionVars
<1> QED
  BY <1>1, <1>2, <1>3, <1>4 DEF OtherCall

\* An executor writes a row only while its claim stands, and then the row is at
\* the phase it works on.
LEMMA ExecutorForward ==
  ASSUME AccountInv, NEW e \in Executors, ExecutorStep(e)
  PROVE  RowsForward
<1>1. ASSUME NEW d \in Dels, ClaimDeletion(e, d) PROVE RowsForward
  <2>1. /\ del'[d].phase = del[d].phase /\ del'[d].status = "processing"
        /\ del[d].status # "completed" /\ \A c \in Dels \ {d} : del'[c] = del[c]
    BY <1>1, ExecutorTypes DEF ClaimDeletion, Deletion
  <2> QED
    BY <2>1, SamePhase, OneForward DEF Final, Underway
<1>2. CASE AdvanceDeletion(e) /\ HoldsDeletion(e, ex[e].d)
  <2>1. PICK d \in Dels : d = ex[e].d
    BY <1>2 DEF AdvanceDeletion, AccountInv, ExecutorsInv, ExecutorSound
  <2>2. PICK phase : phase = NextPhase(ex[e].phase)
    OBVIOUS
  <2>3. /\ del'[d].phase = phase /\ \A c \in Dels \ {d} : del'[c] = del[c]
        /\ del'[d].status = IF phase = "completed" THEN "completed" ELSE del[d].status
    BY <1>2, <2>1, <2>2, ExecutorTypes DEF AdvanceDeletion, Deletion
  <2>4. ex[e].phase = del[d].phase /\ del[d].status = "processing" /\ del[d].phase \in WorkPhases
    BY <1>2, <2>1 DEF AdvanceDeletion, AccountInv, ExecutorsInv, ExecutorSound, HoldsDeletion
  <2>5. Rank(phase) >= Rank(del[d].phase)
    BY <2>2, <2>4 DEF NextPhase, Rank, WorkPhases
  <2>6. RowForward(d)
    BY <2>3, <2>4, <2>5 DEF RowForward, Final, Underway
  <2> QED
    BY <2>3, <2>6, OneForward
<1>3. CASE RetryDeletion(e) /\ HoldsDeletion(e, ex[e].d)
  <2>1. PICK d \in Dels : d = ex[e].d
    BY <1>3 DEF RetryDeletion, AccountInv, ExecutorsInv, ExecutorSound
  <2>2. /\ del'[d].phase = ex[e].phase /\ \A c \in Dels \ {d} : del'[c] = del[c]
        /\ del'[d].status \in {"processing", "attention_required"}
    BY <1>3, <2>1, ExecutorTypes DEF RetryDeletion, Deletion
  <2>3. ex[e].phase = del[d].phase /\ del[d].status = "processing"
    BY <1>3, <2>1 DEF RetryDeletion, AccountInv, ExecutorsInv, ExecutorSound, HoldsDeletion
  <2> QED
    BY <2>2, <2>3, SamePhase, OneForward DEF Final, Underway
<1>4. CASE SettleRevocation(e)
  <2>1. PICK d \in Dels : d = ex[e].d
    BY <1>4 DEF SettleRevocation, AccountInv, ExecutorsInv, ExecutorSound
  <2>2. /\ del'[d].phase = del[d].phase /\ del'[d].status = del[d].status
        /\ \A c \in Dels \ {d} : del'[c] = del[c]
    BY <1>4, <2>1, ExecutorTypes DEF SettleRevocation, Deletion
  <2> QED
    BY <2>2, SamePhase, OneForward
<1>5. CASE /\ AdvanceDeletion(e) \/ RetryDeletion(e)
           /\ ~HoldsDeletion(e, ex[e].d)
  BY <1>5, SameForward, SMTT(20) DEF AdvanceDeletion, RetryDeletion
<1>6. CASE \/ \E t \in TokenIds : ClaimToken(e, t)
           \/ RunPhase(e) \/ CleanupRejected(e) \/ AppleAnswers(e) \/ DeleteToken(e) \/ RetryToken(e)
  BY <1>6, SameForward, ZenonT(30) DEF ClaimToken, RunPhase, CleanupRejected, AppleAnswers, DeleteToken,
                           RetryToken, deletionVars
<1> QED
  BY <1>1, <1>2, <1>3, <1>4, <1>5, <1>6 DEF ExecutorStep

LEMMA TimeForward ==
  ASSUME AccountInv, LeasesExpire \/ TimeStep
  PROVE  RowsForward
<1>1. ASSUME NEW d \in Dels,
             \/ del' = [del EXCEPT ![d].lease = "expired"]
             \/ del' = [del EXCEPT ![d].lease = "live"]
             \/ del' = [del EXCEPT ![d].confirmer = Nobody]
      PROVE  RowsForward
  <2>1. /\ del'[d].phase = del[d].phase /\ del'[d].status = del[d].status
        /\ \A c \in Dels \ {d} : del'[c] = del[c]
    BY <1>1, ExecutorTypes DEF Deletion
  <2> QED
    BY <2>1, SamePhase, OneForward
<1>2. ASSUME NEW d \in Dels, ReadExpiresIntent(d) PROVE RowsForward
  <2>1. del[d].status \notin Final /\ \A c \in Dels \ {d} : del'[c] = del[c]
    BY <1>2, ExecutorTypes DEF ReadExpiresIntent, Final, Underway
  <2> QED
    BY <2>1, UnacceptedForward, OneForward
<1>3. ASSUME NEW e \in Executors, RenewDeletionLease(e) PROVE RowsForward
  <2>1. PICK d \in Dels : d = ex[e].d
    BY <1>3 DEF RenewDeletionLease, AccountInv, ExecutorsInv, ExecutorSound
  <2> QED
    BY <1>1, <1>3, <2>1 DEF RenewDeletionLease
<1>4. CASE \/ \E t \in TokenIds : TokenLeaseExpires(t)
           \/ \E e \in Executors : RenewTokenLease(e)
  BY <1>4, SameForward DEF TokenLeaseExpires, RenewTokenLease
<1>5. ASSUME NEW d \in Dels, DeletionLeaseExpires(d) \/ ConfirmLeaseExpires(d) PROVE RowsForward
  BY <1>1, <1>5 DEF DeletionLeaseExpires, ConfirmLeaseExpires
<1> QED
  BY <1>2, <1>3, <1>4, <1>5 DEF LeasesExpire, TimeStep

LEMMA RestForward ==
  ASSUME RestoreStep \/ FaultStep \/ UNCHANGED vars
  PROVE  RowsForward
<1>1. del' = del
  BY DEF RestoreStep, FaultStep, RestoreData, ReplayFences, RestoreFails, WorkerCrashes,
         ExecutorCrashes, PhaseFails, RestoreCrashes, SessionDrops, deletionVars, vars
<1> QED
  BY <1>1, SameForward

\* The late result of an executor that lost its claim neither takes a deletion back
\* to an earlier phase nor takes back its acceptance or its completion.
THEOREM PhasesAdvance == Spec => PhaseNeverGoesBack
<1>1. AccountInv /\ [Next]_vars => RowsForward
  <2> SUFFICES ASSUME AccountInv, [Next]_vars PROVE RowsForward
    OBVIOUS
  <2> QED
    BY WorkerForward, OtherForward, NotificationForward, ExecutorForward, TimeForward, RestForward
    DEF Next
<1>2. RowsForward => [\A d \in Dels :
         /\ Rank(del'[d].phase) >= Rank(del[d].phase)
         /\ del[d].status \in Final => del'[d].status \in Final
         /\ del[d].status = "completed" => del'[d].status = "completed"]_vars
  BY DEF RowsForward, RowForward
<1> QED
  BY <1>1, <1>2, InvHolds, PTL DEF Spec, PhaseNeverGoesBack
=============================================================================
