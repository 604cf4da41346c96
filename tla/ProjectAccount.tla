--------------------------- MODULE ProjectAccount ---------------------------
(***************************************************************************)
(* The life of one Apple subject in one project: sign-in and sign-up       *)
(* (project-auth.service.ts), revocation and Apple notifications           *)
(* (apple-lifecycle.service.ts), self-service account deletion             *)
(* (project-account-deletion.service.ts), the executors that carry a       *)
(* deletion out (project-account-deletion.executor.ts) and the restore of  *)
(* a project backup, which must not bring deleted accounts back            *)
(* (project-account-deletion-restore.service.ts, backup.service.ts).       *)
(*                                                                         *)
(* A transaction that takes the project-auth advisory lock is one step;    *)
(* executors and the restore hold that lock through a session and take     *)
(* many steps.  Calls to Apple happen between steps.  The subject has at   *)
(* most one identity row; every sign-up creates a new project user and a   *)
(* new identity, so a user's number also names its identity row, and it    *)
(* orders the identities in time.  Clocks are not modelled: an intent or a *)
(* deadline is past its time when the code that asks finds it so, and      *)
(* `confirmer` is the handler whose confirmation lease has not run out.    *)
(***************************************************************************)
EXTENDS Naturals, FiniteSetsExt

CONSTANTS
  Workers,       \* request handlers of the API
  Executors,     \* deletion executors, one per API instance
  Nobody,        \* "no holder"
  Restorer,      \* the restore as a holder of the project lock
  MaxUsers,      \* bound on sign-ups
  MaxDeletions,  \* bound on deletion operations
  MaxTokens,     \* bound on stored revocation tokens
  MaxEvents,     \* bound on Apple notifications
  MaxCalls,      \* bound on the other calls from clients and operators
  MaxFaults      \* bound on crashes, lost sessions, outages and stalls

ASSUME ProjectAccountAssumption ==
  /\ Nobody \notin Workers \cup Executors
  /\ Restorer \notin Executors \cup {Nobody}
  /\ MaxUsers \in Nat \ {0}
  /\ MaxDeletions \in Nat
  /\ MaxTokens \in Nat
  /\ MaxEvents \in Nat
  /\ MaxCalls \in Nat
  /\ MaxFaults \in Nat

VARIABLES
  users,     \* rows of the project schema's users table
  data,      \* users with rows in the application's own tables
  objects,   \* users that own storage objects
  identity,  \* the subject's row in druvia_project_auth_identities
  ptok,      \* that identity has a stored provider token
  live,      \* users with unrevoked refresh tokens bound to their identity
  hook,      \* the project's cleanup function passes the inspection
  enabled,   \* druvia_project_account_deletion_configs.enabled
  del,       \* druvia_project_account_deletions
  fence,     \* druvia_project_account_deletion_fences: none, open or done
  dtok,      \* druvia_project_account_deletion_provider_tokens
  ev,        \* Apple's notifications and druvia_project_auth_events
  gate,      \* druvia_project_runtime_gates
  backup,    \* the last backup of the project schema
  plock,     \* session holder of the project-auth lock
  wk,        \* request handlers
  ex,        \* executors
  rs,        \* the restore
  late,      \* history: users written to after their deletion was accepted
  nextUser, calls, faults   \* counters

schemaVars == <<users, data, objects>>
authVars == <<identity, ptok, live>>
deletionVars == <<del, fence, dtok>>
configVars == <<hook, enabled>>
restVars == <<ev, backup, late, nextUser>>
vars == <<users, data, objects, identity, ptok, live, hook, enabled, del,
          fence, dtok, ev, gate, backup, plock, wk, ex, rs, late, nextUser,
          calls, faults>>

-----------------------------------------------------------------------------
(* Rows.                                                                   *)

Users == 1..MaxUsers
Dels == 1..MaxDeletions
TokenIds == 1..MaxTokens
Events == 1..MaxEvents

IdentityStatuses == {"none", "active", "revoke_pending", "revoked", "deletion_pending"}
Identity == [status: IdentityStatuses, user: 0..MaxUsers, gen: 0..MaxUsers]
NoIdentity == [status |-> "none", user |-> 0, gen |-> 0]

Statuses == {"none", "pending_confirmation", "expired", "accepted",
             "processing", "attention_required", "completed"}
Phases == {"awaiting_confirmation", "business_cleanup", "storage_cleanup",
           "project_user_cleanup", "provider_revoke", "completed"}
LeaseStates == {"none", "live", "expired"}
Revocations == {"not_required", "pending", "succeeded", "superseded"}
Deletion == [status: Statuses, phase: Phases, user: 0..MaxUsers,
             gen: 0..MaxUsers, confirmer: Workers \cup {Nobody},
             holder: Executors \cup {Nobody}, lease: LeaseStates,
             revocation: Revocations, event: 0..MaxEvents]
NoDeletion == [status |-> "none", phase |-> "awaiting_confirmation", user |-> 0,
               gen |-> 0, confirmer |-> Nobody, holder |-> Nobody,
               lease |-> "none", revocation |-> "not_required", event |-> 0]

Token == [d: 0..MaxDeletions, status: {"none", "pending", "in_flight"},
          purpose: {"accepted_deletion", "reauth_compensation"},
          holder: Executors \cup {Nobody}, lease: LeaseStates]
NoToken == [d |-> 0, status |-> "none", purpose |-> "accepted_deletion",
            holder |-> Nobody, lease |-> "none"]

Event == [kind: {"none", "consent-revoked", "account-deleted"},
          before: 0..(MaxUsers + 1),
          row: {"none", "handled", "application_action_pending", "acknowledged"},
          user: 0..MaxUsers]
NoEvent == [kind |-> "none", before |-> 0, row |-> "none", user |-> 0]

WorkerPcs == {"idle", "markPending", "refresh", "accept", "compensate",
              "revoke", "write"}
ExecutorPcs == {"idle", "run", "advance", "retry", "contract",
                "revoke", "deleteToken", "settle", "retryToken"}
IdleWorker == [pc |-> "idle", d |-> 0, user |-> 0]
IdleExecutor == [pc |-> "idle", d |-> 0, phase |-> "awaiting_confirmation", t |-> 0]

TypeOK ==
  /\ users \subseteq Users /\ data \subseteq Users /\ objects \subseteq Users
  /\ identity \in Identity
  /\ identity.status # "none" <=> identity.user # 0
  /\ ptok \in BOOLEAN
  /\ ptok => identity.status # "none"
  /\ live \subseteq Users
  /\ hook \in BOOLEAN /\ enabled \in BOOLEAN
  /\ del \in [Dels -> Deletion]
  /\ fence \in [Dels -> {"none", "open", "done"}]
  /\ dtok \in [TokenIds -> Token]
  /\ ev \in [Events -> Event]
  /\ gate \in {"none", "restoring", "recovery_required"}
  /\ backup \in [users: SUBSET Users, data: SUBSET Users]
  /\ plock \in Executors \cup {Nobody, Restorer}
  /\ wk \in [Workers -> [pc: WorkerPcs, d: 0..MaxDeletions, user: 0..MaxUsers]]
  /\ ex \in [Executors -> [pc: ExecutorPcs, d: 0..MaxDeletions, phase: Phases,
                           t: 0..MaxTokens]]
  /\ rs \in {"idle", "restore", "replay", "failed"}
  /\ late \subseteq Users
  /\ nextUser \in 1..(MaxUsers + 1)
  /\ calls \in 0..MaxCalls /\ faults \in 0..MaxFaults

\* One signed-in user with data; deletion can be on only where the cleanup
\* function exists.
Init ==
  /\ users = {1} /\ data = {1} /\ objects = {1}
  /\ identity = [status |-> "active", user |-> 1, gen |-> 1]
  /\ ptok = TRUE
  /\ live = {1}
  /\ hook \in BOOLEAN
  /\ enabled \in {FALSE, hook}
  /\ del = [d \in Dels |-> NoDeletion]
  /\ fence = [d \in Dels |-> "none"]
  /\ dtok = [t \in TokenIds |-> NoToken]
  /\ ev = [e \in Events |-> NoEvent]
  /\ gate = "none"
  /\ backup = [users |-> {1}, data |-> {1}]
  /\ plock = Nobody
  /\ wk = [w \in Workers |-> IdleWorker]
  /\ ex = [e \in Executors |-> IdleExecutor]
  /\ rs = "idle"
  /\ late = {}
  /\ nextUser = 2
  /\ calls = 0 /\ faults = 0

Unlocked == plock = Nobody
Call == calls < MaxCalls /\ calls' = calls + 1 /\ UNCHANGED faults
Fault == faults < MaxFaults /\ faults' = faults + 1 /\ UNCHANGED calls
Uncounted == UNCHANGED <<calls, faults>>

Start(w, pc, d, u) == wk' = [wk EXCEPT ![w] = [pc |-> pc, d |-> d, user |-> u]]
Finish(w) == wk' = [wk EXCEPT ![w] = IdleWorker]

-----------------------------------------------------------------------------
(* Shared queries and updates.                                             *)

Underway == {"accepted", "processing", "attention_required"}
Final == Underway \cup {"completed"}
HasIdentity == identity.status # "none"

SessionUsable_IdentityOnly(u) ==
  gate = "none" /\ ~(identity.user = u /\ identity.status = "deletion_pending")
\* assertProjectSessionUsable: no runtime gate, no deletion of the user that
\* was ever accepted, no identity that waits for its deletion.
SessionUsable(u) ==
  /\ gate = "none"
  /\ \A d \in Dels : del[d].user = u => del[d].status \notin Final
  /\ ~(identity.user = u /\ identity.status = "deletion_pending")

\* Rows that idx_project_account_deletions_active_user allows once per user.
ActiveDeletions(u) ==
  {d \in Dels : /\ del[d].user = u
                /\ del[d].status \notin {"none", "expired", "completed"}}

\* Rows are inserted in the order of their numbers.
FreeDeletion(d) ==
  del[d].status = "none" /\ \A c \in 1..(d - 1) : del[c].status # "none"
FreeToken(t) ==
  dtok[t].status = "none" /\ \A s \in 1..(t - 1) : dtok[s].status # "none"
FreeEvent(e) ==
  ev[e].kind = "none" /\ \A f \in 1..(e - 1) : ev[f].kind # "none"

\* UNIQUE (project_id, deleted_project_user_id, generation) on the fences
FenceFree(u) == \A d \in Dels : fence[d] # "none" => del[d].user # u

StoredToken(d, purpose) ==
  [NoToken EXCEPT !.d = d, !.status = "pending", !.purpose = purpose]
TokensOf(d) == {t \in TokenIds : dtok[t].status # "none" /\ dtok[t].d = d}

\* The mark functions change the status and revoke the refresh tokens of the
\* identity.
MarkIdentity(status) ==
  /\ identity' = [identity EXCEPT !.status = status]
  /\ live' = live \ {identity.user}

MarkRevokePending ==
  MarkIdentity(IF identity.status = "revoked" THEN "revoked" ELSE "revoke_pending")

\* markProjectAuthIdentityRevoked with deleteProjectAuthProviderTokens
MarkRevoked == MarkIdentity("revoked") /\ ptok' = FALSE

-----------------------------------------------------------------------------
(* Sign-in.                                                                *)

\* appleLogin for a known subject whose identity is active or revoked.
LoginReactivates(w) ==
  /\ wk[w].pc = "idle" /\ Unlocked /\ Call
  /\ identity.status \in {"active", "revoked"}
  /\ identity.user \in users
  /\ SessionUsable(identity.user)
  /\ identity' = [identity EXCEPT !.status = "active"]
  /\ ptok' = TRUE
  /\ live' = live \cup {identity.user}
  /\ UNCHANGED <<schemaVars, configVars, deletionVars, restVars, gate, plock,
                 wk, ex, rs>>

\* No deletion of the subject is unfinished, and no token of a finished one
\* is being revoked.
MaySignUp ==
  /\ \A d \in Dels : fence[d] = "open" => del[d].status \notin Underway
  /\ \A t \in TokenIds : dtok[t].status = "in_flight" => fence[dtok[t].d] # "done"

\* The waiting tokens of finished deletions are superseded and deleted.
Superseded(t) == dtok[t].status = "pending" /\ fence[dtok[t].d] = "done"

\* One more than any generation of the subject that was ever fenced.
NextGeneration == Max({0} \cup {del[d].gen : d \in {c \in Dels : fence[c] # "none"}}) + 1

\* appleLogin for an unknown subject: a new user, a new identity of the next
\* generation.
LoginSignsUp(w) ==
  /\ wk[w].pc = "idle" /\ Unlocked /\ Uncounted
  /\ ~HasIdentity
  /\ nextUser <= MaxUsers
  /\ MaySignUp
  /\ gate = "none"
  /\ users' = users \cup {nextUser}
  /\ identity' = [status |-> "active", user |-> nextUser,
                  gen |-> NextGeneration]
  /\ ptok' = TRUE
  /\ live' = live \cup {nextUser}
  /\ nextUser' = nextUser + 1
  /\ dtok' = [t \in TokenIds |-> IF Superseded(t) THEN NoToken ELSE dtok[t]]
  /\ del' = [d \in Dels |->
               IF fence[d] = "done" /\ del[d].revocation = "pending"
               THEN [del[d] EXCEPT !.revocation = "superseded"] ELSE del[d]]
  /\ UNCHANGED <<data, objects, configVars, fence, ev, backup, late, gate,
                 plock, wk, ex, rs>>

\* appleLogin rolls back after it found the identity: the new Apple token is
\* revoked and the identity is to be marked.
LoginRefused(w) ==
  /\ wk[w].pc = "idle" /\ Unlocked /\ Call
  /\ HasIdentity
  /\ \/ identity.status \in {"revoke_pending", "deletion_pending"}
     \/ identity.user \notin users
     \/ ~SessionUsable(identity.user)
  /\ Start(w, "markPending", 0, identity.user)
  /\ UNCHANGED <<schemaVars, authVars, configVars, deletionVars, restVars, gate,
                 plock, ex, rs>>

\* The transaction fails for a reason of its own.
LoginBreaks(w) ==
  /\ wk[w].pc = "idle" /\ Unlocked /\ Fault
  /\ HasIdentity
  /\ Start(w, "markPending", 0, identity.user)
  /\ UNCHANGED <<schemaVars, authVars, configVars, deletionVars, restVars, gate,
                 plock, ex, rs>>

\* markExistingIdentityPendingAfterFailure, by the id the login had found.
MarkPending(w) ==
  /\ wk[w].pc = "markPending" /\ Unlocked /\ Uncounted
  /\ \/ identity.user = wk[w].user /\ MarkRevokePending
     \/ identity.user # wk[w].user /\ UNCHANGED <<identity, live>>
  /\ Finish(w)
  /\ UNCHANGED <<schemaVars, ptok, configVars, deletionVars, restVars, gate,
                 plock, ex, rs>>

\* refreshProjectSession looks at the token and the session without a lock ...
RefreshBegins(w, u) ==
  /\ wk[w].pc = "idle" /\ Call
  /\ u \in live /\ SessionUsable(u)
  /\ Start(w, "refresh", 0, u)
  /\ UNCHANGED <<schemaVars, authVars, configVars, deletionVars, restVars, gate,
                 plock, ex, rs>>

\* ... and refreshAppleProjectSession replaces a live token by another, learns
\* from Apple that the grant is gone, or refuses.
RefreshEnds(w) ==
  /\ wk[w].pc = "refresh" /\ Unlocked /\ Uncounted
  /\ \/ /\ identity.user = wk[w].user /\ identity.status = "active"
        /\ ptok /\ wk[w].user \in live
        /\ MarkRevoked
     \/ UNCHANGED authVars
  /\ Finish(w)
  /\ UNCHANGED <<schemaVars, configVars, deletionVars, restVars, gate, plock,
                 ex, rs>>

\* A request of user u passes the authentication hook ...
RequestAdmitted(w, u) ==
  /\ wk[w].pc = "idle" /\ Call
  /\ u \in users /\ SessionUsable(u)
  /\ Start(w, "write", 0, u)
  /\ UNCHANGED <<schemaVars, authVars, configVars, deletionVars, restVars, gate,
                 plock, ex, rs>>

\* ... and writes to the application's tables or the storage.
RequestWrites(w) ==
  /\ wk[w].pc = "write" /\ Uncounted
  /\ LET u == wk[w].user IN
       /\ \/ data' = data \cup {u} /\ UNCHANGED objects
          \/ objects' = objects \cup {u} /\ UNCHANGED data
       /\ late' = IF \E d \in Dels : del[d].user = u /\ del[d].status \in Final
                  THEN late \cup {u} ELSE late
  /\ Finish(w)
  /\ UNCHANGED <<users, authVars, configVars, deletionVars, ev, backup, nextUser,
                 gate, plock, ex, rs>>

-----------------------------------------------------------------------------
(* Revocation and the administrator's deletion of a user.                  *)

\* revokeAppleProjectUser, first transaction: by the user or a project
\* administrator.  Without a stored token it stops here with an error.
RevokeBegins(w) ==
  /\ wk[w].pc = "idle" /\ Unlocked /\ Call
  /\ HasIdentity /\ identity.status # "revoked"
  /\ MarkRevokePending
  /\ IF ptok THEN Start(w, "revoke", 0, identity.user) ELSE UNCHANGED wk
  /\ UNCHANGED <<schemaVars, ptok, configVars, deletionVars, restVars, gate,
                 plock, ex, rs>>

\* Apple has revoked the tokens: the second transaction, by the identity's id.
RevokeEnds(w) ==
  /\ wk[w].pc = "revoke" /\ Unlocked /\ Uncounted
  /\ \/ identity.user = wk[w].user /\ MarkRevoked
     \/ identity.user # wk[w].user /\ UNCHANGED authVars
  /\ Finish(w)
  /\ UNCHANGED <<schemaVars, configVars, deletionVars, restVars, gate, plock,
                 ex, rs>>

\* deleteProjectUser with assertProjectAuthUserDeletionAllowed and
\* cleanupTerminalProjectAuthUserState.
AdminDeletesUser(u) ==
  /\ Unlocked /\ Call
  /\ u \in users
  /\ identity.user = u => identity.status = "revoked" /\ ~ptok
  /\ \A e \in Events : ev[e].row = "application_action_pending" => ev[e].user # u
  /\ users' = users \ {u}
  /\ live' = live \ {u}
  /\ identity' = IF identity.user = u THEN NoIdentity ELSE identity
  /\ UNCHANGED <<data, objects, ptok, configVars, deletionVars, restVars, gate,
                 plock, wk, ex, rs>>

-----------------------------------------------------------------------------
(* Acceptance of a deletion.                                               *)

\* updateAccountDeletionConfig
SetConfig(on) ==
  /\ Unlocked /\ Call
  /\ on # enabled
  /\ IF on THEN hook
     ELSE \A d \in Dels : del[d].status \in {"none", "expired", "completed"}
  /\ enabled' = on
  /\ UNCHANGED <<schemaVars, authVars, hook, deletionVars, restVars, gate, plock,
                 wk, ex, rs>>

\* createAccountDeletionIntent: an intent of the user that is past its time
\* expires and a new one is inserted.  An intent that is still open is returned
\* and nothing changes.
CreateIntent(d) ==
  /\ Unlocked /\ Uncounted
  /\ enabled /\ hook
  /\ identity.status = "active" /\ SessionUsable(identity.user)
  /\ FreeDeletion(d)
  /\ del' = [c \in Dels |->
               IF c = d THEN [NoDeletion EXCEPT !.status = "pending_confirmation",
                                !.user = identity.user, !.gen = identity.gen]
               ELSE IF c \in ActiveDeletions(identity.user)
                    THEN [del[c] EXCEPT !.status = "expired", !.confirmer = Nobody]
                    ELSE del[c]]
  /\ UNCHANGED <<schemaVars, authVars, configVars, fence, dtok, restVars, gate,
                 plock, wk, ex, rs>>

\* readAuthorizedOperation finds the intent past its time.
ReadExpiresIntent(d) ==
  /\ del[d].status = "pending_confirmation"
  /\ del' = [del EXCEPT ![d].status = "expired", ![d].confirmer = Nobody]
  /\ Uncounted
  /\ UNCHANGED <<schemaVars, authVars, configVars, fence, dtok, restVars, gate,
                 plock, wk, ex, rs>>

\* confirmAccountDeletion up to claimAccountDeletionConfirmation.
ConfirmClaims(w, d) ==
  /\ wk[w].pc = "idle" /\ Call
  /\ del[d].status = "pending_confirmation"
  /\ SessionUsable(del[d].user)
  /\ del[d].confirmer = Nobody
  /\ del' = [del EXCEPT ![d].confirmer = w]
  /\ Start(w, "accept", d, del[d].user)
  /\ UNCHANGED <<schemaVars, authVars, configVars, fence, dtok, restVars, gate,
                 plock, ex, rs>>

\* confirmation_lease_until passes.
ConfirmLeaseExpires(d) ==
  /\ del[d].confirmer # Nobody
  /\ del' = [del EXCEPT ![d].confirmer = Nobody]
  /\ Uncounted
  /\ UNCHANGED <<schemaVars, authVars, configVars, fence, dtok, restVars, gate,
                 plock, wk, ex, rs>>

\* Apple does not accept the credential.
ConfirmRefused(w) ==
  /\ wk[w].pc = "accept" /\ Uncounted
  /\ Finish(w)
  /\ UNCHANGED <<schemaVars, authVars, configVars, deletionVars, restVars, gate,
                 plock, ex, rs>>

\* The checks of the accepting transaction.
Confirmable(w, d) ==
  /\ del[d].status = "pending_confirmation"
  /\ del[d].confirmer = w
  /\ identity.status = "active"
  /\ identity.user = del[d].user /\ identity.gen = del[d].gen
  /\ FenceFree(del[d].user)

ConfirmAccepts(w, t) ==
  /\ wk[w].pc = "accept" /\ Unlocked /\ Uncounted
  /\ Confirmable(w, wk[w].d)
  /\ FreeToken(t)
  /\ fence' = [fence EXCEPT ![wk[w].d] = "open"]
  /\ dtok' = [dtok EXCEPT ![t] = StoredToken(wk[w].d, "accepted_deletion")]
  /\ MarkIdentity("deletion_pending")
  /\ del' = [del EXCEPT ![wk[w].d].status = "accepted",
                        ![wk[w].d].phase = "business_cleanup",
                        ![wk[w].d].confirmer = Nobody,
                        ![wk[w].d].revocation = "pending"]
  /\ Finish(w)
  /\ UNCHANGED <<schemaVars, ptok, configVars, restVars, gate, plock, ex, rs>>

\* The transaction rolls back; Apple's new token has to go.
ConfirmFails(w) ==
  /\ wk[w].pc = "accept" /\ Unlocked
  /\ \/ ~Confirmable(w, wk[w].d) /\ Uncounted
     \/ Fault
  /\ wk' = [wk EXCEPT ![w].pc = "compensate"]
  /\ UNCHANGED <<schemaVars, authVars, configVars, deletionVars, restVars, gate,
                 plock, ex, rs>>

\* Apple revokes the token, or it is stored for the executor
\* (persistReauthCompensation).
Compensate(w) ==
  /\ wk[w].pc = "compensate"
  /\ \/ Uncounted /\ UNCHANGED dtok
     \/ /\ Fault
        /\ \E t \in TokenIds :
             /\ FreeToken(t)
             /\ dtok' = [dtok EXCEPT ![t] = StoredToken(wk[w].d, "reauth_compensation")]
  /\ Finish(w)
  /\ UNCHANGED <<schemaVars, authVars, configVars, del, fence, restVars, gate,
                 plock, ex, rs>>

-----------------------------------------------------------------------------
(* Apple's notifications.                                                  *)

AppleEmits(e, kind) ==
  /\ FreeEvent(e) /\ Uncounted
  /\ ev' = [ev EXCEPT ![e].kind = kind, ![e].before = nextUser]
  /\ UNCHANGED <<schemaVars, authVars, configVars, deletionVars, backup, late,
                 nextUser, gate, plock, wk, ex, rs>>

Stale_Never(e) == FALSE
\* The identity was created after the event occurred.
Stale(e) == identity.user >= ev[e].before

\* createAccountDeletionFromAppleNotification up to the row: an open intent is
\* accepted, otherwise a new operation is.
AcceptFromApple(e, d, t) ==
  /\ \/ ActiveDeletions(identity.user) = {d} /\ del[d].status = "pending_confirmation"
     \/ ActiveDeletions(identity.user) = {} /\ FreeDeletion(d)
  /\ FenceFree(identity.user)
  /\ del' = [del EXCEPT ![d].status = "accepted", ![d].phase = "business_cleanup",
                        ![d].user = identity.user,
                        ![d].gen = identity.gen, ![d].confirmer = Nobody,
                        ![d].event = e,
                        ![d].revocation = IF ptok THEN "pending" ELSE "not_required"]
  /\ fence' = [fence EXCEPT ![d] = "open"]
  /\ IF ptok
     THEN FreeToken(t) /\ dtok' = [dtok EXCEPT ![t] = StoredToken(d, "accepted_deletion")]
     ELSE UNCHANGED dtok
  /\ MarkIdentity("deletion_pending")
  /\ ptok' = FALSE

\* The event leads to a deletion, or one is already under way.
Converge(e) ==
  \/ /\ \E d \in ActiveDeletions(identity.user) : del[d].status \in Underway
     /\ UNCHANGED <<authVars, deletionVars>>
  \/ \E d \in Dels, t \in TokenIds : AcceptFromApple(e, d, t)

RecordEvent(e, row) == ev' = [ev EXCEPT ![e].row = row, ![e].user = identity.user]

\* processAppleNotification.  A repeated delivery changes nothing.
NotificationArrives(e) ==
  /\ ev[e].kind # "none" /\ ev[e].row = "none"
  /\ Unlocked /\ Uncounted
  /\ \/ /\ ~HasIdentity \/ (ev[e].kind = "account-deleted" /\ Stale(e))
        /\ RecordEvent(e, "handled")
        /\ UNCHANGED <<authVars, deletionVars>>
     \/ /\ HasIdentity /\ ev[e].kind = "consent-revoked"
        /\ RecordEvent(e, "handled")
        /\ MarkRevoked
        /\ UNCHANGED deletionVars
     \/ /\ HasIdentity /\ ev[e].kind = "account-deleted" /\ ~Stale(e)
        /\ enabled /\ hook
        /\ RecordEvent(e, "handled")
        /\ Converge(e)
     \/ /\ HasIdentity /\ ev[e].kind = "account-deleted" /\ ~Stale(e)
        /\ ~enabled
        /\ RecordEvent(e, "application_action_pending")
        /\ MarkIdentity("deletion_pending")
        /\ ptok' = FALSE
        /\ UNCHANGED deletionVars
  /\ UNCHANGED <<schemaVars, configVars, backup, late, nextUser, gate, plock,
                 wk, ex, rs>>

\* acknowledgeAppleLifecycleEvent
AcknowledgeEvent(e) ==
  /\ ev[e].row = "application_action_pending"
  /\ Unlocked /\ Call
  /\ HasIdentity /\ ev[e].user = identity.user
  /\ enabled /\ hook
  /\ Converge(e)
  /\ ev' = [ev EXCEPT ![e].row = "acknowledged"]
  /\ UNCHANGED <<schemaVars, configVars, backup, late, nextUser, gate, plock,
                 wk, ex, rs>>

-----------------------------------------------------------------------------
(* The executors.                                                          *)

Claimable_OnlyFree(row) == row.lease = "none"
\* Nobody holds a lease on the row, or it has run out.
Claimable(row) == row.lease # "live"
Hold(e) == plock' = e
Release(e) == plock' = IF plock = e THEN Nobody ELSE plock
Rest(e) == ex' = [ex EXCEPT ![e] = IdleExecutor]

\* claimDeletion under the project's session lock.
ClaimDeletion(e, d) ==
  /\ ex[e].pc = "idle" /\ Unlocked /\ Uncounted
  /\ gate = "none"
  /\ del[d].status \in {"accepted", "processing"}
  /\ Claimable(del[d])
  /\ Hold(e)
  /\ del' = [del EXCEPT ![d].status = "processing", ![d].holder = e, ![d].lease = "live"]
  /\ ex' = [ex EXCEPT ![e] = [pc |-> "run", d |-> d, phase |-> del[d].phase, t |-> 0]]
  /\ UNCHANGED <<schemaVars, authVars, configVars, fence, dtok, restVars, gate,
                 wk, rs>>

\* runProjectUserCleanup: the events forget the user, the refresh tokens go,
\* the identity goes if it still waits for its deletion, and the user goes.
ProjectUserCleanup(u) ==
  /\ ev' = [e \in Events |-> IF ev[e].user = u THEN [ev[e] EXCEPT !.user = 0] ELSE ev[e]]
  /\ live' = live \ {u}
  /\ IF identity.user = u /\ identity.status = "deletion_pending"
     THEN identity' = NoIdentity /\ ptok' = FALSE
     ELSE UNCHANGED <<identity, ptok>>
  /\ users' = users \ {u}

\* One phase of processDeletion; nothing in it looks at the lease.
RunPhase(e) ==
  LET u == del[ex[e].d].user
      phase == ex[e].phase IN
  /\ ex[e].pc = "run" /\ Uncounted
  /\ phase = "business_cleanup" => hook
  /\ data' = IF phase = "business_cleanup" THEN data \ {u} ELSE data
  /\ objects' = IF phase = "storage_cleanup" THEN objects \ {u} ELSE objects
  /\ IF phase = "project_user_cleanup" THEN ProjectUserCleanup(u)
     ELSE UNCHANGED <<ev, live, identity, ptok, users>>
  /\ ex' = [ex EXCEPT ![e].pc = "advance"]
  /\ UNCHANGED <<configVars, deletionVars, backup, late, nextUser, gate, plock,
                 wk, rs>>

\* The cleanup function is gone, or no longer the one the operation recorded.
CleanupRejected(e) ==
  /\ ex[e].pc = "run" /\ Uncounted
  /\ ex[e].phase = "business_cleanup" /\ ~hook
  /\ \E pc \in {"retry", "contract"} : ex' = [ex EXCEPT ![e].pc = pc]
  /\ UNCHANGED <<schemaVars, authVars, configVars, deletionVars, restVars, gate,
                 plock, wk, rs>>

\* The phase or the update after it fails; the business phase also when the
\* cleanup function has changed or answers wrongly.
PhaseFails(e) ==
  /\ ex[e].pc \in {"run", "advance"} /\ Fault
  /\ \E pc \in {"retry"} \cup (IF ex[e].phase = "business_cleanup" THEN {"contract"} ELSE {}) :
       ex' = [ex EXCEPT ![e].pc = pc]
  /\ UNCHANGED <<schemaVars, authVars, configVars, deletionVars, restVars, gate,
                 plock, wk, rs>>

NextPhase(phase) ==
  CASE phase = "business_cleanup" -> "storage_cleanup"
    [] phase = "storage_cleanup" -> "project_user_cleanup"
    [] phase = "project_user_cleanup" -> "provider_revoke"
    [] OTHER -> "completed"

HoldsDeletion_Anyone(e, d) == del[d].status = "processing"
\* The executor's claim still stands.
HoldsDeletion(e, d) == del[d].holder = e /\ del[d].status = "processing"

\* advanceDeletion; an executor that lost its claim changes nothing.
AdvanceDeletion(e) ==
  LET d == ex[e].d
      phase == NextPhase(ex[e].phase) IN
  /\ ex[e].pc = "advance" /\ Uncounted
  /\ IF HoldsDeletion(e, d)
     THEN /\ del' = [del EXCEPT ![d].phase = phase, ![d].holder = Nobody, ![d].lease = "none",
                                ![d].status = IF phase = "completed" THEN "completed" ELSE @]
          /\ fence' = IF phase = "completed" THEN [fence EXCEPT ![d] = "done"] ELSE fence
     ELSE UNCHANGED <<del, fence>>
  /\ Release(e) /\ Rest(e)
  /\ UNCHANGED <<schemaVars, authVars, configVars, dtok, restVars, gate, wk, rs>>

\* retryDeletion: past the deadline, or after a breach of the contract, the
\* operation waits for an operator.
RetryDeletion(e) ==
  LET d == ex[e].d IN
  /\ ex[e].pc \in {"retry", "contract"} /\ Uncounted
  /\ IF HoldsDeletion(e, d)
     THEN \E status \in {"processing", "attention_required"} :
            /\ ex[e].pc = "contract" => status = "attention_required"
            /\ del' = [del EXCEPT ![d].phase = ex[e].phase, ![d].holder = Nobody,
                                  ![d].lease = "none", ![d].status = status]
     ELSE UNCHANGED del
  /\ Release(e) /\ Rest(e)
  /\ UNCHANGED <<schemaVars, authVars, configVars, fence, dtok, restVars, gate,
                 wk, rs>>

\* claimProviderToken under the project's session lock, whatever the gate.
ClaimToken(e, t) ==
  /\ ex[e].pc = "idle" /\ Unlocked /\ Uncounted
  /\ dtok[t].status # "none" /\ Claimable(dtok[t])
  /\ Hold(e)
  /\ dtok' = [dtok EXCEPT ![t].status = "in_flight", ![t].holder = e, ![t].lease = "live"]
  /\ ex' = [ex EXCEPT ![e] = [IdleExecutor EXCEPT !.pc = "revoke", !.d = dtok[t].d, !.t = t]]
  /\ UNCHANGED <<schemaVars, authVars, configVars, del, fence, restVars, gate,
                 wk, rs>>

\* Apple answers the revocation, or does not.
AppleAnswers(e) ==
  /\ ex[e].pc = "revoke"
  /\ \/ Uncounted /\ ex' = [ex EXCEPT ![e].pc = "deleteToken"]
     \/ Fault /\ ex' = [ex EXCEPT ![e].pc = "retryToken"]
  /\ UNCHANGED <<schemaVars, authVars, configVars, deletionVars, restVars, gate,
                 plock, wk, rs>>

HoldsToken(e, t) == dtok[t].holder = e /\ dtok[t].status # "none"

\* processProviderToken deletes its row ...
DeleteToken(e) ==
  LET t == ex[e].t IN
  /\ ex[e].pc = "deleteToken" /\ Uncounted
  /\ IF HoldsToken(e, t)
     THEN /\ dtok' = [dtok EXCEPT ![t] = NoToken]
          /\ ex' = [ex EXCEPT ![e].pc = "settle"]
          /\ UNCHANGED plock
     ELSE UNCHANGED dtok /\ Release(e) /\ Rest(e)
  /\ UNCHANGED <<schemaVars, authVars, configVars, del, fence, restVars, gate,
                 wk, rs>>

\* ... and then, in a statement of its own, settles the operation.
SettleRevocation(e) ==
  /\ ex[e].pc = "settle" /\ Uncounted
  /\ del' = IF TokensOf(ex[e].d) = {} THEN [del EXCEPT ![ex[e].d].revocation = "succeeded"]
            ELSE del
  /\ Release(e) /\ Rest(e)
  /\ UNCHANGED <<schemaVars, authVars, configVars, fence, dtok, restVars, gate,
                 wk, rs>>

RetryToken(e) ==
  LET t == ex[e].t IN
  /\ ex[e].pc = "retryToken" /\ Uncounted
  /\ dtok' = IF HoldsToken(e, t)
             THEN [dtok EXCEPT ![t].status = "pending", ![t].holder = Nobody, ![t].lease = "none"]
             ELSE dtok
  /\ Release(e) /\ Rest(e)
  /\ UNCHANGED <<schemaVars, authVars, configVars, del, fence, restVars, gate,
                 wk, rs>>

-----------------------------------------------------------------------------
(* Time: leases and deadlines.                                             *)

WorksOn(e, d) == ex[e].pc # "idle" /\ ex[e].t = 0 /\ ex[e].d = d

\* Holding executors renew their leases.  A lease runs out once its executor
\* has gone on to something else, or while the executor is stalled.
DeletionLeaseExpires(d) ==
  /\ del[d].lease = "live"
  /\ \/ /\ \A e \in Executors : WorksOn(e, d) => del[d].holder # e
        /\ Uncounted
     \/ Fault
  /\ del' = [del EXCEPT ![d].lease = "expired"]
  /\ UNCHANGED <<schemaVars, authVars, configVars, fence, dtok, restVars, gate,
                 plock, wk, ex, rs>>

TokenLeaseExpires(t) ==
  /\ dtok[t].lease = "live"
  /\ \/ /\ \A e \in Executors : ex[e].t = t => dtok[t].holder # e
        /\ Uncounted
     \/ Fault
  /\ dtok' = [dtok EXCEPT ![t].lease = "expired"]
  /\ UNCHANGED <<schemaVars, authVars, configVars, del, fence, restVars, gate,
                 plock, wk, ex, rs>>

\* withLeaseRenewal: the renewal asks for the claim, not for the time.
RenewDeletionLease(e) ==
  LET d == ex[e].d IN
  /\ ex[e].pc = "run" /\ HoldsDeletion(e, d) /\ del[d].lease = "expired"
  /\ del' = [del EXCEPT ![d].lease = "live"]
  /\ Uncounted
  /\ UNCHANGED <<schemaVars, authVars, configVars, fence, dtok, restVars, gate,
                 plock, wk, ex, rs>>

RenewTokenLease(e) ==
  LET t == ex[e].t IN
  /\ ex[e].pc = "revoke" /\ HoldsToken(e, t) /\ dtok[t].lease = "expired"
  /\ dtok' = [dtok EXCEPT ![t].lease = "live"]
  /\ Uncounted
  /\ UNCHANGED <<schemaVars, authVars, configVars, del, fence, restVars, gate,
                 plock, wk, ex, rs>>

\* The database administrator puts an operation back to work, the transition
\* guard_project_account_deletion_transition allows for that purpose.
OperatorResumes(d) ==
  /\ del[d].status = "attention_required" /\ Call
  /\ del' = [del EXCEPT ![d].status = "processing"]
  /\ UNCHANGED <<schemaVars, authVars, configVars, fence, dtok, restVars, gate,
                 plock, wk, ex, rs>>

-----------------------------------------------------------------------------
(* Backup and restore of the project schema.                               *)

TakeBackup ==
  /\ Call
  /\ backup' = [users |-> users, data |-> data]
  /\ UNCHANGED <<schemaVars, authVars, configVars, deletionVars, ev, late,
                 nextUser, gate, plock, wk, ex, rs>>

\* restoreBackup: the lock, then the gate (beginProjectRestoreGate).
RestoreBegins ==
  /\ rs = "idle" /\ Unlocked /\ Call
  /\ plock' = Restorer
  /\ gate' = "restoring"
  /\ rs' = "restore"
  /\ UNCHANGED <<schemaVars, authVars, configVars, deletionVars, restVars, wk, ex>>

\* restoreBackupUnlocked, to its end or broken off on the way.  pg_restore
\* runs with --clean and without a transaction: broken off, each table is as
\* it was, dropped or restored.  It recreates the cleanup function, which may
\* be another one then or none.
RestoreData ==
  /\ rs = "restore"
  /\ \/ /\ Uncounted
        /\ users' = backup.users /\ data' = backup.data
        /\ rs' = "replay"
     \/ /\ Fault
        /\ users' \in {users, {}, backup.users} /\ data' \in {data, {}, backup.data}
        /\ rs' = "failed"
  /\ hook' \in BOOLEAN
  /\ UNCHANGED <<objects, authVars, enabled, deletionVars, restVars, gate,
                 plock, wk, ex>>

Replayed_CompletedOnly ==
  {del[d].user : d \in {c \in Dels : fence[c] # "none" /\ del[c].status = "completed"}}
\* The users whose deletion a restore carries out again.
Replayed == {del[d].user : d \in {c \in Dels : fence[c] # "none" /\ del[c].status \in Final}}

\* replayProjectAccountDeletionFences: one transaction that removes the
\* deleted users and opens the gate, or fails and changes nothing.  It needs
\* a valid cleanup function even when there is nothing to replay.
ReplayFences ==
  /\ rs = "replay"
  /\ \/ /\ hook /\ Uncounted
        /\ gate = "restoring"
        /\ users' = users \ Replayed /\ data' = data \ Replayed
        /\ gate' = "none"
        /\ rs' = "idle"
        /\ plock' = IF plock = Restorer THEN Nobody ELSE plock
     \/ /\ (~hook /\ Uncounted) \/ Fault
        /\ rs' = "failed"
        /\ UNCHANGED <<users, data, gate, plock>>
  /\ UNCHANGED <<objects, authVars, configVars, deletionVars, restVars, wk, ex>>

\* markProjectRestoreRecoveryRequired
RestoreFails ==
  /\ rs = "failed" /\ Uncounted
  /\ gate' = "recovery_required"
  /\ rs' = "idle"
  /\ plock' = IF plock = Restorer THEN Nobody ELSE plock
  /\ UNCHANGED <<schemaVars, authVars, configVars, deletionVars, restVars, wk, ex>>

-----------------------------------------------------------------------------
(* Faults.                                                                 *)

WorkerCrashes(w) ==
  /\ wk[w].pc # "idle" /\ Fault
  /\ Finish(w)
  /\ UNCHANGED <<schemaVars, authVars, configVars, deletionVars, restVars, gate,
                 plock, ex, rs>>

ExecutorCrashes(e) ==
  /\ ex[e].pc # "idle" /\ Fault
  /\ Release(e) /\ Rest(e)
  /\ UNCHANGED <<schemaVars, authVars, configVars, deletionVars, restVars, gate,
                 wk, rs>>

RestoreCrashes ==
  /\ rs # "idle" /\ Fault
  /\ rs' = "idle"
  /\ plock' = IF plock = Restorer THEN Nobody ELSE plock
  /\ UNCHANGED <<schemaVars, authVars, configVars, deletionVars, restVars, gate,
                 wk, ex>>

\* The database drops the session that holds the lock; its owner, which works
\* through other connections, does not notice.
SessionDrops ==
  /\ plock # Nobody /\ Fault
  /\ plock' = Nobody
  /\ UNCHANGED <<schemaVars, authVars, configVars, deletionVars, restVars, gate,
                 wk, ex, rs>>

-----------------------------------------------------------------------------

WorkerStep(w) ==
  \/ MarkPending(w) \/ RefreshEnds(w) \/ RequestWrites(w) \/ RevokeEnds(w) \/ ConfirmRefused(w)
  \/ (\E t \in TokenIds : ConfirmAccepts(w, t))
  \/ ConfirmFails(w) \/ Compensate(w)

ClientCall(w) ==
  \/ LoginReactivates(w) \/ LoginSignsUp(w) \/ LoginRefused(w) \/ LoginBreaks(w)
  \/ RevokeBegins(w)
  \/ (\E u \in Users : RequestAdmitted(w, u) \/ RefreshBegins(w, u))
  \/ (\E d \in Dels : ConfirmClaims(w, d))

OtherCall ==
  \/ TakeBackup \/ RestoreBegins
  \/ (\E u \in Users : AdminDeletesUser(u))
  \/ (\E on \in BOOLEAN : SetConfig(on))
  \/ (\E d \in Dels : CreateIntent(d) \/ OperatorResumes(d))
  \/ (\E e \in Events : AcknowledgeEvent(e))
  \/ (\E e \in Events : AppleEmits(e, "consent-revoked") \/ AppleEmits(e, "account-deleted"))

\* What an executor does when it comes round: claim, and carry on with a claim.
ExecutorStep(e) ==
  \/ (\E d \in Dels : ClaimDeletion(e, d))
  \/ (\E t \in TokenIds : ClaimToken(e, t))
  \/ RunPhase(e) \/ CleanupRejected(e) \/ AdvanceDeletion(e) \/ RetryDeletion(e)
  \/ AppleAnswers(e) \/ DeleteToken(e) \/ SettleRevocation(e) \/ RetryToken(e)

LeasesExpire ==
  \/ (\E d \in Dels : DeletionLeaseExpires(d))
  \/ (\E t \in TokenIds : TokenLeaseExpires(t))

RestoreStep == RestoreData \/ ReplayFences \/ RestoreFails

TimeStep ==
  \/ (\E d \in Dels : ReadExpiresIntent(d) \/ ConfirmLeaseExpires(d))
  \/ (\E e \in Executors : RenewDeletionLease(e) \/ RenewTokenLease(e))

FaultStep ==
  \/ (\E w \in Workers : WorkerCrashes(w))
  \/ (\E e \in Executors : ExecutorCrashes(e) \/ PhaseFails(e))
  \/ RestoreCrashes \/ SessionDrops

Next ==
  \/ (\E w \in Workers : WorkerStep(w) \/ ClientCall(w))
  \/ OtherCall
  \/ (\E e \in Events : NotificationArrives(e))
  \/ (\E e \in Executors : ExecutorStep(e))
  \/ LeasesExpire \/ RestoreStep \/ TimeStep \/ FaultStep

Spec == Init /\ [][Next]_vars
-----------------------------------------------------------------------------
(* Properties.                                                             *)

\* Once a deletion is accepted the identity of its user is never active
\* again: not by a login after a revocation, not by an executor's failure.
AcceptedIsFinal ==
  \A d \in Dels : del[d].status \in Final =>
    ~(identity.user = del[d].user /\ identity.status = "active")

\* While the project is open, a completed deletion has left no user row, no
\* application data and no objects, whatever backups were restored since;
\* requests admitted before the acceptance and written after it are excepted.
NoResurrection ==
  gate = "none" => \A d \in Dels : del[d].status = "completed" =>
    /\ del[d].user \notin users
    /\ del[d].user \notin (data \cup objects) \ late

\* Fences never share a generation, and the identity that follows a deleted
\* one has a later generation.
GenerationsAdvance ==
  \A d \in Dels : fence[d] # "none" =>
    /\ \A c \in Dels \ {d} : fence[c] # "none" => del[c].gen # del[d].gen
    /\ HasIdentity /\ identity.user # del[d].user => identity.gen > del[d].gen

\* While an executor holds the token an accepted deletion left, and asks Apple
\* to revoke it after the deletion has finished, the subject has no new
\* authorization that the revocation could hit.
RevocationBlocksReturn ==
  \A e \in Executors :
    LET t == ex[e].t IN
    /\ ex[e].pc = "revoke" /\ HoldsToken(e, t)
    /\ dtok[t].purpose = "accepted_deletion" /\ fence[dtok[t].d] = "done"
    => ~(HasIdentity /\ identity.user # del[dtok[t].d].user)

\* A notification deletes only an account that existed when it was sent.
DeletionMatchesEvent ==
  \A d \in Dels : del[d].event # 0 => del[d].user < ev[del[d].event].before

\* The records of accounts are sound: well typed, generations that advance, no
\* return of a subject that a revocation under way would hit, and no deletion on
\* the word of a notification about an earlier account.
AccountsSound ==
  TypeOK /\ GenerationsAdvance /\ RevocationBlocksReturn /\ DeletionMatchesEvent

Rank(phase) ==
  CASE phase = "awaiting_confirmation" -> 0 [] phase = "business_cleanup" -> 1
    [] phase = "storage_cleanup" -> 2 [] phase = "project_user_cleanup" -> 3
    [] phase = "provider_revoke" -> 4 [] OTHER -> 5

\* The late result of an executor that lost its claim neither takes a deletion
\* back to an earlier phase nor takes back its acceptance or completion.
PhaseNeverGoesBack ==
  [][\A d \in Dels :
       /\ Rank(del'[d].phase) >= Rank(del[d].phase)
       /\ del[d].status \in Final => del'[d].status \in Final
       /\ del[d].status = "completed" => del'[d].status = "completed"]_vars

\* docs/plans/2026-09-09-project-account-self-deletion.md:117: after a completed
\* deletion the same subject can sign up again, so its identity must be gone
\* (runProjectUserCleanup).
CompletedLeavesNoIdentity ==
  \A d \in Dels : del[d].status = "completed" => identity.user # del[d].user

FairSpec ==
  /\ Spec
  /\ \A e \in Executors : WF_vars(ExecutorStep(e))
  /\ WF_vars(LeasesExpire) /\ WF_vars(RestoreStep)

\* Every accepted deletion is completed or brought to an operator's attention,
\* unless the project itself is closed by an unfinished restore.
DeletionEnds ==
  \A d \in Dels :
    del[d].status = "accepted" ~>
      (del[d].status \in {"completed", "attention_required"} \/ gate # "none")
=============================================================================
