---------------------------- MODULE RollbackGate ----------------------------
(***************************************************************************)
(* The database side of a file rollback: the persistent `file_rollback`    *)
(* gate of migration 027, the advisory lock `data-access-mutation:global`, *)
(* the detached psql session that holds it (the "holder"), and the Data    *)
(* Access mutations of the API that the gate and the lock keep out.        *)
(*                                                                         *)
(* The SQL is built in apps/updater/src/compose.ts; each statement is one  *)
(* operator here, because PostgreSQL runs each of them as one statement.   *)
(* The mutation is apps/api/.../data-access-mutation-lock.ts, one step per *)
(* query it makes.  Module Updater decides when a statement is sent.       *)
(***************************************************************************)
EXTENDS Naturals

CONSTANT MaxHolders   \* bound on holder sessions still waiting for the lock

ASSUME MaxHoldersAssumption == MaxHolders \in Nat

VARIABLES
  gateTable,  \* druvia_data_access_runtime_gates exists (migration 027 ran)
  gate,       \* its row 'file_rollback' is active
  pending,    \* holder sessions started and not yet granted the lock
  held,       \* a named holder session holds the global lock exclusively
  mut,        \* the API mutation in flight, if any (it holds the shared lock)
  v2,         \* a v2 policy or a projection operation is persisted
  thawed,     \* history: a mutation was admitted after the last safety check
  lateHolder  \* history: a holder started beside an earlier one

gateVars == <<gateTable, gate, pending, held, mut, v2, thawed, lateHolder>>

Mutations == {"none", "locked", "writing", "writing_old"}

GateTypeOK ==
  /\ gateTable \in BOOLEAN
  /\ gate \in BOOLEAN
  /\ gate => gateTable
  /\ pending \in 0..MaxHolders
  /\ held \in BOOLEAN
  /\ mut \in Mutations
  /\ v2 \in BOOLEAN
  /\ thawed \in BOOLEAN
  /\ lateHolder \in BOOLEAN

GateInit(hasTable) ==
  /\ gateTable = hasTable
  /\ gate = FALSE
  /\ pending = 0
  /\ held = FALSE
  /\ mut = "none"
  /\ v2 = FALSE
  /\ thawed = FALSE
  /\ lateHolder = FALSE

-----------------------------------------------------------------------------
(* The statements the updater sends.                                       *)

EnableGate ==
  /\ gate' = gateTable
  /\ UNCHANGED <<gateTable, pending, held, mut, v2, thawed, lateHolder>>

\* pg_terminate_backend on the holder that was granted the lock; a session
\* still waiting for the lock is not named by the query and survives.
ReleaseHolder ==
  /\ held' = FALSE
  /\ UNCHANGED <<gateTable, gate, pending, mut, v2, thawed, lateHolder>>

\* Mutant: the check does not wait for mutations in flight.
CheckUnblocked_NoDrain == ~held

\* The check blocks on pg_advisory_xact_lock until nobody holds the lock.
CheckUnblocked == mut = "none" /\ ~held

RollbackSafe == (gateTable => gate) /\ ~v2

AssertSafe ==
  /\ CheckUnblocked
  /\ RollbackSafe
  /\ thawed' = FALSE
  /\ UNCHANGED <<gateTable, gate, pending, held, mut, v2, lateHolder>>

StartHolder ==
  /\ pending < MaxHolders
  /\ pending' = pending + 1
  /\ lateHolder' = (lateHolder \/ pending > 0 \/ held)
  /\ UNCHANGED <<gateTable, gate, held, mut, v2, thawed>>

\* The ready probe: a named holder, an active gate, and a lock nobody can share.
HolderReady == held /\ (gateTable => gate)

\* Closing the gate re-checks the holder in the same statement.
DisableGate ==
  /\ held
  /\ gate' = FALSE
  /\ UNCHANGED <<gateTable, pending, held, mut, v2, thawed, lateHolder>>

\* Waiting for the release: the gate must be closed, and without a gate table
\* the holder must still be there to be terminated.
ReleasePossible == ~gate /\ (gateTable \/ held)

-----------------------------------------------------------------------------
(* The holder session.                                                     *)

HolderAcquire ==
  /\ pending > 0
  /\ ~held
  /\ mut = "none"
  /\ pending' = pending - 1
  /\ held' = (gateTable => gate)      \* a closed gate ends the session at once
  /\ UNCHANGED <<gateTable, gate, mut, v2, thawed, lateHolder>>

HolderExit ==
  /\ held
  /\ gateTable
  /\ ~gate
  /\ held' = FALSE
  /\ UNCHANGED <<gateTable, gate, pending, mut, v2, thawed, lateHolder>>

HolderLost ==
  /\ held
  /\ held' = FALSE
  /\ UNCHANGED <<gateTable, gate, pending, mut, v2, thawed, lateHolder>>

-----------------------------------------------------------------------------
(* A Data Access mutation of the API: take the shared lock without waiting,*)
(* ask for a persisted block, write, unlock.  An API older than migration  *)
(* 027 takes the lock and knows no gate.                                   *)

MutLock(gateAware) ==
  /\ mut = "none"
  /\ ~held
  /\ IF gateAware
     THEN /\ gateTable                \* the block query fails without the table
          /\ mut' = "locked"
          /\ thawed' = thawed
     ELSE /\ mut' = "writing_old"
          /\ thawed' = TRUE
  /\ UNCHANGED <<gateTable, gate, pending, held, v2, lateHolder>>

MutCheckGate ==
  /\ mut = "locked"
  /\ mut' = IF gate THEN "none" ELSE "writing"
  /\ thawed' = (thawed \/ ~gate)
  /\ UNCHANGED <<gateTable, gate, pending, held, v2, lateHolder>>

MutFinish ==
  /\ mut \in {"writing", "writing_old"}
  /\ v2' \in IF mut = "writing" THEN {v2, TRUE} ELSE {v2}
  /\ mut' = "none"
  /\ UNCHANGED <<gateTable, gate, pending, held, thawed, lateHolder>>

MutStep == MutCheckGate \/ MutFinish

HolderStep == HolderAcquire \/ HolderExit
=============================================================================
