---------------------------- MODULE ManagedPolicy ---------------------------
(***************************************************************************)
(* The pure part of managed table policies: permission snapshots, which of *)
(* them an interrupted operation can have left, and how the state of a     *)
(* table is classified against its baseline.                               *)
(* (data-access-managed-policy.ts, data-access-inspection.ts)              *)
(*                                                                         *)
(* A snapshot maps each permission key (role and operation, numbered in    *)
(* the order createPermissionSnapshot sorts them) to the rule under it.    *)
(* A rule is abstracted to what the code tells apart: no permission, one   *)
(* whose columns exist under every column capability ("narrow"), one that  *)
(* names a column the table may lose ("wide"), and one that is not of a    *)
(* managed shape ("custom": a wildcard or a foreign filter).               *)
(***************************************************************************)
EXTENDS Naturals

CONSTANT NKeys   \* number of permission keys of a table

ASSUME NKeysAssumption == NKeys \in Nat

Keys == 1..NKeys
Rules == {"none", "narrow", "wide", "custom"}
Caps == {"full", "shrunk"}
Snapshots == [Keys -> Rules]
NoPermissions == [k \in Keys |-> "none"]

-----------------------------------------------------------------------------
(* Which columns a snapshot needs.                                         *)

hasUnavailablePermissionColumns(p, c) ==
  \E k \in Keys : p[k] = "custom" \/ (p[k] = "wide" /\ c = "shrunk")

\* inspectTableDataAccessMetadata reads every rule as one it could have made.
inspectedManaged(p, c) == ~hasUnavailablePermissionColumns(p, c)

\* The columns of a snapshot that the capabilities still have.
materializeReconcileGrants(p, c) ==
  [k \in Keys |-> IF p[k] = "wide" /\ c = "shrunk" THEN "narrow" ELSE p[k]]

-----------------------------------------------------------------------------
(* The commands of a permission change: drop every old permission in key   *)
(* order, then create every new one (buildPermissionCommands).             *)

AfterDrops(p, n) == [k \in Keys |-> IF k <= n THEN "none" ELSE p[k]]
AfterCreates(p, n) == [k \in Keys |-> IF k <= n THEN p[k] ELSE "none"]

\* What the metadata can be after a prefix of those commands.
CommandPrefixes(source, target) ==
  {AfterDrops(source, n) : n \in 0..NKeys}
    \cup {AfterCreates(target, n) : n \in 0..NKeys}

isRecoverablePermissionSnapshot(current, source, target) ==
  current \in CommandPrefixes(source, target)

-----------------------------------------------------------------------------
(* The state of a table; rev 0 is a table without a baseline row.          *)

classifyManagedPolicyState(p, c, b) ==
  IF ~inspectedManaged(p, IF b.rev = 0 THEN c ELSE b.caps)
  THEN "custom"
  ELSE IF b.rev = 0
  THEN IF p = NoPermissions THEN "managed" ELSE "adoption_required"
  ELSE IF p # b.perms
  THEN "custom"
  ELSE IF c = b.caps THEN "managed" ELSE "refresh_required"

-----------------------------------------------------------------------------
(* What a client may ask for.                                              *)

\* validateReconcilePolicyTransition: a closed operation stays closed.
reconcileAdmits(p, t) == \A k \in Keys : p[k] = "none" => t[k] = "none"

\* extendProjectionColumnGrants: columns are added to open operations only.
extensionAdmits(p, t) ==
  /\ t # p
  /\ \A k \in Keys : t[k] = p[k] \/ (p[k] = "narrow" /\ t[k] = "wide")
=============================================================================
