--------------------------- MODULE PolicyRegister ---------------------------
(***************************************************************************)
(* What the operations on a managed policy promise, without metadata,      *)
(* locks, leases, sessions or recoveries: a register with a revision.  An  *)
(* operation plans a value for the revision it finds.  It moves the        *)
(* register once, from that revision to the next, or never.  A client is   *)
(* told that an operation has succeeded only while the register holds its  *)
(* value, at the revision it moved to or, if nothing had to be done, at    *)
(* the one it was planned for.                                             *)
(***************************************************************************)
EXTENDS Naturals

CONSTANTS Operations, Values

VARIABLES
  revision, value,   \* the register
  plans,             \* what operations are to make of it, and of which revision
  moved,             \* the operations that moved it
  acknowledged       \* those a client was told have succeeded

registerVars == <<revision, value, plans, moved, acknowledged>>

RegisterInit ==
  /\ revision \in {0, 1} /\ value \in Values
  /\ plans = {} /\ moved = {} /\ acknowledged = {}

\* An operation is planned once, for the revision of the moment.
Plan(o, v) ==
  /\ \A p \in plans : p.op # o
  /\ plans' = plans \cup {[op |-> o, revision |-> revision, value |-> v]}
  /\ UNCHANGED <<revision, value, moved, acknowledged>>

\* It moves the register if nobody else has; the client may hear of it at once.
Move(p) ==
  /\ p.op \notin moved \cup acknowledged
  /\ p.revision = revision
  /\ revision' = revision + 1
  /\ value' = p.value
  /\ moved' = moved \cup {p.op}
  /\ acknowledged' \in {acknowledged, acknowledged \cup {p.op}}
  /\ UNCHANGED plans

Acknowledge(p) ==
  /\ value = p.value
  /\ revision = IF p.op \in moved THEN p.revision + 1 ELSE p.revision
  /\ acknowledged' = acknowledged \cup {p.op}
  /\ UNCHANGED <<revision, value, plans, moved>>

RegisterNext ==
  \/ \E o \in Operations, v \in Values : Plan(o, v)
  \/ \E p \in plans : Move(p) \/ Acknowledge(p)

RegisterSpec == RegisterInit /\ [][RegisterNext]_registerVars
=============================================================================
