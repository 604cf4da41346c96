---------------------------- MODULE MCDeviceWipe ----------------------------
(***************************************************************************)
(* An instance of DeviceWipe for TLC: one device that two users may claim, *)
(* two revisions, so that a later credential meets what an earlier one has *)
(* confirmed, and a backup older than the receipts.                        *)
(***************************************************************************)
EXTENDS DeviceWipe

CONSTANTS u1, u2, i1, k1, k2, d1, d2, r1, s1, s2, h1, h2

\* Users and idempotency keys are interchangeable: the first registration is
\* taken to be one of u1 with k1.
FirstRegistration == 1 \in Bound => bind[1].user = u1 /\ bind[1].idem = k1
=============================================================================
