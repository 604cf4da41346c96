----------------------------- MODULE WipeLedger -----------------------------
(***************************************************************************)
(* What the device wipe channel promises, without keys, hooks, revisions,  *)
(* restores or transactions: a ledger of wipe commands.  A command names a *)
(* device, the credential of that device it was handed to and an           *)
(* obligation.  Commands are issued and confirmed once and never taken     *)
(* back; an obligation that a device confirmed through one credential is   *)
(* not issued to it again through another one.                             *)
(***************************************************************************)
CONSTANTS Devices, Credentials, Obligations

VARIABLES
  issued,        \* the commands ever issued
  confirmed      \* those whose receipt was accepted

ledgerVars == <<issued, confirmed>>

LedgerInit == issued = {} /\ confirmed = {}

\* The obligations the device has confirmed, whatever the credential.
Discharged(d) == {o \in Obligations : \E c \in Credentials : <<d, c, o>> \in confirmed}

\* One query issues any number of new commands to one credential.
Issue(d, c) ==
  \E new \in SUBSET (Obligations \ Discharged(d)) :
    /\ \A o \in new : <<d, c, o>> \notin issued
    /\ issued' = issued \cup {<<d, c, o>> : o \in new}
    /\ UNCHANGED confirmed

Confirm(d, c) ==
  \E o \in Obligations :
    /\ <<d, c, o>> \in issued \ confirmed
    /\ confirmed' = confirmed \cup {<<d, c, o>>}
    /\ UNCHANGED issued

LedgerNext == \E d \in Devices, c \in Credentials : Issue(d, c) \/ Confirm(d, c)

LedgerSpec == LedgerInit /\ [][LedgerNext]_ledgerVars
=============================================================================
