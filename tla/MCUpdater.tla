----------------------------- MODULE MCUpdater ------------------------------
(***************************************************************************)
(* Instances of Updater for TLC.  Three versions let an update follow a    *)
(* rollback; migration 027 ships with version 2, so version 1 is an API    *)
(* that knows no gate.                                                     *)
(***************************************************************************)
EXTENDS Updater
=============================================================================
