-------------------------- MODULE MCProjectAccount --------------------------
(***************************************************************************)
(* Instances of ProjectAccount for TLC.  Two users give the subject an     *)
(* account to come back with, two executors one that lost its claim.       *)
(***************************************************************************)
EXTENDS ProjectAccount, TLC

Symmetry == Permutations(Workers) \cup Permutations(Executors)
=============================================================================
