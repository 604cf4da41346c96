-------------------------- MODULE MCPolicyOperation -------------------------
(***************************************************************************)
(* Instances of PolicyOperation for TLC.  Two keys give the command        *)
(* prefixes their order; two workers a handler and a zombie or a recovery. *)
(***************************************************************************)
EXTENDS PolicyOperation, TLC

MCPolicies == {<<"none", "none">>, <<"narrow", "narrow">>, <<"wide", "none">>}
MCOpenClosed == {<<"none", "none">>, <<"wide", "narrow">>}
MCTwoOpen == {<<"narrow", "narrow">>, <<"wide", "wide">>}
Symmetry == Permutations(Workers)
=============================================================================
