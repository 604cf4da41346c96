---------------------- MODULE MCAuthorizationProjection ---------------------
(* Two tables, a plain contract over one of them or both, and an           *)
(* environment-scoped contract over both.                                  *)
EXTENDS AuthorizationProjection

MCContracts ==
  {[tables |-> {"t1"}, sel |-> "plain"],
   [tables |-> {"t1", "t2"}, sel |-> "plain"],
   [tables |-> {"t1", "t2"}, sel |-> "env"]}

\* Two disjoint batches.
MCDisjoint ==
  {[tables |-> {"t1"}, sel |-> "plain"], [tables |-> {"t2"}, sel |-> "plain"]}
=============================================================================
