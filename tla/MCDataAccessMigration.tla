----------------------- MODULE MCDataAccessMigration ------------------------
(***************************************************************************)
(* Instances of DataAccessMigration for TLC.  Three projects: one with the *)
(* historical rules and an anonymous write, one whose owner rule must      *)
(* survive beside the legacy rule, one with a tracked view.                *)
(***************************************************************************)
EXTENDS DataAccessMigration, TLC

Only(some) == [slot \in Slots |-> IF slot \in DOMAIN some THEN some[slot] ELSE NoRule]
Historical == Only(<<"user", "select">> :> <<"all", 0>>
                   @@ <<"anonymous", "insert">> :> <<"all", 0>>)
WithOwner == Only(<<"user", "select">> :> <<"all", 0>>
                  @@ <<"auth", "select">> :> <<"owner", 0>>)
MCSources == {[rules |-> Historical, view |-> FALSE], [rules |-> WithOwner, view |-> FALSE],
              [rules |-> Only(<<"user", "insert">> :> <<"all", 0>>), view |-> TRUE]}
=============================================================================
