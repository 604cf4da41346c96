-------------------------- MODULE MCTableDeletion --------------------------
(* Two projects with a table each; the second table is in an environment's   *)
(* schema, where realtime is configured without a lock.                       *)
EXTENDS TableDeletion

MCSchemaOf == [n \in Names |-> IF n = "t1" THEN "s1" ELSE "s2"]
MCScopeOf == [s \in Schemas |-> IF s = "s1" THEN "p1" ELSE "p2"]
=============================================================================
