-------------------------- MODULE MCRealtimeClient --------------------------
(* One channel with one subscription, or with two on one table.              *)
EXTENDS RealtimeClient

OneTable == <<"t1">>
SameTable == <<"t1", "t1">>
=============================================================================
