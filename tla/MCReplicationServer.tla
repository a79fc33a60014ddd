------------------------ MODULE MCReplicationServer ------------------------
(* Small instances of ReplicationServer for TLC. *)
EXTENDS ReplicationServer

CONSTANTS w1, w2, c1, c2, c3

TwoWorkers == {w1, w2}
OneWorkerWithoutDb == {w2}
AllWorkersHaveDb == {}
TwoConnections == {c1, c2}
ThreeConnections == {c1, c2, c3}
=============================================================================
