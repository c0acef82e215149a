-------------------------- MODULE MCSnapshotMounts --------------------------
(* Values of the constants of SnapshotMounts for model checking.           *)
EXTENDS SnapshotMounts

CONSTANTS n1, n2

OneClient == {n1}
TwoClients == {n1, n2}
=============================================================================
