----------------------------- MODULE MCSnapperd -----------------------------
(* Values of the constants of Snapperd for model checking.                 *)
EXTENDS Snapperd, TLC

CONSTANTS n1, n2, n3, c1, c2

OneClient == {n1}
TwoClients == {n1, n2}
ThreeClients == {n1, n2, n3}
NoConfig == {}
OneConfig == {c1}
TwoConfigs == {c1, c2}
Everyone == [c \in Config |-> Client]

(* Two snapshots either way round, the current system with a snapshot, and *)
(* a pair the constructor rejects.                                         *)
ComparePairs == {<<1, 2>>, <<0, 1>>}
OnePair == {<<0, 1>>}

ClientSymmetry == Permutations(Client)
=============================================================================
