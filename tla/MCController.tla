---------------------------- MODULE MCController ----------------------------
(* Values for model checking Controller.                                   *)
EXTENDS Controller, TLC

OneNamespace == {1}
TwoNamespaces == {1, 2}

MovingAddress == [k \in Kubeconfigs |-> k]

ClusterSymmetry == Permutations(Clusters)
=============================================================================
