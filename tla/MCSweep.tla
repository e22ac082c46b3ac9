------------------------------- MODULE MCSweep -------------------------------
(* Values for model checking Sweep.                                        *)
EXTENDS Sweep, TLC

OneNamespace == {1}
TwoNamespaces == {1, 2}

MovingAddress == [k \in Kubeconfigs |-> k]

ClusterSymmetry == Permutations(Clusters)
=============================================================================
