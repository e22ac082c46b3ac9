---------------------------- MODULE MCReconcile ----------------------------
(* Values for model checking Reconcile: two kubeconfigs on two addresses   *)
(* (a child cluster that moves), or on one (a rotated credential).         *)
EXTENDS Reconcile, TLC

MCNamespaces == {1, 2}

MovingAddress == [k \in Kubeconfigs |-> k]
SharedAddress == [k \in Kubeconfigs |-> "address"]

ClusterSymmetry == Permutations(Clusters)
AddressSymmetry == ClusterSymmetry \cup Permutations(Kubeconfigs)
=============================================================================
