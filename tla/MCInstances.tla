----------------------------- MODULE MCInstances -----------------------------
(* Scenes for model checking Reconcile and Refinement with one instance, or *)
(* with two: in each, people change what can endanger the properties        *)
(* together, and everything else stays as it is.                            *)
EXTENDS Refinement, TLC

CONSTANT Scenes
VARIABLE scene   \* the one played, from beginning to end

MCNamespaces == {1, 2}
MCAddress == [k \in Kubeconfigs |-> k]
ClusterSymmetry == Permutations(Clusters)
InstanceSymmetry == ClusterSymmetry \cup Permutations(Workers)

OneKubeconfig == {CHOOSE k \in Kubeconfigs : TRUE}

Scene(names, kubes, changes, most) ==
    [names |-> names, kubes |-> kubes, changes |-> changes, most |-> most]

(* Sources that go and come back; names that change, and time; names and    *)
(* addresses that are contended.                                            *)
OneInstance ==
    {Scene({1, 2}, OneKubeconfig, {"namespace", "unmanage", "pin", "strip", "remove", "replace"}, 4),
     Scene({1, 2}, OneKubeconfig, {"namespace", "relabel", "pin"}, 4),
     Scene({1, 2}, OneKubeconfig, {"namespace", "relabel", "pin", "time"}, 3),
     Scene({1, 2}, Kubeconfigs, {"namespace", "relabel", "kubeconfig", "pin", "foreign"}, 3)}

(* Two namespaces that contend; one that is renamed, replaced and expires.  *)
TwoInstances ==
    {Scene({1, 2}, OneKubeconfig, {"relabel", "pin", "strip"}, 2),
     Scene({1}, OneKubeconfig, {"namespace", "relabel", "pin", "replace", "time"}, 2)}

MCInit ==
    /\ Init
    /\ scene \in Scenes
    /\ \A n \in Namespaces : /\ n \in scene.names \/ namespaces[n] = None
                             /\ kubeconfigs[n] \in scene.kubes \cup {None}

(* Whoever makes a change of this kind makes it in this scene.              *)
May(kind) == kind \in scene.changes /\ edits < scene.most

People ==
    \/ \E n \in scene.names :
           \/ May("namespace") /\ (DeleteNamespace(n) \/ \E c \in Clusters \cup {None} : CreateNamespace(n, c))
           \/ May("relabel") /\ \E c \in Clusters \cup {None} : Relabel(n, c)
           \/ May("unmanage") /\ SetManaged(n)
           \/ May("kubeconfig") /\ \E k \in scene.kubes : Reprovision(n, k)
    \/ \E c \in Clusters :
           \/ May("pin") /\ SetPin(c)
           \/ May("strip") /\ Strip(c)
           \/ May("remove") /\ HandRemove(c)
           \/ May("replace") /\ HandReplace(c)
           \/ May("foreign") /\ \E k \in scene.kubes : HandCreate(c, k)

(* The steps of Next that belong to the scene.                              *)
MCNext ==
    /\ \/ \E w \in Workers : Progress(w) \/ Fault(w)
       \/ People
       \/ \E n \in scene.names : Finalize(n) \/ \E k \in scene.kubes : Provision(n, k)
       \/ "time" \in scene.changes /\ Tick
    /\ scene' = scene

MCSpec == MCInit /\ [][MCNext]_<<vars, scene>>

(* Demotion has a successor: unless a person strips or removes it, there is *)
(* another live registration of the namespace at the moment one is hidden.  *)
(* In particular a refused claimant never loses the registration it had.    *)
DemotedOnlyWhenReplaced ==
    [][scene.changes \cap {"strip", "remove"} = {} => ~HidesTheOnlyOne]_vars
=============================================================================
