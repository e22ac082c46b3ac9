------------------------------ MODULE MCRestart ------------------------------
(* Scenes for model checking Sweep: the controller alone with two           *)
(* namespaces, a sweep alone with two, both at once over one.               *)
EXTENDS MCSweep

VARIABLE scene   \* the one played, from beginning to end

OneKubeconfig == {CHOOSE k \in Kubeconfigs : TRUE}

ControllerAlone == [who |-> {"controller"}, names |-> {1, 2}, clusters |-> Clusters,
                    kubes |-> OneKubeconfig, edits |-> 2, faults |-> 1]
SweepAlone == [who |-> {"sweep"}, names |-> {1, 2}, clusters |-> Clusters,
               kubes |-> Kubeconfigs, edits |-> 0, faults |-> 1]
Both(c) == [who |-> {"controller", "sweep"}, names |-> {1}, clusters |-> {c},
            kubes |-> OneKubeconfig, edits |-> 2, faults |-> 1]

(* What a scene has of the cluster.                                         *)
Within(namespace, secret) ==
    /\ \A n \in Namespaces : namespace[n] # None =>
           n \in scene.names /\ namespace[n].cluster \in scene.clusters
    /\ \A c \in Clusters : secret[c] # None =>
           c \in scene.clusters /\ secret[c].kube \in scene.kubes
                /\ secret[c].source \in scene.names \cup {None}

(* Nothing is registered yet for a controller that is alone.                *)
MCInit ==
    /\ SweepInit
    /\ scene \in {ControllerAlone, SweepAlone} \cup {Both(c) : c \in Clusters}
    /\ Within(namespaces, secrets)
    /\ \A n \in Namespaces : kubeconfigs[n] \in scene.kubes \cup {None}
    /\ scene.who = {"controller"} => secrets = [c \in Clusters |-> None]

MCNext ==
    /\ SweepNext
    /\ scene' = scene
    /\ "sweep" \in scene.who \/ sweep' = sweep
    /\ "controller" \in scene.who \/ phase' = phase
    /\ edits' <= scene.edits
    /\ faults' <= scene.faults
    /\ Within(namespaces', secrets')
    /\ \A n \in Namespaces : kubeconfigs'[n] \in scene.kubes \cup {None}

MCSpec == MCInit /\ [][MCNext]_<<everything, scene>>
=============================================================================
