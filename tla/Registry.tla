------------------------------- MODULE Registry -------------------------------
(***************************************************************************)
(* What the registrar promises about the cluster Secrets, to someone who   *)
(* sees the API server and nothing of how a pass works.                    *)
(*                                                                         *)
(* A worker has a mandate: one namespace object it observed, and, once it  *)
(* found one there, a kubeconfig.  Under it the worker registers,          *)
(* refreshes, demotes and expires Secrets, each in ONE step on the Secret  *)
(* as it is at that step: there are no copies, no resourceVersions and no  *)
(* stale reads here.  The exception is the removal of what a namespace     *)
(* left behind, which works through a list of condemned Secrets and looks  *)
(* only at whether each is still the object that was condemned.            *)
(*                                                                         *)
(* What a worker may be refused, by a name or address claimed elsewhere or *)
(* by an error, shows here only as a mandate given up.                     *)
(***************************************************************************)
EXTENDS Naturals

CONSTANTS
    Namespaces, Clusters, Workers, DemotedTTL, None

VARIABLES
    namespaces,   \* namespace objects of the API server
    kubeconfigs,  \* the usable kubeconfig in each namespace
    secrets,      \* the cluster Secrets
    now,          \* the clock
    edits,        \* outside changes so far
    mandate,      \* what each worker acts on: a namespace it observed
    condemned     \* the Secrets each worker has decided to remove

vars == <<namespaces, kubeconfigs, secrets, now, edits, mandate, condemned>>

cluster == <<namespaces, kubeconfigs, secrets, now, edits>>

(* No mandate.                                                              *)
Free == [key |-> None, ns |-> None, kube |-> None]

(* The Secret a mandate stands for.                                        *)
Entry(m) == [owned |-> TRUE, source |-> m.key, uid |-> m.ns.uid, named |-> TRUE,
             state |-> "active", since |-> None, pinned |-> FALSE, kube |-> m.kube]

OfNamespace(s, n) == s # None /\ s.owned /\ s.source = n

(* A worker's mandate after a step: as it was, its kubeconfig used, or      *)
(* given up.                                                                *)
Proceeds(w) ==
    /\ mandate'[w] \in {mandate[w], [mandate[w] EXCEPT !.kube = None], Free}
    /\ \A v \in Workers \ {w} : mandate'[v] = mandate[v]

(* Decisions to remove are only ever dropped.                               *)
Dropped(v) == condemned'[v] \subseteq condemned[v]

(* Worker w leaves s as Secret c.                                           *)
Writes(w, c, s) ==
    /\ secrets' = [secrets EXCEPT ![c] = s]
    /\ Proceeds(w)
    /\ \A v \in Workers : Dropped(v)
    /\ UNCHANGED <<namespaces, kubeconfigs, now, edits>>

(* Secret c is gone, and with it everybody's reason to remove it.           *)
Removes(w, c) ==
    /\ Writes(w, c, None)
    /\ \A v \in Workers : c \notin condemned'[v]

-----------------------------------------------------------------------------
Observe(w, n) ==
    /\ mandate[w] = Free
    /\ mandate' = [mandate EXCEPT ![w] = [key |-> n, ns |-> namespaces[n], kube |-> None]]
    /\ UNCHANGED <<cluster, condemned>>

Equip(w) ==
    /\ mandate[w] # Free
    /\ kubeconfigs[mandate[w].key] # None
    /\ mandate[w].ns # None
    /\ mandate[w].ns.cluster # None
    /\ ~mandate[w].ns.terminating
    /\ mandate' = [mandate EXCEPT ![w].kube = kubeconfigs[mandate[w].key]]
    /\ UNCHANGED <<cluster, condemned>>

Entitled(w, c) ==
    /\ mandate[w] # Free
    /\ mandate[w].kube # None
    /\ c = mandate[w].ns.cluster

(* A new registration appears where there was no Secret.                    *)
Register(w, c) ==
    /\ Entitled(w, c)
    /\ secrets[c] = None
    /\ Writes(w, c, Entry(mandate[w]))

(* An existing one is brought up to date by the namespace it records, or by *)
(* whoever claims the cluster it names when it records none.  The pin is    *)
(* whatever it is at that moment.                                           *)
Refresh(w, c) ==
    /\ Entitled(w, c)
    /\ secrets[c] # None
    /\ secrets[c].owned
    /\ \/ secrets[c].source = mandate[w].key
       \/ secrets[c].source = None /\ secrets[c].named
    /\ Writes(w, c, [Entry(mandate[w]) EXCEPT !.pinned = secrets[c].pinned])

(* A registration of the namespace, other than the one the namespace names  *)
(* now, is taken out of use; never a pinned one.                            *)
Outlived(w, c) ==
    /\ mandate[w] # Free
    /\ mandate[w].ns # None
    /\ ~mandate[w].ns.terminating
    /\ mandate[w].ns.cluster # c
    /\ OfNamespace(secrets[c], mandate[w].key)
    /\ ~secrets[c].pinned

Demote(w, c) ==
    /\ Outlived(w, c)
    /\ secrets[c].state = "active"
    /\ Writes(w, c, [secrets[c] EXCEPT !.state = "demoted", !.since = now])

Expire(w, c) ==
    /\ Outlived(w, c)
    /\ secrets[c].state = "demoted"
    /\ secrets[c].since # None
    /\ DemotedTTL > 0 /\ now > secrets[c].since + DemotedTTL
    /\ Removes(w, c)

(* Unpinned registrations of a namespace observed to be gone, or of one     *)
(* that had the name before the namespace observed.                         *)
Condemn(w) ==
    /\ mandate[w] # Free
    /\ mandate' = mandate
    /\ condemned' = [condemned EXCEPT ![w] =
            {c \in Clusters :
                /\ OfNamespace(secrets[c], mandate[w].key)
                /\ ~secrets[c].pinned
                /\ mandate[w].ns # None =>
                       secrets[c].uid \notin {None, mandate[w].ns.uid}}]
    /\ UNCHANGED cluster

Remove(w, c) ==
    /\ c \in condemned[w]
    /\ Removes(w, c)

(* A worker goes on without writing, or gives up.                           *)
Waive(w) ==
    /\ mandate[w] # Free
    /\ Proceeds(w)
    /\ \A v \in Workers : Dropped(v)
    /\ UNCHANGED cluster

(* Everybody else.  Who touches a Secret from outside is counted in edits.  *)
Outside ==
    /\ secrets' = secrets \/ edits' = edits + 1
    /\ \A v \in Workers : Dropped(v)
    /\ mandate' = mandate

-----------------------------------------------------------------------------
Init ==
    /\ secrets = [c \in Clusters |-> None]
    /\ edits = 0
    /\ mandate = [w \in Workers |-> Free]
    /\ condemned = [w \in Workers |-> {}]

Acts(w) ==
    \/ \E n \in Namespaces : Observe(w, n)
    \/ Equip(w) \/ Condemn(w) \/ Waive(w)
    \/ \E c \in Clusters : \/ Register(w, c) \/ Refresh(w, c) \/ Demote(w, c)
                           \/ Expire(w, c) \/ Remove(w, c)

Next == (\E w \in Workers : Acts(w)) \/ Outside

Spec == Init /\ [][Next]_vars

=============================================================================
