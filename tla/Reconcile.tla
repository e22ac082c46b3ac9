------------------------------ MODULE Reconcile ------------------------------
(***************************************************************************)
(* One reconcile pass per worker, every API call of it a step.             *)
(*                                                                         *)
(* ReconcileOne (registrar.go) reads one source namespace, drops the       *)
(* registrations of a predecessor of the same name, discovers the child    *)
(* cluster, applies its registration and collects the other registrations  *)
(* recorded against the namespace.  All it knows it learns from reads that *)
(* may be stale when it writes: people, provisioners and other workers     *)
(* change namespaces and Secrets between any two calls.                    *)
(*                                                                         *)
(* A worker is whatever runs passes: the single reconcile goroutine of one *)
(* process, and, beside it, a second replica, a --once run or a leader     *)
(* that has not yet noticed that it lost the lease.                        *)
(*                                                                         *)
(* Computation between two calls touches nothing shared, so it is folded   *)
(* into the call before it.                                                *)
(***************************************************************************)
EXTENDS Naturals, FiniteSets

CONSTANTS
    Namespaces,   \* namespace names; numbers, since ties are broken on the name
    Clusters,     \* cluster names; cluster c has the Secret cluster-<c>
    Kubeconfigs,  \* child-cluster kubeconfigs, the credential included
    Address,      \* the API server address each kubeconfig names
    Workers,      \* actors that run reconcile passes concurrently
    DemotedTTL,   \* age at which a demoted registration is deleted; 0 is "never"
    Edits,        \* the kinds of outside change a run allows
    MaxEdits,     \* bound: how many outside changes there are
    MaxTime,      \* bound: how far the clock goes
    None          \* absent object, absent label, or unset field

EditKinds == {"namespace", "relabel", "unmanage", "kubeconfig", "pin", "strip",
              "remove", "replace", "foreign"}

ASSUME NamespacesAssumption == Namespaces \subseteq Nat
ASSUME NoneAssumption == None \notin Nat \cup Clusters \cup Kubeconfigs
ASSUME AddressAssumption == DOMAIN Address = Kubeconfigs
ASSUME BoundsAssumption == DemotedTTL \in Nat /\ MaxEdits \in Nat /\ MaxTime \in Nat
ASSUME EditsAssumption == Edits \subseteq EditKinds

VARIABLES
    namespaces,   \* namespace objects of the API server
    kubeconfigs,  \* the usable kubeconfig discovery finds in each namespace
    uids,         \* the UID last given to each namespace name
    secrets,      \* the cluster Secrets of the target namespace
    now,          \* the clock
    edits,        \* outside changes so far
    job,          \* what each worker is doing
    copies        \* the Secrets each worker has read and may write or delete

worker == <<job, copies>>
sources == <<namespaces, kubeconfigs, uids>>
vars == <<sources, secrets, now, edits, worker>>

-----------------------------------------------------------------------------
(* Objects of the API server.                                              *)

Namespace ==
    [uid: Nat, created: Nat, managed: BOOLEAN, cluster: Clusters \cup {None},
     terminating: BOOLEAN]

(* The labels and data of a cluster Secret.  owned is the managed-by label, *)
(* named says the cluster label is the name the Secret carries, since is    *)
(* the stale-since stamp, kube stands for the server and config keys.       *)
(* Demoted: ArgoCD's secret-type label is parked under our own prefix.      *)
Registration ==
    [owned: BOOLEAN, source: Namespaces \cup {None}, uid: Nat \cup {None},
     named: BOOLEAN, state: {"active", "demoted"}, since: Nat \cup {None},
     pinned: BOOLEAN, kube: Kubeconfigs]

(* A Secret as a worker last read it.  A write carries the resourceVersion  *)
(* of the object read and a delete its UID: "current" while both match,     *)
(* "rewritten" once the resourceVersion moved, "replaced" once the object   *)
(* is another one or gone.                                                  *)
Copy == [obj: Registration, version: {"current", "rewritten", "replaced"}]

ASSUME AbsentAssumption == None \notin Namespace \cup Registration \cup Copy

Nothing == [c \in Clusters |-> None]

Phases == {"idle", "stale-list", "stale-delete", "discover", "get-secret",
           "claimants", "servers", "incumbents", "write", "list", "collect"}
Outcomes == {"requeue", "finished", "failed"}

Job ==
    [pc: Phases \cup Outcomes, key: Namespaces \cup {None},
     ns: Namespace \cup {None}, kube: Kubeconfigs \cup {None},
     todo: SUBSET Clusters, rivals: SUBSET Namespaces, outcome: Outcomes]

Idle == [pc |-> "idle", key |-> None, ns |-> None, kube |-> None,
         todo |-> {}, rivals |-> {}, outcome |-> "requeue"]

(* A pass that is over: nothing of it is remembered but what done() gets.   *)
Ended(n, outcome) == [Idle EXCEPT !.pc = outcome, !.key = n]

Fresh(uid, at, c) ==
    [uid |-> uid, created |-> at, managed |-> TRUE, cluster |-> c, terminating |-> FALSE]

-----------------------------------------------------------------------------
(* What a pass decides from what it has read.                              *)

(* The Secret a pass wrote or confirmed, "" (None) when it registered       *)
(* nothing: the namespace is gone or being torn down.                       *)
Applied(j) == IF j.ns = None THEN None
              ELSE IF j.ns.terminating THEN None ELSE j.ns.cluster

(* Only a definite NotFound is proof that the source is gone.               *)
ProvenGoneWhenTerminating(j) == j.ns = None \/ j.ns.terminating
ProvenGone(j) == j.ns = None

(* The child's registration, as apply would create it.                      *)
Want(j) == [owned |-> TRUE, source |-> j.key, uid |-> j.ns.uid, named |-> TRUE,
            state |-> "active", since |-> None, pinned |-> FALSE, kube |-> j.kube]

(* The update in place: the wanted labels and data over the existing ones,  *)
(* our other labels swept, except the pin.                                  *)
MergeSweepingPin(s, want) == want
Merge(s, want) == [want EXCEPT !.pinned = s.pinned]

(* checkOwnership: the incumbent keeps its Secret, a Secret that records no *)
(* source is adopted only when it already names the cluster.                *)
MayWriteAnyOwned(s, n) == s.owned
MayWrite(s, n) ==
    /\ s.owned
    /\ \/ s.source = n
       \/ s.source = None /\ s.named

(* The address is claimed on creation and when it moves, not otherwise.     *)
MovesNever(s, kube) == FALSE
Moves(s, kube) == Address[s.kube] # Address[kube]

(* Owned Secrets that record namespace n as their source.                   *)
Recorded(n) == {c \in Clusters : /\ secrets[c] # None
                                 /\ secrets[c].owned
                                 /\ secrets[c].source = n}

(* Recorded against an earlier namespace of this name; an absent UID label  *)
(* is never a mismatch.                                                     *)
Predecessors(j) == {c \in Recorded(j.key) : secrets[c].uid \notin {None, j.ns.uid}}

(* What collection may touch: not the Secret applied, nothing pinned.       *)
SupersededOrPinned(j) == Recorded(j.key) \ {Applied(j)}
Superseded(j) == {c \in Recorded(j.key) : c # Applied(j) /\ ~secrets[c].pinned}

(* The live cluster Secrets of other sources at the pass's address.         *)
Colliding(j) == {c \in Clusters : /\ secrets[c] # None
                                  /\ secrets[c].state = "active"
                                  /\ secrets[c].source # j.key
                                  /\ Address[secrets[c].kube] = Address[j.kube]}

(* The managed namespaces that claim cluster name c; the oldest wins, ties  *)
(* go to the smaller name.                                                  *)
Claimants(c) == {n \in Namespaces : /\ namespaces[n] # None
                                    /\ namespaces[n].managed
                                    /\ namespaces[n].cluster = c
                                    /\ ~namespaces[n].terminating}

Older(m, n) == \/ namespaces[m].created < namespaces[n].created
               \/ namespaces[m].created = namespaces[n].created /\ m < n

LosesName(j) == /\ Claimants(j.ns.cluster) # {}
                /\ \E m \in Claimants(j.ns.cluster) :
                       /\ m # j.key
                       /\ \A n \in Claimants(j.ns.cluster) \ {m} : Older(m, n)

(* demotedTTLExpired: every uncertain answer is no.                         *)
Expired(s) == /\ DemotedTTL > 0
              /\ s.since # None
              /\ now > s.since + DemotedTTL

(* The two preconditions a call can carry.                                  *)
SameVersionByUID(cp) == cp.version # "replaced"
SameVersion(cp) == cp.version = "current"
SameObject(cp) == cp.version # "replaced"

(* How collectOne's result starts out: zero remaining only if nothing       *)
(* listed is pinned.  A delete that did not remove its Secret spoils it.    *)
ResultIgnoringPins(j, listed) == IF ProvenGone(j) THEN "finished" ELSE "requeue"
Result(j, listed) ==
    IF ProvenGone(j) /\ \A c \in listed : ~secrets[c].pinned
    THEN "finished" ELSE "requeue"

-----------------------------------------------------------------------------
(* Bookkeeping shared by the actions.                                      *)

Holding(S) == [c \in Clusters |->
                 IF c \in S THEN [obj |-> secrets[c], version |-> "current"] ELSE None]

(* A pass that has ended holds nothing.                                     *)
Held(j, held) == IF j.pc \in Outcomes THEN Nothing ELSE held

(* A step of worker w that writes nothing.                                  *)
Turn(w, j, held) ==
    /\ job' = [job EXCEPT ![w] = j]
    /\ copies' = [copies EXCEPT ![w] = Held(j, held)]
    /\ UNCHANGED <<sources, secrets, now, edits>>

(* What a write to Secret c ("rewritten"), or its removal or replacement    *)
(* ("replaced"), does to the copies of it.                                  *)
Marked(cp, how) ==
    IF cp = None THEN None
    ELSE IF how = "replaced" \/ cp.version = "current" THEN [cp EXCEPT !.version = how]
    ELSE cp

Outdate(cps, c, how) ==
    [w \in Workers |-> [cps[w] EXCEPT ![c] = Marked(cps[w][c], how)]]

(* A step of worker w that leaves s as Secret c.                            *)
Put(w, c, s, how, j) ==
    /\ secrets' = [secrets EXCEPT ![c] = s]
    /\ job' = [job EXCEPT ![w] = j]
    /\ copies' = Outdate([copies EXCEPT ![w] = Held(j, [copies[w] EXCEPT ![c] = None])], c, how)
    /\ UNCHANGED <<sources, now, edits>>

(* A refused claimant vouches for nothing: the pass ends without collection. *)
RefusedButCollecting(j) == [j EXCEPT !.pc = "list"]
Refused(j) == Ended(j.key, "requeue")

(* The job once item c of a loop is dealt with.                             *)
ItemDone(j, c) ==
    LET left == [j EXCEPT !.todo = @ \ {c}]
    IN  IF left.todo # {} THEN left
        ELSE IF j.pc = "stale-delete" /\ j.outcome # "failed"
             THEN [left EXCEPT !.pc = "discover"]
             ELSE Ended(j.key, j.outcome)

ItemKept(j, c) ==
    ItemDone([j EXCEPT !.outcome = IF @ = "finished" THEN "requeue" ELSE @], c)

ItemFailedAgain(j, c) == [j EXCEPT !.outcome = "failed"]
ItemFailed(j, c) == ItemDone([j EXCEPT !.outcome = "failed"], c)

-----------------------------------------------------------------------------
(* A reconcile pass.                                                       *)

(* The uncached read of the namespace decides what may be concluded.        *)
GetNamespace(w, n) ==
    LET ns == namespaces[n]
        j  == [Idle EXCEPT !.key = n, !.ns = ns]
    IN  /\ job[w].pc = "idle"
        /\ \/ /\ ns = None
              /\ Turn(w, [j EXCEPT !.pc = "list"], Nothing)
           \/ /\ ns # None
              /\ ~ns.managed
              /\ Turn(w, Ended(n, "requeue"), Nothing)
           \/ /\ ns # None
              /\ ns.managed
              /\ Turn(w, [j EXCEPT !.pc = IF ns.terminating THEN "list" ELSE "stale-list"],
                      Nothing)

(* The read fails: nothing is proven, so nothing is collected.              *)
GetFails(w, n) ==
    /\ job[w].pc = "idle"
    /\ Turn(w, Ended(n, "failed"), Nothing)

(* collectStaleUID's list.                                                  *)
ListStale(w) ==
    LET j == job[w]
        stale == {c \in Predecessors(j) : ~secrets[c].pinned}
    IN  /\ j.pc = "stale-list"
        /\ Turn(w, [j EXCEPT !.pc = IF stale = {} THEN "discover" ELSE "stale-delete",
                             !.todo = stale],
                Holding(stale))

(* discoverOne.  Without a usable cluster label or kubeconfig the pass ends. *)
Discover(w) ==
    LET j == job[w]
        kube == kubeconfigs[j.key]
    IN  /\ j.pc = "discover"
        /\ \/ /\ j.ns.cluster = None \/ kube = None
              /\ Turn(w, Ended(j.key, "requeue"), Nothing)
           \/ /\ j.ns.cluster # None
              /\ kube # None
              /\ Turn(w, [j EXCEPT !.pc = "get-secret", !.kube = kube], Nothing)

(* The Secrets of the namespace cannot be listed, or are half-written: the  *)
(* pass ends the same way.                                                  *)
DiscoverFails(w) ==
    /\ job[w].pc = "discover"
    /\ Turn(w, Ended(job[w].key, "requeue"), Nothing)

(* apply's read of the Secret, and what it decides on the spot.             *)
GetSecret(w) ==
    LET j == job[w]
        c == j.ns.cluster
        s == secrets[c]
        differs == s # Merge(s, Want(j))
    IN  /\ j.pc = "get-secret"
        /\ \/ /\ s = None
              /\ Turn(w, [j EXCEPT !.pc = "claimants"], Nothing)
           \/ /\ s # None
              /\ ~MayWrite(s, j.key)
              /\ Turn(w, Refused(j), Nothing)
           \/ /\ s # None
              /\ MayWrite(s, j.key)
              /\ ~differs
              /\ Turn(w, [j EXCEPT !.pc = "list"], Nothing)
           \/ /\ s # None
              /\ MayWrite(s, j.key)
              /\ differs
              /\ Turn(w, [j EXCEPT !.pc = IF Moves(s, j.kube) THEN "servers" ELSE "write"],
                      Holding({c}))

(* claimContestedName.                                                      *)
ListClaimants(w) ==
    LET j == job[w]
    IN  /\ j.pc = "claimants"
        /\ Turn(w, IF LosesName(j) THEN Refused(j) ELSE [j EXCEPT !.pc = "servers"], Nothing)

(* claimServer's list.  A pinned incumbent, or one that records no source,  *)
(* keeps the address; any other keeps it if its namespace still exists.     *)
ListServers(w) ==
    LET j == job[w]
        firm == \E c \in Colliding(j) : secrets[c].pinned \/ secrets[c].source = None
        rivals == {secrets[c].source : c \in Colliding(j)}
    IN  /\ j.pc = "servers"
        /\ Turn(w, IF firm THEN Refused(j)
                   ELSE [j EXCEPT !.pc = IF rivals = {} THEN "write" ELSE "incumbents",
                                  !.rivals = rivals],
                copies[w])

(* namespaceExists, for one incumbent.                                      *)
CheckIncumbent(w, n) ==
    LET j == job[w]
        left == [j EXCEPT !.rivals = @ \ {n}]
    IN  /\ j.pc = "incumbents"
        /\ n \in j.rivals
        /\ \/ /\ namespaces[n] # None
              /\ Turn(w, Refused(j), Nothing)
           \/ /\ namespaces[n] = None
              /\ Turn(w, IF left.rivals = {} THEN [left EXCEPT !.pc = "write"] ELSE left,
                      copies[w])

(* Any uncertainty about it answers that the incumbent exists.              *)
CheckFails(w) ==
    /\ job[w].pc = "incumbents"
    /\ Turn(w, Refused(job[w]), Nothing)

Create(w) ==
    LET j == job[w]
        c == j.ns.cluster
    IN  /\ j.pc = "write"
        /\ copies[w][c] = None
        /\ \/ /\ secrets[c] = None
              /\ Put(w, c, Want(j), "replaced", [j EXCEPT !.pc = "list", !.kube = None])
           \/ /\ secrets[c] # None
              /\ Turn(w, Refused(j), Nothing)

(* The Update carries the resourceVersion of the Secret that was read.      *)
Update(w) ==
    LET j == job[w]
        c == j.ns.cluster
        cp == copies[w][c]
    IN  /\ j.pc = "write"
        /\ cp # None
        /\ \/ /\ SameVersion(cp)
              /\ Put(w, c, Merge(cp.obj, Want(j)), "rewritten",
                     [j EXCEPT !.pc = "list", !.kube = None])
           \/ /\ ~SameVersion(cp)
              /\ Turn(w, Ended(j.key, "failed"), Nothing)

(* collectOne's list.  With the source gone every unpinned registration     *)
(* goes; with it still there, all but the one this pass applied, unless it  *)
(* applied none.                                                            *)
ListOwned(w) ==
    LET j == job[w]
        listed == Recorded(j.key)
        items == IF ProvenGone(j) \/ Applied(j) # None THEN Superseded(j) ELSE {}
        started == [j EXCEPT !.pc = "collect", !.todo = items, !.kube = None,
                             !.outcome = Result(j, listed)]
    IN  /\ j.pc = "list"
        /\ Turn(w, IF items = {} THEN Ended(j.key, Result(j, listed)) ELSE started,
                Holding(items))

(* The worker is at item c of a loop.                                       *)
At(w, pc, c) == job[w].pc = pc /\ c \in job[w].todo

(* deleteOrphan: preconditioned on the Secret's UID alone.                  *)
DeleteOrphan(w, c) ==
    LET j == job[w]
        cp == copies[w][c]
        held == [copies[w] EXCEPT ![c] = None]
    IN  /\ \/ At(w, "stale-delete", c)
           \/ At(w, "collect", c) /\ ProvenGone(j)
        /\ \/ /\ secrets[c] # None
              /\ SameObject(cp)
              /\ Put(w, c, None, "replaced", ItemDone(j, c))
           \/ /\ secrets[c] = None
              /\ Turn(w, ItemDone(j, c), held)
           \/ /\ secrets[c] # None
              /\ ~SameObject(cp)
              /\ Turn(w, ItemKept(j, c), held)

(* A demoted registration that has not outlived the TTL stays.              *)
KeepDemoted(w, c) ==
    LET s == copies[w][c].obj
    IN  /\ At(w, "collect", c)
        /\ ~ProvenGone(job[w])
        /\ s.state = "demoted"
        /\ ~Expired(s)
        /\ Turn(w, ItemDone(job[w], c), [copies[w] EXCEPT ![c] = None])

(* deleteExpired: preconditioned on UID and resourceVersion, since a        *)
(* reverted rename rewrites the Secret in place.                            *)
DeleteExpired(w, c) ==
    LET j == job[w]
        cp == copies[w][c]
    IN  /\ At(w, "collect", c)
        /\ ~ProvenGone(j)
        /\ cp.obj.state = "demoted"
        /\ Expired(cp.obj)
        /\ \/ /\ secrets[c] # None
              /\ SameVersion(cp)
              /\ Put(w, c, None, "replaced", ItemDone(j, c))
           \/ /\ secrets[c] = None \/ ~SameVersion(cp)
              /\ Turn(w, ItemDone(j, c), [copies[w] EXCEPT ![c] = None])

(* demote: an Update of the object listed.                                  *)
Demote(w, c) ==
    LET j == job[w]
        cp == copies[w][c]
    IN  /\ At(w, "collect", c)
        /\ ~ProvenGone(j)
        /\ cp.obj.state = "active"
        /\ \/ /\ SameVersion(cp)
              /\ Put(w, c, [cp.obj EXCEPT !.state = "demoted", !.since = now],
                     "rewritten", ItemDone(j, c))
           \/ /\ ~SameVersion(cp)
              /\ Turn(w, ItemFailed(j, c), [copies[w] EXCEPT ![c] = None])

(* A delete or an update inside a loop fails; the others still get their    *)
(* turn.                                                                    *)
ItemError(w, c) ==
    LET j == job[w]
        s == copies[w][c].obj
    IN  /\ \/ At(w, "stale-delete", c)
           \/ /\ At(w, "collect", c)
              /\ ProvenGone(j) \/ s.state = "active" \/ Expired(s)
        /\ Turn(w, ItemFailed(j, c), [copies[w] EXCEPT ![c] = None])

(* A call outside the loops fails: the pass ends with the error.            *)
Abort(w) ==
    /\ job[w].pc \in {"stale-list", "get-secret", "claimants", "servers", "write", "list"}
    /\ Turn(w, Ended(job[w].key, "failed"), Nothing)

(* done() has turned the result into a requeue; the worker is free.         *)
Return(w) ==
    /\ job[w].pc \in Outcomes
    /\ Turn(w, Idle, Nothing)

(* The process dies or loses the lease between two calls.                   *)
Crash(w) ==
    /\ job[w].pc \notin {"idle"} \cup Outcomes
    /\ Turn(w, Idle, Nothing)

Progress(w) ==
    \/ \E n \in Namespaces : GetNamespace(w, n) \/ CheckIncumbent(w, n)
    \/ ListStale(w) \/ Discover(w) \/ GetSecret(w)
    \/ ListClaimants(w) \/ ListServers(w) \/ Create(w) \/ Update(w)
    \/ ListOwned(w)
    \/ \E c \in Clusters : \/ DeleteOrphan(w, c) \/ KeepDemoted(w, c)
                           \/ DeleteExpired(w, c) \/ Demote(w, c)
    \/ Return(w)

Fault(w) ==
    \/ \E n \in Namespaces : GetFails(w, n)
    \/ DiscoverFails(w) \/ CheckFails(w)
    \/ \E c \in Clusters : ItemError(w, c)
    \/ Abort(w) \/ Crash(w)

-----------------------------------------------------------------------------
(* Everything else that touches the cluster.  People and provisioners are   *)
(* limited to MaxEdits changes; finalization and the clock are not edits.   *)

Edit(kind) ==
    /\ kind \in Edits
    /\ edits < MaxEdits
    /\ edits' = edits + 1
    /\ UNCHANGED <<now, job>>

EditNamespace(n, ns) ==
    /\ namespaces' = [namespaces EXCEPT ![n] = ns]
    /\ UNCHANGED <<secrets, copies>>

EditSecret(c, s, how) ==
    /\ secrets' = [secrets EXCEPT ![c] = s]
    /\ copies' = Outdate(copies, c, how)
    /\ UNCHANGED sources

(* A name is reusable, a UID is not.                                        *)
CreateNamespace(n, c) ==
    /\ Edit("namespace")
    /\ namespaces[n] = None
    /\ EditNamespace(n, Fresh(uids[n] + 1, now, c))
    /\ uids' = [uids EXCEPT ![n] = @ + 1]
    /\ UNCHANGED kubeconfigs

DeleteNamespace(n) ==
    /\ Edit("namespace")
    /\ namespaces[n] # None
    /\ ~namespaces[n].terminating
    /\ EditNamespace(n, [namespaces[n] EXCEPT !.terminating = TRUE])
    /\ UNCHANGED <<kubeconfigs, uids>>

Finalize(n) ==
    /\ namespaces[n] # None
    /\ namespaces[n].terminating
    /\ EditNamespace(n, None)
    /\ kubeconfigs' = [kubeconfigs EXCEPT ![n] = None]
    /\ UNCHANGED <<uids, now, edits, job>>

(* Another cluster name on the namespace: how a cluster is renamed.         *)
Relabel(n, c) ==
    /\ Edit("relabel")
    /\ namespaces[n] # None
    /\ namespaces[n].cluster # c
    /\ EditNamespace(n, [namespaces[n] EXCEPT !.cluster = c])
    /\ UNCHANGED <<kubeconfigs, uids>>

(* The ownership label removed from the namespace, or put back.             *)
SetManaged(n) ==
    /\ Edit("unmanage")
    /\ namespaces[n] # None
    /\ EditNamespace(n, [namespaces[n] EXCEPT !.managed = ~@])
    /\ UNCHANGED <<kubeconfigs, uids>>

(* The provisioner writes the kubeconfig once the child's API is up.        *)
Provision(n, k) ==
    /\ namespaces[n] # None
    /\ kubeconfigs[n] = None
    /\ kubeconfigs' = [kubeconfigs EXCEPT ![n] = k]
    /\ UNCHANGED <<namespaces, uids, secrets, now, edits, worker>>

(* It rotates the child's credential or moves its server.                   *)
Reprovision(n, k) ==
    /\ Edit("kubeconfig")
    /\ kubeconfigs[n] \notin {None, k}
    /\ kubeconfigs' = [kubeconfigs EXCEPT ![n] = k]
    /\ UNCHANGED <<namespaces, uids, secrets, copies>>

(* prune=disabled set or removed by hand.                                   *)
SetPin(c) ==
    /\ Edit("pin")
    /\ secrets[c] # None
    /\ secrets[c].owned
    /\ EditSecret(c, [secrets[c] EXCEPT !.pinned = ~@], "rewritten")

(* One of our labels removed from a Secret by hand.                         *)
Strip(c) ==
    /\ Edit("strip")
    /\ secrets[c] # None
    /\ \E s \in {[secrets[c] EXCEPT !.source = None], [secrets[c] EXCEPT !.uid = None],
                 [secrets[c] EXCEPT !.named = FALSE], [secrets[c] EXCEPT !.since = None]} :
           s # secrets[c] /\ EditSecret(c, s, "rewritten")

HandRemove(c) ==
    /\ Edit("remove")
    /\ secrets[c] # None
    /\ EditSecret(c, None, "replaced")

(* The same Secret deleted and created again, as a restore from backup or   *)
(* kubectl replace --force does: its content is the same, its UID is not.   *)
HandReplace(c) ==
    /\ Edit("replace")
    /\ secrets[c] # None
    /\ EditSecret(c, secrets[c], "replaced")

(* A cluster Secret that is not this registrar's.                           *)
HandCreate(c, k) ==
    /\ Edit("foreign")
    /\ secrets[c] = None
    /\ EditSecret(c, [owned |-> FALSE, source |-> None, uid |-> None, named |-> FALSE,
                      state |-> "active", since |-> None, pinned |-> FALSE, kube |-> k],
                  "replaced")

Tick ==
    /\ now < MaxTime
    /\ now' = now + 1
    /\ UNCHANGED <<sources, secrets, edits, worker>>

Environment ==
    \/ \E n \in Namespaces :
           \/ \E c \in Clusters \cup {None} : Relabel(n, c) \/ CreateNamespace(n, c)
           \/ \E k \in Kubeconfigs : Provision(n, k) \/ Reprovision(n, k)
           \/ DeleteNamespace(n) \/ Finalize(n) \/ SetManaged(n)
    \/ \E c \in Clusters :
           \/ \E k \in Kubeconfigs : HandCreate(c, k)
           \/ SetPin(c) \/ Strip(c) \/ HandRemove(c) \/ HandReplace(c)
    \/ Tick

-----------------------------------------------------------------------------
(* Nothing is registered yet; each namespace is there with some cluster and *)
(* kubeconfig, or not there.                                                *)
Init ==
    /\ namespaces \in [Namespaces -> {None} \cup {Fresh(1, 0, c) : c \in Clusters}]
    /\ kubeconfigs \in [Namespaces -> Kubeconfigs \cup {None}]
    /\ \A n \in Namespaces : namespaces[n] = None <=> kubeconfigs[n] = None
    /\ uids = [n \in Namespaces |-> 1]
    /\ secrets = [c \in Clusters |-> None]
    /\ now = 0
    /\ edits = 0
    /\ job = [w \in Workers |-> Idle]
    /\ copies = [w \in Workers |-> Nothing]

Next == (\E w \in Workers : Progress(w) \/ Fault(w)) \/ Environment

Spec == Init /\ [][Next]_vars

-----------------------------------------------------------------------------
(* Properties.                                                             *)

(* Every variable has its type; a worker between passes remembers nothing,  *)
(* and one inside a loop holds the Secret of every item it has left.        *)
TypeOK ==
    /\ namespaces \in [Namespaces -> Namespace \cup {None}]
    /\ kubeconfigs \in [Namespaces -> Kubeconfigs \cup {None}]
    /\ uids \in [Namespaces -> Nat]
    /\ secrets \in [Clusters -> Registration \cup {None}]
    /\ now \in Nat
    /\ edits \in Nat
    /\ job \in [Workers -> Job]
    /\ copies \in [Workers -> [Clusters -> Copy \cup {None}]]
    /\ \A w \in Workers :
           /\ job[w].pc \in {"idle"} \cup Outcomes => copies[w] = Nothing
           /\ job[w].pc \in {"stale-delete", "collect"} =>
                  \A c \in job[w].todo : copies[w][c] # None

(* A step of some worker, as opposed to an outside change.                  *)
WorkerStep == job' # job

(* The namespace a registration records is gone, or its name belongs to     *)
(* another object by now.                                                   *)
SourceGone(s) ==
    \/ namespaces[s.source] = None
    \/ namespaces[s.source].uid # s.uid

(* checkOwnership's incumbency, whatever the interleaving of workers: no    *)
(* step of the registrar writes a Secret it does not own, changes the       *)
(* source a Secret records, or adopts one that records no source and names  *)
(* another cluster.                                                         *)
NoTakeover ==
    [][WorkerStep =>
         \A c \in Clusters :
            LET s == secrets[c]
                t == secrets'[c]
            IN  s # None /\ t # None /\ s # t =>
                    /\ s.owned
                    /\ IF s.source = None THEN s.named ELSE t.source = s.source]_vars

(* "A registration is removed only on evidence that its source is gone":    *)
(* when a Secret is deleted the namespace it records is gone or replaced,   *)
(* or the registration is demoted and older than the TTL, at that moment.   *)
(* A Secret whose source or UID label somebody removed is not judged.       *)
RemovalNeedsProof ==
    [][WorkerStep =>
         \A c \in Clusters :
            LET s == secrets[c]
            IN  /\ s # None
                /\ secrets'[c] = None
                /\ s.source # None
                /\ s.uid # None
                => SourceGone(s) \/ (s.state = "demoted" /\ Expired(s))]_vars

(* Why deleteExpired carries the resourceVersion: with the namespace there, *)
(* collection never deletes a registration that a reverted rename restored  *)
(* or somebody pinned since it was listed, however many workers there are.  *)
ExpiryRechecked ==
    [][\A w \in Workers, c \in Clusters :
         /\ job[w].pc = "collect"
         /\ ~ProvenGone(job[w])
         /\ job'[w] # job[w]
         /\ secrets[c] # None
         /\ secrets'[c] = None
         => /\ secrets[c].state = "demoted"
            /\ Expired(secrets[c])
            /\ ~secrets[c].pinned]_vars

(* A pinned registration is neither demoted nor unpinned by any worker, and *)
(* is deleted only if the pin was set after that worker had listed it.      *)
PinSurvives ==
    [][\A w \in Workers, c \in Clusters :
         /\ job'[w] # job[w]
         /\ secrets[c] # None
         /\ secrets[c].pinned
         => IF secrets'[c] = None
            THEN /\ copies[w][c] # None
                 /\ ~copies[w][c].obj.pinned
                 /\ copies[w][c].version = "rewritten"
            ELSE /\ secrets'[c].pinned
                 /\ secrets[c].state = "active" => secrets'[c].state = "active"]_vars

(* The README's promise about the pin: neither deletion nor demotion will   *)
(* touch a pinned registration.                                             *)
PinNeverRemoved ==
    [][\A c \in Clusters :
         /\ WorkerStep
         /\ secrets[c] # None
         /\ secrets[c].pinned
         => secrets'[c] # None]_vars

(* A key is dropped only when the namespace owns nothing any more: nothing  *)
(* would ever enqueue it again for a Secret left behind.                    *)
FinishedOwnsNothing ==
    \A w \in Workers : job[w].pc = "finished" => Recorded(job[w].key) = {}

(* A step takes a registration out of ArgoCD's sight although no other live *)
(* one records the same namespace.                                          *)
HidesTheOnlyOne ==
    \E c \in Clusters :
        /\ WorkerStep
        /\ secrets[c] # None
        /\ secrets'[c] # None
        /\ secrets[c].state = "active"
        /\ secrets'[c].state = "demoted"
        /\ \A d \in Recorded(secrets[c].source) \ {c} : secrets[d].state # "active"

(* The live registrations whose source namespace is the one they record.    *)
Rightful(c) ==
    /\ secrets[c] # None
    /\ secrets[c].owned
    /\ secrets[c].state = "active"
    /\ secrets[c].source # None
    /\ secrets[c].uid # None
    /\ ~SourceGone(secrets[c])

(* claimServer: whenever a pass takes an address for a Secret, by creating  *)
(* it or by moving it there, no live registration of another namespace      *)
(* that still exists has that address at that moment, although the list     *)
(* and the namespace reads the decision rests on are older.                 *)
ClaimsFreeAddress ==
    [][WorkerStep =>
         \A c \in Clusters :
            LET s == secrets[c]
                t == secrets'[c]
            IN  /\ t # None
                /\ t.state = "active"
                /\ s = None \/ Address[s.kube] # Address[t.kube]
                => \A d \in Clusters :
                      Rightful(d) /\ secrets[d].source # t.source =>
                          Address[secrets[d].kube] # Address[t.kube]]_vars

(* No two live registrations of two existing namespaces share an address.   *)
AddressUnique ==
    \A c, d \in Clusters :
        Rightful(c) /\ Rightful(d) /\ secrets[c].source # secrets[d].source =>
            Address[secrets[c].kube] # Address[secrets[d].kube]

-----------------------------------------------------------------------------
(* The inductive invariant behind NoTakeover, PinSurvives and               *)
(* ExpiryRechecked.                                                         *)

Resting == {"idle"} \cup Outcomes
Applying == {"get-secret", "claimants", "servers", "incumbents", "write"}
Loops == {"stale-delete", "collect"}

(* What a worker doing j and holding held knows, whatever the cluster looks *)
(* like by now: which namespace it acts for, that the Secret it is about to *)
(* update was its to write when read, that what it is about to remove was   *)
(* recorded against its namespace and not pinned when listed.               *)
WorkerOK(j, held) ==
    /\ j.pc \in Resting => held = Nothing
    /\ j.pc \notin Resting => j.key \in Namespaces
    /\ j.pc \in {"stale-list", "stale-delete", "discover"} \cup Applying => j.ns \in Namespace
    /\ j.pc \in Applying =>
           /\ j.ns.cluster \in Clusters
           /\ j.kube \in Kubeconfigs
           /\ held[j.ns.cluster] # None => MayWrite(held[j.ns.cluster].obj, j.key)
    /\ j.pc \in Loops =>
           \A c \in j.todo : /\ held[c] # None
                             /\ held[c].obj.owned
                             /\ held[c].obj.source = j.key
                             /\ ~held[c].obj.pinned

(* A copy counted as current is the Secret: the resourceVersion a write     *)
(* carries stands for the whole object.                                     *)
CopiesFaithful(held, live) ==
    \A c \in Clusters : held[c] # None /\ held[c].version = "current" => live[c] = held[c].obj

IInv ==
    /\ TypeOK
    /\ \A w \in Workers : WorkerOK(job[w], copies[w]) /\ CopiesFaithful(copies[w], secrets)

=============================================================================
