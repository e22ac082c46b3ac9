--------------------------- MODULE ReconcileProofs ---------------------------
(***************************************************************************)
(* What Reconcile guarantees for any set of namespaces, clusters and       *)
(* workers, any bound and any TTL.  The inductive invariant IInv speaks of *)
(* each worker alone (WorkerOK) and of the copies it holds                 *)
(* (CopiesFaithful), so a step of the registrar needs one fact about the   *)
(* worker that takes it, and the two lemmas on Turn and Put do the rest.   *)
(*                                                                         *)
(* The second part shows that Reconcile implements Registry.               *)
(***************************************************************************)
EXTENDS Refinement, TLAPS

(* A rewritten or replaced copy is the copy it was, but for the version.    *)
LEMMA MarkedCopy ==
    ASSUME NEW cp \in Copy \cup {None}, NEW how \in {"rewritten", "replaced"}
    PROVE  /\ Marked(cp, how) \in Copy \cup {None}
           /\ Marked(cp, how) = None <=> cp = None
           /\ cp # None => /\ Marked(cp, how).obj = cp.obj
                           /\ Marked(cp, how).version # "current"
<1>1. CASE cp = None
  BY <1>1 DEF Marked
<1>2. CASE cp # None
  BY <1>2, AbsentAssumption DEF Marked, Copy
<1> QED BY <1>1, <1>2

LEMMA OutdateCopies ==
    ASSUME NEW cps \in [Workers -> [Clusters -> Copy \cup {None}]],
           NEW d \in Clusters, NEW how \in {"rewritten", "replaced"}
    PROVE  /\ Outdate(cps, d, how) \in [Workers -> [Clusters -> Copy \cup {None}]]
           /\ \A w \in Workers : \A c \in Clusters :
                 Outdate(cps, d, how)[w][c] = IF c = d THEN Marked(cps[w][d], how) ELSE cps[w][c]
<1>1. ASSUME NEW w \in Workers
      PROVE  [cps[w] EXCEPT ![d] = Marked(cps[w][d], how)] \in [Clusters -> Copy \cup {None}]
  BY MarkedCopy
<1> QED BY <1>1 DEF Outdate

(* The typing of the shared state alone.                                    *)
SharedOK ==
    /\ namespaces \in [Namespaces -> Namespace \cup {None}]
    /\ kubeconfigs \in [Namespaces -> Kubeconfigs \cup {None}]
    /\ uids \in [Namespaces -> Nat]
    /\ secrets \in [Clusters -> Registration \cup {None}]
    /\ now \in Nat
    /\ edits \in Nat

(* IInv, worker by worker.                                                  *)
LEMMA Unfold ==
    IInv <=> /\ SharedOK
             /\ job \in [Workers -> Job]
             /\ copies \in [Workers -> [Clusters -> Copy \cup {None}]]
             /\ \A w \in Workers : WorkerOK(job[w], copies[w]) /\ CopiesFaithful(copies[w], secrets)
BY DEF IInv, TypeOK, SharedOK, WorkerOK, Resting, Loops

LEMMA NothingHeld ==
    /\ Nothing \in [Clusters -> Copy \cup {None}]
    /\ \A live : CopiesFaithful(Nothing, live)
BY DEF Nothing, CopiesFaithful

(* A step that writes nothing keeps IInv if the worker is all right after   *)
(* it.                                                                      *)
LEMMA TurnInv ==
    ASSUME IInv, NEW w \in Workers, NEW j \in Job,
           NEW held \in [Clusters -> Copy \cup {None}],
           Turn(w, j, held), WorkerOK(j, Held(j, held)), CopiesFaithful(held, secrets)
    PROVE  IInv'
<1> DEFINE kept == Held(j, held)
<1>1. kept \in [Clusters -> Copy \cup {None}] /\ CopiesFaithful(kept, secrets)
  BY NothingHeld DEF Held
<1>2. SharedOK'
  BY Unfold DEF Turn, SharedOK, sources
<1>3. /\ job' = [job EXCEPT ![w] = j]
      /\ copies' = [copies EXCEPT ![w] = kept]
      /\ secrets' = secrets
  BY DEF Turn
<1>4. job' \in [Workers -> Job] /\ copies' \in [Workers -> [Clusters -> Copy \cup {None}]]
  BY <1>1, <1>3, Unfold
<1>5. ASSUME NEW x \in Workers
      PROVE  WorkerOK(job'[x], copies'[x]) /\ CopiesFaithful(copies'[x], secrets')
  <2>1. CASE x = w
    <3>1. job'[x] = j /\ copies'[x] = kept
      BY <2>1, <1>3, Unfold
    <3> QED BY <3>1, <1>1, <1>3 DEF CopiesFaithful
  <2>2. CASE x # w
    <3>1. job'[x] = job[x] /\ copies'[x] = copies[x]
      BY <2>2, <1>3, Unfold
    <3> QED BY <3>1, <1>3, Unfold DEF CopiesFaithful
  <2> QED BY <2>1, <2>2
<1> QED BY <1>2, <1>4, <1>5 DEF IInv, TypeOK, SharedOK, WorkerOK, Resting, Loops

(* Outdating the copies of a Secret that has just become v leaves a worker  *)
(* as knowing, and the copies as faithful, as they were.                    *)
LEMMA OutdateKeeps ==
    ASSUME NEW cps \in [Workers -> [Clusters -> Copy \cup {None}]],
           NEW live \in [Clusters -> Registration \cup {None}],
           NEW d \in Clusters, NEW how \in {"rewritten", "replaced"}, NEW v,
           NEW w \in Workers, NEW j \in Job,
           WorkerOK(j, cps[w]),
           \A c \in Clusters \ {d} :
               cps[w][c] # None /\ cps[w][c].version = "current" => live[c] = cps[w][c].obj
    PROVE  /\ WorkerOK(j, Outdate(cps, d, how)[w])
           /\ CopiesFaithful(Outdate(cps, d, how)[w], [live EXCEPT ![d] = v])
<1> DEFINE held == Outdate(cps, d, how)[w]
<1>1. ASSUME NEW c \in Clusters
      PROVE  /\ held[c] = None <=> cps[w][c] = None
             /\ held[c] # None => held[c].obj = cps[w][c].obj
             /\ c # d => held[c] = cps[w][c]
             /\ held[d] # None => held[d].version # "current"
  <2>1. held[c] = IF c = d THEN Marked(cps[w][d], how) ELSE cps[w][c]
    BY OutdateCopies
  <2>2. held[d] = Marked(cps[w][d], how)
    BY OutdateCopies
  <2>3. cps[w][d] \in Copy \cup {None}
    OBVIOUS
  <2> QED BY <2>1, <2>2, <2>3, MarkedCopy
<1>2. held \in [Clusters -> Copy \cup {None}]
  BY OutdateCopies
<1>3. cps[w] = Nothing => held = Nothing
  BY <1>1, <1>2 DEF Nothing
<1>4. WorkerOK(j, held)
  BY <1>1, <1>3 DEF WorkerOK, Job, Loops
<1>5. CopiesFaithful(held, [live EXCEPT ![d] = v])
  BY <1>1 DEF CopiesFaithful
<1> QED BY <1>4, <1>5

(* A step of a worker that writes a Secret keeps IInv if the worker is all  *)
(* right after it: the copies the others hold of that Secret are outdated.  *)
LEMMA PutInv ==
    ASSUME IInv, NEW w \in Workers, NEW d \in Clusters, NEW j \in Job,
           NEW v \in Registration \cup {None}, NEW how \in {"rewritten", "replaced"},
           Put(w, d, v, how, j),
           WorkerOK(j, Held(j, [copies[w] EXCEPT ![d] = None]))
    PROVE  IInv'
<1> DEFINE kept == Held(j, [copies[w] EXCEPT ![d] = None])
           cps == [copies EXCEPT ![w] = kept]
<1>1. kept \in [Clusters -> Copy \cup {None}]
  BY Unfold, NothingHeld DEF Held
<1>2. cps \in [Workers -> [Clusters -> Copy \cup {None}]]
  BY <1>1, Unfold
<1>3. /\ job' = [job EXCEPT ![w] = j]
      /\ copies' = Outdate(cps, d, how)
      /\ secrets' = [secrets EXCEPT ![d] = v]
  BY DEF Put
<1>4. SharedOK'
  BY <1>3, Unfold DEF Put, SharedOK, sources
<1>5. job' \in [Workers -> Job] /\ copies' \in [Workers -> [Clusters -> Copy \cup {None}]]
  BY <1>2, <1>3, Unfold, OutdateCopies
<1>6. ASSUME NEW x \in Workers
      PROVE  WorkerOK(job'[x], copies'[x]) /\ CopiesFaithful(copies'[x], secrets')
  <2>1. job'[x] \in Job
    BY <1>5
  <2>2. WorkerOK(job'[x], cps[x])
    BY <1>3, Unfold
  <2>3. \A c \in Clusters \ {d} :
            cps[x][c] # None /\ cps[x][c].version = "current" => secrets[c] = cps[x][c].obj
    BY Unfold, NothingHeld DEF CopiesFaithful, Held
  <2>4. secrets \in [Clusters -> Registration \cup {None}]
    BY Unfold DEF SharedOK
  <2> QED BY <1>2, <1>3, <2>1, <2>2, <2>3, <2>4, OutdateKeeps
<1> QED BY <1>4, <1>5, <1>6 DEF IInv, TypeOK, SharedOK, WorkerOK, Resting, Loops

(* So does an outside change to a Secret.                                   *)
LEMMA EditSecretInv ==
    ASSUME IInv, NEW d \in Clusters, NEW v \in Registration \cup {None},
           NEW how \in {"rewritten", "replaced"},
           EditSecret(d, v, how), UNCHANGED <<now, job>>, edits' \in Nat
    PROVE  IInv'
<1>1. /\ job' = job
      /\ copies' = Outdate(copies, d, how)
      /\ secrets' = [secrets EXCEPT ![d] = v]
  BY DEF EditSecret
<1>2. SharedOK'
  BY <1>1, Unfold DEF EditSecret, SharedOK, sources
<1>3. job' \in [Workers -> Job] /\ copies' \in [Workers -> [Clusters -> Copy \cup {None}]]
  BY <1>1, Unfold, OutdateCopies
<1>4. ASSUME NEW x \in Workers
      PROVE  WorkerOK(job'[x], copies'[x]) /\ CopiesFaithful(copies'[x], secrets')
  <2>1. /\ copies \in [Workers -> [Clusters -> Copy \cup {None}]]
        /\ secrets \in [Clusters -> Registration \cup {None}]
        /\ job[x] \in Job
        /\ WorkerOK(job[x], copies[x])
        /\ \A c \in Clusters \ {d} :
              copies[x][c] # None /\ copies[x][c].version = "current" =>
                  secrets[c] = copies[x][c].obj
    BY Unfold DEF SharedOK, CopiesFaithful
  <2> QED BY <1>1, <2>1, OutdateKeeps
<1> QED BY <1>2, <1>3, <1>4 DEF IInv, TypeOK, SharedOK, WorkerOK, Resting, Loops

(* A step outside the registrar that leaves the Secrets alone.              *)
LEMMA SourcesInv ==
    ASSUME IInv, SharedOK', UNCHANGED <<secrets, job, copies>>
    PROVE  IInv'
BY Unfold DEF IInv, TypeOK, SharedOK, WorkerOK, Resting, Loops

-----------------------------------------------------------------------------
(* The ways a worker's step can leave it.                                   *)

(* A pass that ends, or a worker that goes back to waiting.                 *)
LEMMA RestInv ==
    ASSUME IInv, NEW w \in Workers, NEW n \in Namespaces, NEW o \in Outcomes, NEW held,
           Turn(w, Ended(n, o), held) \/ Turn(w, Idle, Nothing)
    PROVE  IInv'
<1>1. CASE Turn(w, Ended(n, o), held)
  <2>1. Ended(n, o) \in Job /\ Ended(n, o).pc \in Outcomes
    BY DEF Ended, Idle, Job, Phases, Outcomes
  <2>2. Turn(w, Ended(n, o), Nothing)
    BY <1>1, <2>1 DEF Turn, Held
  <2>3. WorkerOK(Ended(n, o), Held(Ended(n, o), Nothing))
    BY <2>1 DEF Held, WorkerOK, Resting, Outcomes, Applying, Loops
  <2> QED BY <2>1, <2>2, <2>3, NothingHeld, TurnInv
<1>2. CASE Turn(w, Idle, Nothing)
  <2>1. Idle \in Job /\ Idle.pc = "idle"
    BY DEF Idle, Job, Phases, Outcomes
  <2>2. WorkerOK(Idle, Held(Idle, Nothing))
    BY <2>1 DEF Held, WorkerOK, Resting, Outcomes, Applying, Loops
  <2> QED BY <1>2, <2>1, <2>2, NothingHeld, TurnInv
<1> QED BY <1>1, <1>2

(* A worker at work knows its namespace.                                    *)
LEMMA AtWork ==
    ASSUME IInv, NEW w \in Workers
    PROVE  /\ job[w] \in Job
           /\ copies[w] \in [Clusters -> Copy \cup {None}]
           /\ WorkerOK(job[w], copies[w])
           /\ CopiesFaithful(copies[w], secrets)
           /\ secrets \in [Clusters -> Registration \cup {None}]
           /\ job[w].pc \notin Resting => job[w].key \in Namespaces
BY Unfold DEF SharedOK, WorkerOK

(* The copies of Secrets just read are faithful.                            *)
LEMMA HoldingFaithful ==
    ASSUME IInv, NEW S \in SUBSET Clusters, \A c \in S : secrets[c] # None
    PROVE  /\ Holding(S) \in [Clusters -> Copy \cup {None}]
           /\ CopiesFaithful(Holding(S), secrets)
           /\ \A c \in S : Holding(S)[c] # None /\ Holding(S)[c].obj = secrets[c]
<1>1. secrets \in [Clusters -> Registration \cup {None}]
  BY Unfold DEF SharedOK
<1>2. \A c \in S : [obj |-> secrets[c], version |-> "current"] \in Copy
  BY <1>1 DEF Copy
<1>3. \A c \in S : [obj |-> secrets[c], version |-> "current"] # None
  BY <1>2, AbsentAssumption
<1> QED BY <1>2, <1>3 DEF Holding, CopiesFaithful

(* The items of a loop, one done.                                           *)
LEMMA ItemDoneOK ==
    ASSUME NEW j \in Job, NEW held \in [Clusters -> Copy \cup {None}], NEW c \in Clusters,
           WorkerOK(j, held), j.pc \in Loops
    PROVE  /\ ItemDone(j, c) \in Job
           /\ WorkerOK(ItemDone(j, c), Held(ItemDone(j, c), [held EXCEPT ![c] = None]))
<1> DEFINE left == [j EXCEPT !.todo = @ \ {c}]
<1>1. /\ left \in Job
      /\ left.pc = j.pc /\ left.key = j.key /\ left.ns = j.ns
      /\ left.todo = j.todo \ {c}
  BY DEF Job
<1>2. j.key \in Namespaces
  BY DEF WorkerOK, Resting, Loops, Outcomes
<1>3. CASE left.todo # {}
  <2>1. ItemDone(j, c) = left
    BY <1>3 DEF ItemDone
  <2>2. Held(left, [held EXCEPT ![c] = None]) = [held EXCEPT ![c] = None]
    BY <1>1 DEF Held, Loops, Outcomes
  <2>3. \A d \in left.todo : d # c /\ d \in j.todo /\ d \in Clusters
    BY <1>1 DEF Job
  <2>4. WorkerOK(left, [held EXCEPT ![c] = None])
    BY <1>1, <1>2, <2>3 DEF WorkerOK, Resting, Loops, Outcomes, Applying
  <2> QED BY <1>1, <2>1, <2>2, <2>4
<1>4. CASE left.todo = {} /\ j.pc = "stale-delete" /\ j.outcome # "failed"
  <2> DEFINE on == [left EXCEPT !.pc = "discover"]
  <2>1. ItemDone(j, c) = on
    BY <1>4 DEF ItemDone
  <2>2. on \in Job /\ on.pc = "discover" /\ on.key = j.key /\ on.ns = j.ns
    BY <1>1 DEF Job, Phases
  <2>3. Held(on, [held EXCEPT ![c] = None]) = [held EXCEPT ![c] = None]
    BY <2>2 DEF Held, Outcomes
  <2>4. WorkerOK(on, [held EXCEPT ![c] = None])
    BY <1>2, <1>4, <2>2 DEF WorkerOK, Resting, Loops, Outcomes, Applying
  <2> QED BY <2>1, <2>2, <2>3, <2>4
<1>5. CASE left.todo = {} /\ ~(j.pc = "stale-delete" /\ j.outcome # "failed")
  <2>1. ItemDone(j, c) = Ended(j.key, j.outcome)
    BY <1>5 DEF ItemDone
  <2>2. /\ Ended(j.key, j.outcome) \in Job
        /\ Ended(j.key, j.outcome).pc \in Outcomes
    BY <1>2 DEF Ended, Idle, Job, Phases, Outcomes
  <2> QED BY <2>1, <2>2 DEF Held, WorkerOK, Resting, Outcomes, Applying, Loops
<1> QED BY <1>3, <1>4, <1>5

(* The items of a loop, one kept or failed.                                 *)
LEMMA ItemLeftOK ==
    ASSUME NEW j \in Job, NEW held \in [Clusters -> Copy \cup {None}], NEW c \in Clusters,
           WorkerOK(j, held), j.pc \in Loops
    PROVE  /\ ItemKept(j, c) \in Job
           /\ WorkerOK(ItemKept(j, c), Held(ItemKept(j, c), [held EXCEPT ![c] = None]))
           /\ ItemFailed(j, c) \in Job
           /\ WorkerOK(ItemFailed(j, c), Held(ItemFailed(j, c), [held EXCEPT ![c] = None]))
<1>1. ASSUME NEW o \in Outcomes
      PROVE  LET k == [j EXCEPT !.outcome = o]
             IN  k \in Job /\ k.pc \in Loops /\ WorkerOK(k, held)
  BY DEF Job, WorkerOK
<1>2. "requeue" \in Outcomes /\ "failed" \in Outcomes /\ j.outcome \in Outcomes
  BY DEF Outcomes, Job
<1>3. /\ ItemKept(j, c) = ItemDone([j EXCEPT !.outcome =
                             IF j.outcome = "finished" THEN "requeue" ELSE j.outcome], c)
      /\ ItemFailed(j, c) = ItemDone([j EXCEPT !.outcome = "failed"], c)
  BY DEF ItemKept, ItemFailed
<1> QED BY <1>1, <1>2, <1>3, ItemDoneOK

-----------------------------------------------------------------------------
(* Every step keeps IInv: the reads of a pass, its writes, its loops, and   *)
(* what happens outside.                                                    *)

LEMMA ReadInv ==
    ASSUME IInv, NEW w \in Workers, NEW n \in Namespaces,
           \/ GetNamespace(w, n) \/ ListStale(w) \/ Discover(w) \/ GetSecret(w)
           \/ ListClaimants(w) \/ ListServers(w) \/ CheckIncumbent(w, n) \/ ListOwned(w)
    PROVE  IInv'
<1> DEFINE j == job[w]
<1>0. /\ j \in Job
      /\ copies[w] \in [Clusters -> Copy \cup {None}]
      /\ WorkerOK(j, copies[w])
      /\ CopiesFaithful(copies[w], secrets)
      /\ secrets \in [Clusters -> Registration \cup {None}]
      /\ j.pc \notin Resting => j.key \in Namespaces
  BY AtWork
<1>a. \A o \in {"requeue", "finished", "failed"} : o \in Outcomes
  BY DEF Outcomes
<1>1. CASE GetNamespace(w, n)
  <2> DEFINE ns == namespaces[n]
             start == [Idle EXCEPT !.key = n, !.ns = ns]
  <2>1. ns \in Namespace \cup {None}
    BY Unfold DEF SharedOK
  <2>2. CASE \E o \in Outcomes : Turn(w, Ended(n, o), Nothing)
    BY <2>2, RestInv
  <2>3. CASE \E pc \in {"list", "stale-list"} :
                /\ pc = "stale-list" => ns # None
                /\ Turn(w, [start EXCEPT !.pc = pc], Nothing)
    <3>1. PICK pc \in {"list", "stale-list"} :
                /\ pc = "stale-list" => ns # None
                /\ Turn(w, [start EXCEPT !.pc = pc], Nothing)
      BY <2>3
    <3>2. [start EXCEPT !.pc = pc] \in Job
      BY <2>1 DEF Idle, Job, Phases, Outcomes
    <3>3. WorkerOK([start EXCEPT !.pc = pc], Nothing)
      BY <2>1, <3>1 DEF Idle, WorkerOK, Resting, Outcomes, Applying, Loops
    <3>4. Held([start EXCEPT !.pc = pc], Nothing) = Nothing
      BY DEF Held
    <3> QED BY <3>1, <3>2, <3>3, <3>4, NothingHeld, TurnInv
  <2> QED BY <1>1, <1>a, <2>2, <2>3 DEF GetNamespace
<1>2. CASE ListStale(w)
  <2> DEFINE stale == {c \in Predecessors(j) : ~secrets[c].pinned}
             k == [j EXCEPT !.pc = IF stale = {} THEN "discover" ELSE "stale-delete",
                            !.todo = stale]
  <2>1. j.pc = "stale-list" /\ Turn(w, k, Holding(stale))
    BY <1>2 DEF ListStale
  <2>2. stale \in SUBSET Clusters /\ \A c \in stale : secrets[c] # None
    BY DEF Predecessors, Recorded
  <2>3. k \in Job /\ k.key = j.key /\ k.ns = j.ns /\ k.todo = stale
        /\ k.pc \in {"discover", "stale-delete"}
    BY <1>0, <2>2 DEF Job, Phases
  <2>4. Held(k, Holding(stale)) = Holding(stale)
    BY <2>3 DEF Held, Outcomes
  <2>5. \A c \in stale : /\ Holding(stale)[c] # None
                         /\ Holding(stale)[c].obj.owned
                         /\ Holding(stale)[c].obj.source = j.key
                         /\ ~Holding(stale)[c].obj.pinned
    BY <2>2, HoldingFaithful DEF Predecessors, Recorded
  <2>6. WorkerOK(k, Holding(stale))
    BY <1>0, <2>1, <2>3, <2>5 DEF WorkerOK, Resting, Outcomes, Applying, Loops
  <2> QED BY <2>1, <2>2, <2>3, <2>4, <2>6, HoldingFaithful, TurnInv
<1>3. CASE Discover(w)
  <2> DEFINE k == [j EXCEPT !.pc = "get-secret", !.kube = kubeconfigs[j.key]]
  <2>0. j.pc = "discover" /\ j.key \in Namespaces
    BY <1>0, <1>3 DEF Discover, Resting, Outcomes
  <2>1. CASE Turn(w, Ended(j.key, "requeue"), Nothing)
    BY <2>0, <2>1, <1>a, RestInv
  <2>2. CASE j.ns.cluster # None /\ kubeconfigs[j.key] # None /\ Turn(w, k, Nothing)
    <3>1. kubeconfigs[j.key] \in Kubeconfigs
      BY <2>0, <2>2, Unfold DEF SharedOK
    <3>2. j.ns \in Namespace /\ j.ns.cluster \in Clusters
      BY <1>0, <2>0, <2>2 DEF WorkerOK, Namespace
    <3>3. k \in Job /\ k.key = j.key /\ k.ns = j.ns /\ k.pc = "get-secret"
          /\ k.kube \in Kubeconfigs
      BY <1>0, <3>1 DEF Job, Phases
    <3>4. WorkerOK(k, Nothing)
      BY <2>0, <3>2, <3>3 DEF WorkerOK, Resting, Outcomes, Applying, Loops, Nothing
    <3>5. Held(k, Nothing) = Nothing
      BY DEF Held
    <3> QED BY <2>2, <3>3, <3>4, <3>5, NothingHeld, TurnInv
  <2> QED BY <1>3, <2>1, <2>2 DEF Discover
<1>4. CASE GetSecret(w)
  <2> DEFINE c == j.ns.cluster
  <2>0. /\ j.pc = "get-secret" /\ j.key \in Namespaces
        /\ j.ns \in Namespace /\ c \in Clusters /\ j.kube \in Kubeconfigs
    BY <1>0, <1>4 DEF GetSecret, WorkerOK, Resting, Outcomes, Applying
  <2>1. CASE Turn(w, Refused(j), Nothing)
    BY <2>0, <2>1, <1>a, RestInv DEF Refused
  <2>2. CASE \E pc \in {"claimants", "list"} : Turn(w, [j EXCEPT !.pc = pc], Nothing)
    <3>1. PICK pc \in {"claimants", "list"} : Turn(w, [j EXCEPT !.pc = pc], Nothing)
      BY <2>2
    <3>2. [j EXCEPT !.pc = pc] \in Job
      BY <1>0 DEF Job, Phases
    <3>3. WorkerOK([j EXCEPT !.pc = pc], Nothing)
      BY <1>0, <2>0 DEF Job, WorkerOK, Resting, Outcomes, Applying, Loops, Nothing
    <3>4. Held([j EXCEPT !.pc = pc], Nothing) = Nothing
      BY DEF Held
    <3> QED BY <3>1, <3>2, <3>3, <3>4, NothingHeld, TurnInv
  <2>3. CASE /\ secrets[c] # None
             /\ MayWrite(secrets[c], j.key)
             /\ \E pc \in {"servers", "write"} : Turn(w, [j EXCEPT !.pc = pc], Holding({c}))
    <3>1. PICK pc \in {"servers", "write"} : Turn(w, [j EXCEPT !.pc = pc], Holding({c}))
      BY <2>3
    <3> DEFINE k == [j EXCEPT !.pc = pc]
    <3>2. k \in Job /\ k.key = j.key /\ k.ns = j.ns /\ k.kube = j.kube
          /\ k.pc \in {"servers", "write"}
      BY <1>0 DEF Job, Phases
    <3>3. /\ Holding({c}) \in [Clusters -> Copy \cup {None}]
          /\ CopiesFaithful(Holding({c}), secrets)
          /\ Holding({c})[c] # None /\ Holding({c})[c].obj = secrets[c]
      BY <2>0, <2>3, HoldingFaithful
    <3>4. WorkerOK(k, Holding({c}))
      BY <2>0, <2>3, <3>2, <3>3 DEF WorkerOK, Resting, Outcomes, Applying, Loops
    <3>5. Held(k, Holding({c})) = Holding({c})
      BY <3>2 DEF Held, Outcomes
    <3> QED BY <3>1, <3>2, <3>3, <3>4, <3>5, TurnInv
  <2> QED BY <1>4, <2>1, <2>2, <2>3 DEF GetSecret
<1>5. CASE ListClaimants(w) \/ ListServers(w) \/ CheckIncumbent(w, n)
  <2>0. /\ j.pc \in {"claimants", "servers", "incumbents"} /\ j.key \in Namespaces
        /\ j.ns \in Namespace /\ j.ns.cluster \in Clusters /\ j.kube \in Kubeconfigs
    BY <1>0, <1>5 DEF ListClaimants, ListServers, CheckIncumbent, WorkerOK, Resting, Outcomes,
                      Applying
  <2>1. CASE \E held : Turn(w, Refused(j), held)
    BY <2>0, <2>1, <1>a, RestInv DEF Refused
  <2>2. CASE \E pc \in {"servers", "incumbents", "write"}, r \in SUBSET Namespaces,
                held \in {Nothing, copies[w]} :
                   Turn(w, [j EXCEPT !.pc = pc, !.rivals = r], held)
    <3>1. PICK pc \in {"servers", "incumbents", "write"}, r \in SUBSET Namespaces,
                held \in {Nothing, copies[w]} :
                   Turn(w, [j EXCEPT !.pc = pc, !.rivals = r], held)
      BY <2>2
    <3> DEFINE k == [j EXCEPT !.pc = pc, !.rivals = r]
    <3>2. k \in Job /\ k.key = j.key /\ k.ns = j.ns /\ k.kube = j.kube /\ k.pc = pc
      BY <1>0 DEF Job, Phases
    <3>3. held \in [Clusters -> Copy \cup {None}] /\ CopiesFaithful(held, secrets)
      BY <1>0, NothingHeld
    <3>4. held[j.ns.cluster] # None => MayWrite(held[j.ns.cluster].obj, j.key)
      BY <1>0, <2>0 DEF WorkerOK, Applying, Nothing
    <3>5. WorkerOK(k, held)
      BY <2>0, <3>2, <3>4 DEF WorkerOK, Resting, Outcomes, Applying, Loops
    <3>6. Held(k, held) = held
      BY <3>2 DEF Held, Outcomes
    <3> QED BY <3>1, <3>2, <3>3, <3>5, <3>6, TurnInv
  <2>3. CASE ListClaimants(w)
    <3>1. [j EXCEPT !.pc = "servers"] = [j EXCEPT !.pc = "servers", !.rivals = j.rivals]
          /\ j.rivals \in SUBSET Namespaces
      BY <1>0 DEF Job
    <3> QED BY <2>1, <2>2, <2>3, <3>1 DEF ListClaimants
  <2>4. CASE ListServers(w)
    <3> DEFINE rivals == {secrets[c].source : c \in Colliding(j)}
               firm == \E c \in Colliding(j) : secrets[c].pinned \/ secrets[c].source = None
    <3>1. ~firm => rivals \in SUBSET Namespaces
      BY <1>0 DEF Colliding, Registration
    <3>2. CASE firm
      BY <2>1, <2>4, <3>2 DEF ListServers
    <3>3. CASE ~firm /\ rivals = {}
      <4>1. Turn(w, [j EXCEPT !.pc = "write", !.rivals = rivals], copies[w])
        BY <2>4, <3>3 DEF ListServers
      <4> QED BY <2>2, <3>1, <3>3, <4>1
    <3>4. CASE ~firm /\ rivals # {}
      <4>1. Turn(w, [j EXCEPT !.pc = "incumbents", !.rivals = rivals], copies[w])
        BY <2>4, <3>4 DEF ListServers
      <4> QED BY <2>2, <3>1, <3>4, <4>1
    <3> QED BY <3>2, <3>3, <3>4
  <2>5. CASE CheckIncumbent(w, n)
    <3> DEFINE left == [j EXCEPT !.rivals = @ \ {n}]
    <3>1. /\ j.rivals \ {n} \in SUBSET Namespaces
          /\ left = [j EXCEPT !.pc = j.pc, !.rivals = j.rivals \ {n}]
          /\ [left EXCEPT !.pc = "write"] = [j EXCEPT !.pc = "write", !.rivals = j.rivals \ {n}]
          /\ left.rivals = j.rivals \ {n}
      BY <1>0 DEF Job
    <3>2. j.pc = "incumbents"
      BY <2>5 DEF CheckIncumbent
    <3>3. CASE Turn(w, IF left.rivals = {} THEN [left EXCEPT !.pc = "write"] ELSE left,
                    copies[w])
      BY <2>2, <3>1, <3>2, <3>3
    <3> QED BY <2>1, <2>5, <3>3 DEF CheckIncumbent
  <2> QED BY <1>5, <2>3, <2>4, <2>5
<1>6. CASE ListOwned(w)
  <2> DEFINE items == IF ProvenGone(j) \/ Applied(j) # None THEN Superseded(j) ELSE {}
             out == Result(j, Recorded(j.key))
             k == [j EXCEPT !.pc = "collect", !.todo = items, !.kube = None, !.outcome = out]
  <2>0. j.pc = "list" /\ j.key \in Namespaces /\ out \in Outcomes
    BY <1>0, <1>6 DEF ListOwned, Resting, Outcomes, Result
  <2>1. CASE items = {}
    <3>1. Turn(w, Ended(j.key, out), Holding(items))
      BY <1>6, <2>1 DEF ListOwned
    <3> QED BY <2>0, <3>1, RestInv
  <2>2. CASE items # {}
    <3>1. Turn(w, k, Holding(items))
      BY <1>6, <2>2 DEF ListOwned
    <3>2. /\ items \in SUBSET Clusters
          /\ \A c \in items : /\ secrets[c] # None /\ secrets[c].owned
                              /\ secrets[c].source = j.key /\ ~secrets[c].pinned
      BY DEF Superseded, Recorded
    <3>3. k \in Job /\ k.key = j.key /\ k.pc = "collect" /\ k.todo = items
      BY <1>0, <2>0, <3>2 DEF Job, Phases
    <3>4. Held(k, Holding(items)) = Holding(items)
      BY <3>3 DEF Held, Outcomes
    <3>5. /\ Holding(items) \in [Clusters -> Copy \cup {None}]
          /\ CopiesFaithful(Holding(items), secrets)
          /\ \A c \in items : Holding(items)[c] # None /\ Holding(items)[c].obj = secrets[c]
      BY <3>2, HoldingFaithful
    <3>6. WorkerOK(k, Holding(items))
      BY <2>0, <3>2, <3>3, <3>5 DEF WorkerOK, Resting, Outcomes, Applying, Loops
    <3> QED BY <3>1, <3>3, <3>4, <3>5, <3>6, TurnInv
  <2> QED BY <2>1, <2>2
<1> QED BY <1>1, <1>2, <1>3, <1>4, <1>5, <1>6

LEMMA WriteInv ==
    ASSUME IInv, NEW w \in Workers, Create(w) \/ Update(w)
    PROVE  IInv'
<1> DEFINE j == job[w]
           c == j.ns.cluster
           cp == copies[w][c]
           k == [j EXCEPT !.pc = "list", !.kube = None]
           rest == [copies[w] EXCEPT ![c] = None]
<1>0. /\ j \in Job
      /\ copies[w] \in [Clusters -> Copy \cup {None}]
      /\ WorkerOK(j, copies[w])
      /\ j.pc = "write" /\ j.key \in Namespaces
      /\ j.ns \in Namespace /\ c \in Clusters /\ j.kube \in Kubeconfigs
  BY AtWork DEF Create, Update, WorkerOK, Resting, Outcomes, Applying
<1>1. k \in Job /\ k.key = j.key /\ k.pc = "list"
  BY <1>0 DEF Job, Phases
<1>2. WorkerOK(k, Held(k, rest))
  BY <1>0, <1>1 DEF WorkerOK, Held, Resting, Outcomes, Applying, Loops
<1>3. Want(j) \in Registration
  BY <1>0 DEF Want, Registration, Namespace
<1>4. CASE \E o \in {"requeue", "failed"} : Turn(w, Ended(j.key, o), Nothing)
  BY <1>0, <1>4, RestInv DEF Outcomes
<1>5. CASE Put(w, c, Want(j), "replaced", k)
  BY <1>0, <1>1, <1>2, <1>3, <1>5, PutInv
<1>6. CASE cp # None /\ Put(w, c, Merge(cp.obj, Want(j)), "rewritten", k)
  <2>1. cp \in Copy
    BY <1>0, <1>6
  <2>2. Merge(cp.obj, Want(j)) \in Registration
    BY <1>3, <2>1 DEF Merge, Copy, Registration
  <2> QED BY <1>0, <1>1, <1>2, <1>6, <2>2, PutInv
<1> QED BY <1>4, <1>5, <1>6 DEF Create, Update, Refused

LEMMA CollectInv ==
    ASSUME IInv, NEW w \in Workers, NEW c \in Clusters,
           \/ DeleteOrphan(w, c) \/ KeepDemoted(w, c) \/ DeleteExpired(w, c)
           \/ Demote(w, c) \/ ItemError(w, c)
    PROVE  IInv'
<1> DEFINE j == job[w]
           cp == copies[w][c]
           rest == [copies[w] EXCEPT ![c] = None]
<1>0. /\ j \in Job
      /\ copies[w] \in [Clusters -> Copy \cup {None}]
      /\ WorkerOK(j, copies[w])
      /\ CopiesFaithful(copies[w], secrets)
      /\ j.pc \in Loops /\ c \in j.todo
  BY AtWork DEF DeleteOrphan, KeepDemoted, DeleteExpired, Demote, ItemError, At, Loops
<1>1. cp # None /\ cp \in Copy /\ cp.obj \in Registration
  BY <1>0 DEF WorkerOK, Copy
<1>2. CASE \E k \in {ItemDone(j, c), ItemKept(j, c), ItemFailed(j, c)} : Turn(w, k, rest)
  <2>1. PICK k \in {ItemDone(j, c), ItemKept(j, c), ItemFailed(j, c)} : Turn(w, k, rest)
    BY <1>2
  <2>2. k \in Job /\ WorkerOK(k, Held(k, rest))
    BY <1>0, ItemDoneOK, ItemLeftOK
  <2>3. rest \in [Clusters -> Copy \cup {None}] /\ CopiesFaithful(rest, secrets)
    BY <1>0 DEF CopiesFaithful
  <2> QED BY <2>1, <2>2, <2>3, TurnInv
<1>3. CASE \E v \in Registration \cup {None}, how \in {"rewritten", "replaced"} :
              Put(w, c, v, how, ItemDone(j, c))
  BY <1>0, <1>3, ItemDoneOK, PutInv
<1>4. CASE DeleteOrphan(w, c)
  BY <1>2, <1>3, <1>4 DEF DeleteOrphan
<1>5. CASE KeepDemoted(w, c)
  BY <1>2, <1>5 DEF KeepDemoted
<1>6. CASE DeleteExpired(w, c)
  BY <1>2, <1>3, <1>6 DEF DeleteExpired
<1>7. CASE Demote(w, c)
  <2>1. [cp.obj EXCEPT !.state = "demoted", !.since = now] \in Registration
    BY <1>1, Unfold DEF SharedOK, Registration
  <2> QED BY <1>2, <1>3, <1>7, <2>1 DEF Demote
<1>8. CASE ItemError(w, c)
  BY <1>2, <1>8 DEF ItemError
<1> QED BY <1>4, <1>5, <1>6, <1>7, <1>8

LEMMA PassInv ==
    ASSUME IInv, NEW w \in Workers, Progress(w) \/ Fault(w)
    PROVE  IInv'
<1>1. CASE Abort(w) \/ DiscoverFails(w) \/ CheckFails(w)
  <2>1. job[w].key \in Namespaces
    BY <1>1, AtWork DEF Abort, DiscoverFails, CheckFails, Resting, Outcomes
  <2> QED BY <1>1, <2>1, RestInv DEF Abort, DiscoverFails, CheckFails, Refused, Outcomes
<1>2. CASE Return(w) \/ Crash(w)
  <2>1. Turn(w, Idle, Nothing)
    BY <1>2 DEF Return, Crash
  <2>2. Idle \in Job /\ Idle.pc = "idle"
    BY DEF Idle, Job, Phases, Outcomes
  <2>3. WorkerOK(Idle, Held(Idle, Nothing))
    BY <2>2 DEF Held, WorkerOK, Resting, Outcomes, Applying, Loops
  <2> QED BY <2>1, <2>2, <2>3, NothingHeld, TurnInv
<1>3. ASSUME ListStale(w) \/ Discover(w) \/ GetSecret(w) \/ ListClaimants(w)
             \/ ListServers(w) \/ ListOwned(w)
      PROVE  IInv'
  <2>1. job[w].key \in Namespaces
    BY <1>3, AtWork DEF ListStale, Discover, GetSecret, ListClaimants, ListServers, ListOwned,
                        Resting, Outcomes
  <2> QED BY <1>3, <2>1, ReadInv
<1>4. ASSUME NEW n \in Namespaces, GetNamespace(w, n) \/ CheckIncumbent(w, n)
      PROVE  IInv'
  BY <1>4, ReadInv
<1>5. ASSUME NEW n \in Namespaces, GetFails(w, n)
      PROVE  IInv'
  BY <1>5, RestInv DEF GetFails, Outcomes
<1> QED BY <1>1, <1>2, <1>3, <1>4, <1>5, WriteInv, CollectInv DEF Progress, Fault

LEMMA EnvironmentInv ==
    ASSUME IInv, Environment
    PROVE  IInv'
<1>0. SharedOK
  BY Unfold
<1>1. ASSUME NEW n \in Namespaces, NEW c \in Clusters \cup {None}, CreateNamespace(n, c)
      PROVE  IInv'
  <2>1. Fresh(uids[n] + 1, now, c) \in Namespace
    BY <1>0 DEF Fresh, Namespace, SharedOK
  <2> QED BY <1>0, <1>1, <2>1, SourcesInv DEF CreateNamespace, Edit, EditNamespace, SharedOK
<1>2. ASSUME NEW n \in Namespaces, NEW c \in Clusters \cup {None},
             DeleteNamespace(n) \/ Relabel(n, c) \/ SetManaged(n)
      PROVE  IInv'
  <2>1. namespaces[n] \in Namespace
    BY <1>0, <1>2 DEF SharedOK, DeleteNamespace, Relabel, SetManaged
  <2>2. /\ [namespaces[n] EXCEPT !.terminating = TRUE] \in Namespace
        /\ [namespaces[n] EXCEPT !.cluster = c] \in Namespace
        /\ [namespaces[n] EXCEPT !.managed = ~@] \in Namespace
    BY <2>1 DEF Namespace
  <2>3. PICK ns \in Namespace : EditNamespace(n, ns)
    BY <1>2, <2>2 DEF DeleteNamespace, Relabel, SetManaged
  <2>4. edits' = edits + 1 /\ UNCHANGED <<now, job, kubeconfigs, uids>>
    BY <1>2 DEF DeleteNamespace, Relabel, SetManaged, Edit
  <2> QED BY <1>0, <2>3, <2>4, SourcesInv DEF EditNamespace, SharedOK
<1>3. ASSUME NEW n \in Namespaces, Finalize(n)
      PROVE  IInv'
  BY <1>0, <1>3, SourcesInv DEF Finalize, EditNamespace, SharedOK
<1>4. ASSUME NEW n \in Namespaces, NEW k \in Kubeconfigs, Provision(n, k) \/ Reprovision(n, k)
      PROVE  IInv'
  BY <1>0, <1>4, SourcesInv DEF Provision, Reprovision, Edit, worker, SharedOK
<1>5. CASE Tick
  BY <1>0, <1>5, SourcesInv DEF Tick, sources, worker, SharedOK
<1>6. ASSUME NEW c \in Clusters, NEW k \in Kubeconfigs,
             SetPin(c) \/ Strip(c) \/ HandRemove(c) \/ HandReplace(c) \/ HandCreate(c, k)
      PROVE  IInv'
  <2>1. secrets[c] \in Registration \cup {None}
    BY <1>0 DEF SharedOK
  <2>2. secrets[c] # None =>
            /\ [secrets[c] EXCEPT !.pinned = ~@] \in Registration
            /\ [secrets[c] EXCEPT !.source = None] \in Registration
            /\ [secrets[c] EXCEPT !.uid = None] \in Registration
            /\ [secrets[c] EXCEPT !.named = FALSE] \in Registration
            /\ [secrets[c] EXCEPT !.since = None] \in Registration
    BY <2>1 DEF Registration
  <2>3. [owned |-> FALSE, source |-> None, uid |-> None, named |-> FALSE, state |-> "active",
         since |-> None, pinned |-> FALSE, kube |-> k] \in Registration
    BY DEF Registration
  <2>4. \E v \in Registration \cup {None}, how \in {"rewritten", "replaced"} :
            EditSecret(c, v, how)
    BY <1>6, <2>1, <2>2, <2>3 DEF SetPin, Strip, HandRemove, HandReplace, HandCreate
  <2>5. edits' \in Nat /\ UNCHANGED <<now, job>>
    BY <1>0, <1>6 DEF SetPin, Strip, HandRemove, HandReplace, HandCreate, Edit, SharedOK
  <2> QED BY <2>4, <2>5, EditSecretInv
<1>7. ASSUME NEW c \in Clusters, SetPin(c) \/ Strip(c) \/ HandRemove(c) \/ HandReplace(c)
      PROVE  IInv'
  <2>1. secrets[c] \in Registration
    BY <1>0, <1>7 DEF SharedOK, SetPin, Strip, HandRemove, HandReplace
  <2>2. PICK k \in Kubeconfigs : k = secrets[c].kube
    BY <2>1 DEF Registration
  <2> QED BY <1>6, <1>7, <2>2
<1> QED BY <1>1, <1>2, <1>3, <1>4, <1>5, <1>6, <1>7 DEF Environment

LEMMA StutterInv ==
    ASSUME IInv, UNCHANGED vars
    PROVE  IInv'
BY Unfold, SourcesInv DEF vars, sources, worker, SharedOK

LEMMA InitInv == Init => IInv
<1> SUFFICES ASSUME Init PROVE IInv
  OBVIOUS
<1>1. Idle \in Job /\ Idle.pc = "idle"
  BY DEF Idle, Job, Phases, Outcomes
<1>2. WorkerOK(Idle, Nothing)
  BY <1>1 DEF WorkerOK, Resting, Outcomes, Applying, Loops
<1>3. \A c \in Clusters : Fresh(1, 0, c) \in Namespace
  BY DEF Fresh, Namespace
<1>4. namespaces \in [Namespaces -> Namespace \cup {None}]
  BY <1>3 DEF Init
<1>5. SharedOK
  BY <1>4 DEF Init, SharedOK
<1> QED BY <1>1, <1>2, <1>5, NothingHeld, Unfold DEF Init

-----------------------------------------------------------------------------
(* What follows for every behaviour.                                       *)

LEMMA StepInv ==
    ASSUME IInv, [Next]_vars
    PROVE  IInv'
BY PassInv, EnvironmentInv, StutterInv DEF Next

(* IInv holds throughout: what a worker holds as current is the live        *)
(* Secret, and what it is about to write or remove was its to touch when    *)
(* read.                                                                    *)
THEOREM Invariance == Spec => []IInv
BY InitInv, StepInv, PTL DEF Spec

(* Every variable keeps its type; a worker between passes holds nothing.    *)
THEOREM TypeCorrect == Spec => []TypeOK
<1>1. IInv => TypeOK
  BY DEF IInv
<1> QED BY <1>1, Invariance, PTL

(* Five actions of a worker write or remove a Secret, each only the one it  *)
(* is at.                                                                   *)
Writes(w, c) ==
    \/ Create(w) /\ c = job[w].ns.cluster
    \/ Update(w) /\ c = job[w].ns.cluster
    \/ DeleteOrphan(w, c)
    \/ DeleteExpired(w, c)
    \/ Demote(w, c)

LEMMA StepWrites ==
    ASSUME IInv, NEW w \in Workers, Progress(w) \/ Fault(w),
           NEW c \in Clusters, secrets'[c] # secrets[c]
    PROVE  Writes(w, c) /\ \E v, how, j : Put(w, c, v, how, j)
<1>0. secrets \in [Clusters -> Registration \cup {None}]
  BY Unfold DEF SharedOK
<1>1. \A j, held : Turn(w, j, held) => secrets' = secrets
  BY DEF Turn
<1>2. \A d, v, how, j : Put(w, d, v, how, j) => secrets' = [secrets EXCEPT ![d] = v]
  BY DEF Put
<1>3. \/ Create(w) \/ Update(w)
      \/ \E d \in Clusters : DeleteOrphan(w, d) \/ DeleteExpired(w, d) \/ Demote(w, d)
  BY <1>1 DEF Progress, Fault, GetNamespace, GetFails, DiscoverFails, CheckFails,
              CheckIncumbent, ListStale, Discover, GetSecret,
              ListClaimants, ListServers, ListOwned, KeepDemoted, ItemError, Abort,
              Return, Crash
<1>4. CASE Create(w) \/ Update(w)
  <2>1. PICK v, how, j : Put(w, job[w].ns.cluster, v, how, j)
    BY <1>1, <1>4 DEF Create, Update
  <2>2. c = job[w].ns.cluster
    BY <1>0, <1>2, <2>1
  <2> QED BY <1>4, <2>1, <2>2 DEF Writes
<1>5. CASE \E d \in Clusters : DeleteOrphan(w, d) \/ DeleteExpired(w, d) \/ Demote(w, d)
  <2>1. PICK d \in Clusters : DeleteOrphan(w, d) \/ DeleteExpired(w, d) \/ Demote(w, d)
    BY <1>5
  <2>2. PICK v, how, j : Put(w, d, v, how, j)
    BY <1>1, <2>1 DEF DeleteOrphan, DeleteExpired, Demote
  <2>3. c = d
    BY <1>0, <1>2, <2>2
  <2> QED BY <2>1, <2>2, <2>3 DEF Writes
<1> QED BY <1>3, <1>4, <1>5

LEMMA OnlyWrites ==
    ASSUME IInv, [Next]_vars, NEW w \in Workers, job'[w] # job[w],
           NEW c \in Clusters, secrets'[c] # secrets[c]
    PROVE  Writes(w, c)
<1>0. job \in [Workers -> Job]
  BY Unfold
<1>1. Next /\ job' # job
  BY DEF vars, worker
<1>2. ~Environment
  BY <1>1 DEF Environment, Relabel, CreateNamespace, Provision, Reprovision,
              DeleteNamespace, Finalize, SetManaged, HandCreate, SetPin, Strip, HandRemove, HandReplace, Tick,
              Edit, worker
<1>3. PICK x \in Workers : Progress(x) \/ Fault(x)
  BY <1>1, <1>2 DEF Next
<1>4. Writes(x, c) /\ \E v, how, j : Put(x, c, v, how, j)
  BY <1>3, StepWrites
<1>5. x = w
  BY <1>0, <1>4 DEF Put
<1> QED BY <1>4, <1>5

(* What a write or removal by worker w finds and leaves in Secret c.        *)
LEMMA WriteEffect ==
    ASSUME IInv, NEW w \in Workers, NEW c \in Clusters, secrets[c] # None, Writes(w, c),
           secrets'[c] # secrets[c]
    PROVE  LET j == job[w]
               cp == copies[w][c]
           IN  /\ cp # None
               /\ \/ /\ secrets[c] = cp.obj
                     /\ MayWrite(cp.obj, j.key)
                     /\ j.pc = "write"
                     /\ secrets'[c] = Merge(cp.obj, Want(j))
                     /\ secrets'[c] # None
                  \/ /\ secrets[c] = cp.obj
                     /\ cp.obj.owned /\ cp.obj.source = j.key /\ ~cp.obj.pinned
                     /\ j.pc = "collect" /\ cp.obj.state = "active"
                     /\ secrets'[c] = [cp.obj EXCEPT !.state = "demoted", !.since = now]
                     /\ secrets'[c] # None
                  \/ /\ secrets'[c] = None
                     /\ ~cp.obj.pinned /\ SameObject(cp)
                     /\ j.pc = "collect" => ProvenGone(j)
                  \/ /\ secrets'[c] = None
                     /\ secrets[c] = cp.obj
                     /\ ~cp.obj.pinned
                     /\ cp.obj.state = "demoted" /\ Expired(cp.obj)
<1> DEFINE j == job[w]
           cp == copies[w][c]
<1>0. /\ j \in Job
      /\ copies[w] \in [Clusters -> Copy \cup {None}]
      /\ WorkerOK(j, copies[w])
      /\ CopiesFaithful(copies[w], secrets)
      /\ secrets \in [Clusters -> Registration \cup {None}]
      /\ cp # None => cp.obj \in Registration
      /\ now \in Nat
  BY AtWork, Unfold DEF Copy, SharedOK
<1>1. \A k, held : Turn(w, k, held) => secrets' = secrets
  BY DEF Turn
<1>2. \A v, how, k : Put(w, c, v, how, k) => secrets'[c] = v
  BY <1>0 DEF Put
<1>3. cp # None /\ SameVersion(cp) => secrets[c] = cp.obj
  BY <1>0 DEF CopiesFaithful, SameVersion
<1>4. CASE Create(w) /\ c = j.ns.cluster
  BY <1>1, <1>4 DEF Create
<1>5. CASE Update(w) /\ c = j.ns.cluster
  <2>1. /\ j.pc = "write" /\ cp # None /\ SameVersion(cp)
        /\ secrets'[c] = Merge(cp.obj, Want(j))
    BY <1>1, <1>2, <1>5 DEF Update
  <2>2. MayWrite(cp.obj, j.key)
    BY <1>0, <1>5, <2>1 DEF WorkerOK, Applying
  <2>3. /\ j.key \in Namespaces /\ j.kube \in Kubeconfigs
        /\ j.ns \in Namespace
    BY <1>0, <2>1 DEF WorkerOK, Resting, Outcomes, Applying
  <2>4. Merge(cp.obj, Want(j)) \in Registration
    BY <1>0, <2>1, <2>3 DEF Merge, Want, Registration, Namespace
  <2> QED BY <1>3, <2>1, <2>2, <2>4, AbsentAssumption
<1>6. ASSUME c \in j.todo, j.pc \in Loops
      PROVE  cp # None /\ cp.obj.owned /\ cp.obj.source = j.key /\ ~cp.obj.pinned
  BY <1>0, <1>6 DEF WorkerOK
<1>7. CASE DeleteOrphan(w, c)
  <2>1. c \in j.todo /\ j.pc \in Loops /\ (j.pc = "collect" => ProvenGone(j))
    BY <1>7 DEF DeleteOrphan, At, Loops
  <2>2. secrets'[c] = None /\ SameObject(cp)
    BY <1>1, <1>2, <1>7 DEF DeleteOrphan
  <2> QED BY <1>6, <2>1, <2>2
<1>8. CASE DeleteExpired(w, c)
  <2>1. c \in j.todo /\ j.pc \in Loops
    BY <1>8 DEF DeleteExpired, At, Loops
  <2>2. /\ secrets'[c] = None /\ SameVersion(cp)
        /\ cp.obj.state = "demoted" /\ Expired(cp.obj)
    BY <1>1, <1>2, <1>8 DEF DeleteExpired
  <2> QED BY <1>3, <1>6, <2>1, <2>2
<1>9. CASE Demote(w, c)
  <2>1. c \in j.todo /\ j.pc \in Loops
    BY <1>9 DEF Demote, At, Loops
  <2>2. /\ SameVersion(cp) /\ j.pc = "collect" /\ cp.obj.state = "active"
        /\ secrets'[c] = [cp.obj EXCEPT !.state = "demoted", !.since = now]
    BY <1>1, <1>2, <1>9 DEF Demote, At
  <2>3. [cp.obj EXCEPT !.state = "demoted", !.since = now] \in Registration
    BY <1>0, <1>6, <2>1 DEF Registration
  <2> QED BY <1>3, <1>6, <2>1, <2>2, <2>3, AbsentAssumption
<1> QED BY <1>4, <1>5, <1>7, <1>8, <1>9 DEF Writes

(* Whoever rewrites a Secret that records a source, keeps it.               *)
LEMMA SourceKept ==
    ASSUME IInv, NEW w \in Workers, Progress(w) \/ Fault(w), NEW c \in Clusters,
           secrets[c] # None, secrets[c].source # None, secrets'[c] # None
    PROVE  secrets'[c].source = secrets[c].source
<1>1. CASE secrets'[c] = secrets[c]
  BY <1>1
<1>2. CASE secrets'[c] # secrets[c]
  <2> DEFINE j == job[w]
             cp == copies[w][c]
  <2>1. Writes(w, c) /\ secrets[c] \in Registration
    BY <1>2, StepWrites, Unfold DEF SharedOK
  <2>2. /\ secrets[c] = cp.obj
        /\ \/ MayWrite(cp.obj, j.key) /\ secrets'[c] = Merge(cp.obj, Want(j))
           \/ secrets'[c] = [cp.obj EXCEPT !.state = "demoted", !.since = now]
    BY <1>2, <2>1, WriteEffect
  <2>3. Merge(cp.obj, Want(j)).source = j.key
    BY DEF Want, Merge
  <2>4. CASE MayWrite(cp.obj, j.key) /\ secrets'[c] = Merge(cp.obj, Want(j))
    BY <2>2, <2>3, <2>4 DEF MayWrite
  <2>5. CASE secrets'[c] = [cp.obj EXCEPT !.state = "demoted", !.since = now]
    BY <2>1, <2>2, <2>5 DEF Registration
  <2> QED BY <2>2, <2>4, <2>5
<1> QED BY <1>1, <1>2

(* NoTakeover follows from IInv, whatever else there is beside the passes.  *)
LEMMA IncumbencyKept == []IInv /\ [][Next]_vars => NoTakeover
<1>1. ASSUME IInv, IInv', [Next]_vars, job' # job, NEW c \in Clusters,
             secrets[c] # None, secrets'[c] # None, secrets[c] # secrets'[c]
      PROVE  /\ secrets[c].owned
             /\ IF secrets[c].source = None THEN secrets[c].named
                ELSE secrets'[c].source = secrets[c].source
  <2>1. PICK w \in Workers : job'[w] # job[w]
    <3>1. job \in [Workers -> Job] /\ job' \in [Workers -> Job]
      BY <1>1 DEF IInv, TypeOK
    <3> QED BY <1>1, <3>1
  <2>2. Writes(w, c)
    BY <1>1, <2>1, OnlyWrites
  <2> DEFINE j == job[w]
             cp == copies[w][c]
  <2>3. /\ secrets[c] = cp.obj
        /\ \/ /\ MayWrite(cp.obj, j.key)
              /\ j.pc = "write"
              /\ secrets'[c] = Merge(cp.obj, Want(j))
           \/ /\ cp.obj.owned /\ cp.obj.source = j.key
              /\ j.pc \in Loops
              /\ secrets'[c] = [cp.obj EXCEPT !.state = "demoted", !.since = now]
    BY <1>1, <2>2, WriteEffect DEF Loops
  <2>4. secrets[c] \in Registration /\ (j.pc \in {"write"} \cup Loops => j.key # None)
    BY <1>1, AtWork, NoneAssumption, NamespacesAssumption DEF Loops, Resting, Outcomes
  <2>5. Want(j).source = j.key /\ Merge(cp.obj, Want(j)).source = j.key
    BY DEF Want, Merge
  <2>6. CASE MayWrite(cp.obj, j.key) /\ j.pc = "write" /\ secrets'[c] = Merge(cp.obj, Want(j))
    BY <2>3, <2>4, <2>5, <2>6 DEF MayWrite
  <2>7. CASE /\ cp.obj.owned /\ cp.obj.source = j.key
             /\ j.pc \in Loops
             /\ secrets'[c] = [cp.obj EXCEPT !.state = "demoted", !.since = now]
    BY <2>3, <2>4, <2>7 DEF Registration
  <2> QED BY <2>3, <2>6, <2>7
<1>2. IInv /\ IInv' /\ [Next]_vars =>
        [WorkerStep =>
           \A c \in Clusters :
              LET s == secrets[c]
                  t == secrets'[c]
              IN  s # None /\ t # None /\ s # t =>
                      /\ s.owned
                      /\ IF s.source = None THEN s.named ELSE t.source = s.source]_vars
  BY <1>1 DEF WorkerStep
<1> QED BY <1>2, PTL DEF NoTakeover

(* Whatever the interleaving of any number of workers, no step of one takes *)
(* a Secret over from the namespace it records, nor touches a foreign one.  *)
THEOREM Incumbency == Spec => NoTakeover
BY IncumbencyKept, Invariance, PTL DEF Spec

(* So does PinSurvives.                                                     *)
LEMMA PinningKept == []IInv /\ [][Next]_vars => PinSurvives
<1>1. ASSUME IInv, [Next]_vars, NEW w \in Workers, NEW c \in Clusters,
             job'[w] # job[w], secrets[c] # None, secrets[c].pinned
      PROVE  IF secrets'[c] = None
             THEN /\ copies[w][c] # None
                  /\ ~copies[w][c].obj.pinned
                  /\ copies[w][c].version = "rewritten"
             ELSE /\ secrets'[c].pinned
                  /\ secrets[c].state = "active" => secrets'[c].state = "active"
  <2> DEFINE cp == copies[w][c]
  <2>1. CASE secrets'[c] = secrets[c]
    BY <1>1, <2>1
  <2>2. CASE secrets'[c] # secrets[c]
    <3>1. Writes(w, c)
      BY <1>1, <2>2, OnlyWrites
    <3>2. /\ cp # None
          /\ \/ /\ secrets[c] = cp.obj
                /\ secrets'[c] = Merge(cp.obj, Want(job[w])) /\ secrets'[c] # None
             \/ ~cp.obj.pinned /\ secrets[c] = cp.obj
             \/ secrets'[c] = None /\ ~cp.obj.pinned /\ SameObject(cp)
      BY <1>1, <2>2, <3>1, WriteEffect
    <3>3. cp \in Copy /\ (cp.version = "current" => secrets[c] = cp.obj)
      BY <1>1, <3>2, AtWork DEF CopiesFaithful
    <3>4. /\ Merge(cp.obj, Want(job[w])).pinned = cp.obj.pinned
          /\ Merge(cp.obj, Want(job[w])).state = "active"
      BY DEF Merge, Want
    <3>5. CASE /\ secrets[c] = cp.obj
               /\ secrets'[c] = Merge(cp.obj, Want(job[w])) /\ secrets'[c] # None
      BY <1>1, <3>4, <3>5
    <3>6. CASE secrets'[c] = None /\ ~cp.obj.pinned /\ SameObject(cp)
      <4>1. cp.version # "current"
        BY <1>1, <3>3, <3>6
      <4>2. cp.version = "rewritten"
        BY <3>3, <3>6, <4>1 DEF SameObject, Copy
      <4> QED BY <3>2, <3>6, <4>2
    <3> QED BY <1>1, <3>2, <3>5, <3>6
  <2> QED BY <2>1, <2>2
<1>2. IInv /\ [Next]_vars =>
        [\A w \in Workers, c \in Clusters :
           /\ job'[w] # job[w]
           /\ secrets[c] # None
           /\ secrets[c].pinned
           => IF secrets'[c] = None
              THEN /\ copies[w][c] # None
                   /\ ~copies[w][c].obj.pinned
                   /\ copies[w][c].version = "rewritten"
              ELSE /\ secrets'[c].pinned
                   /\ secrets[c].state = "active" => secrets'[c].state = "active"]_vars
  BY <1>1
<1> QED BY <1>2, PTL DEF PinSurvives

(* No worker demotes, unpins or expires a pinned registration; only the     *)
(* UID-guarded delete of an orphan can land on one, and then the pin was    *)
(* set after that worker had listed it.                                     *)
THEOREM Pinning == Spec => PinSurvives
BY PinningKept, Invariance, PTL DEF Spec

(* And ExpiryRechecked.                                                     *)
LEMMA ExpiryKept == []IInv /\ [][Next]_vars => ExpiryRechecked
<1>1. ASSUME IInv, [Next]_vars, NEW w \in Workers, NEW c \in Clusters,
             job[w].pc = "collect", ~ProvenGone(job[w]), job'[w] # job[w],
             secrets[c] # None, secrets'[c] = None
      PROVE  /\ secrets[c].state = "demoted"
             /\ Expired(secrets[c])
             /\ ~secrets[c].pinned
  <2>1. Writes(w, c) /\ secrets'[c] # secrets[c]
    BY <1>1, OnlyWrites
  <2> DEFINE cp == copies[w][c]
  <2>2. /\ secrets[c] = cp.obj
        /\ ~cp.obj.pinned
        /\ cp.obj.state = "demoted" /\ Expired(cp.obj)
    BY <1>1, <2>1, WriteEffect
  <2> QED BY <2>2
<1>2. IInv /\ [Next]_vars =>
        [\A w \in Workers, c \in Clusters :
           /\ job[w].pc = "collect"
           /\ ~ProvenGone(job[w])
           /\ job'[w] # job[w]
           /\ secrets[c] # None
           /\ secrets'[c] = None
           => /\ secrets[c].state = "demoted"
              /\ Expired(secrets[c])
              /\ ~secrets[c].pinned]_vars
  BY <1>1
<1> QED BY <1>2, PTL DEF ExpiryRechecked

(* While the namespace is there, collection deletes only what is demoted,   *)
(* older than the TTL and unpinned at the very moment of the delete.        *)
THEOREM Expiry == Spec => ExpiryRechecked
BY ExpiryKept, Invariance, PTL DEF Spec

-----------------------------------------------------------------------------
(* Reconcile implements Registry.  IInv gives what a copy is worth;        *)
(* Standing adds what the steps of a pass rely on about the namespace they *)
(* act for.                                                                *)

(* A worker that applies or collects acts for a namespace it saw alive, and *)
(* does not collect the registration that namespace names.                  *)
Stands(j) ==
    /\ j.pc \in {"stale-list", "stale-delete", "discover"} \cup Applying =>
           ~j.ns.terminating
    /\ j.pc = "collect" /\ ~ProvenGone(j) =>
           ~j.ns.terminating /\ j.ns.cluster \notin j.todo

Standing == \A w \in Workers : Stands(job[w])

(* An item dealt with leaves the job at the next item, at discovery, or     *)
(* over.                                                                    *)
LEMMA ItemShape ==
    ASSUME NEW j \in Job, NEW c \in Clusters, j.pc \in Loops,
           NEW k \in {ItemDone(j, c), ItemKept(j, c), ItemFailed(j, c)}
    PROVE  \/ /\ k.pc = j.pc /\ k.key = j.key /\ k.ns = j.ns /\ k.todo = j.todo \ {c}
           \/ /\ j.pc = "stale-delete" /\ k.pc = "discover"
              /\ k.key = j.key /\ k.ns = j.ns
           \/ k.pc \in Outcomes
<1>1. ASSUME NEW o \in Outcomes
      PROVE  LET i == [j EXCEPT !.outcome = o]
             IN  \/ /\ ItemDone(i, c).pc = j.pc /\ ItemDone(i, c).key = j.key
                    /\ ItemDone(i, c).ns = j.ns /\ ItemDone(i, c).todo = j.todo \ {c}
                 \/ /\ j.pc = "stale-delete" /\ ItemDone(i, c).pc = "discover"
                    /\ ItemDone(i, c).key = j.key /\ ItemDone(i, c).ns = j.ns
                 \/ ItemDone(i, c).pc \in Outcomes
  <2> DEFINE i == [j EXCEPT !.outcome = o]
             left == [i EXCEPT !.todo = @ \ {c}]
  <2>1. /\ left.pc = j.pc /\ left.key = j.key /\ left.ns = j.ns
        /\ left.todo = j.todo \ {c} /\ i.outcome = o /\ i.pc = j.pc /\ i.key = j.key
    BY DEF Job
  <2>2. CASE left.todo # {}
    BY <2>1, <2>2 DEF ItemDone
  <2>3. CASE left.todo = {} /\ j.pc = "stale-delete" /\ o # "failed"
    <3>1. ItemDone(i, c) = [left EXCEPT !.pc = "discover"]
      BY <2>1, <2>3 DEF ItemDone
    <3>2. /\ [left EXCEPT !.pc = "discover"].pc = "discover"
          /\ [left EXCEPT !.pc = "discover"].key = j.key
          /\ [left EXCEPT !.pc = "discover"].ns = j.ns
      BY <2>1 DEF Job
    <3> QED BY <2>3, <3>1, <3>2
  <2>4. CASE left.todo = {} /\ ~(j.pc = "stale-delete" /\ o # "failed")
    <3>1. ItemDone(i, c) = Ended(j.key, o)
      BY <2>1, <2>4 DEF ItemDone
    <3>2. Ended(j.key, o).pc = o
      BY DEF Ended, Idle
    <3> QED BY <3>1, <3>2
  <2> QED BY <2>2, <2>3, <2>4
<1>2. /\ j.outcome \in Outcomes
      /\ j = [j EXCEPT !.outcome = j.outcome]
  BY DEF Job
<1>3. /\ ItemKept(j, c) = ItemDone([j EXCEPT !.outcome =
                             IF j.outcome = "finished" THEN "requeue" ELSE j.outcome], c)
      /\ ItemFailed(j, c) = ItemDone([j EXCEPT !.outcome = "failed"], c)
      /\ "requeue" \in Outcomes /\ "failed" \in Outcomes
  BY DEF ItemKept, ItemFailed, Outcomes
<1>4. ItemDone(j, c) = ItemDone([j EXCEPT !.outcome = j.outcome], c)
  BY <1>2
<1> QED BY <1>1, <1>2, <1>3, <1>4

-----------------------------------------------------------------------------
(* What a step of a worker is to Registry.                                  *)

Refines == [R!Next]_(R!vars) /\ Standing'

(* A worker's standing concerns its job alone.                              *)
LEMMA JobStands ==
    ASSUME IInv, Standing, NEW w \in Workers, NEW j, Stands(j),
           job' = [job EXCEPT ![w] = j]
    PROVE  /\ Standing'
           /\ mandate' = [mandate EXCEPT ![w] = Mandate(j)]
           /\ \A v \in Workers : v # w => job'[v] = job[v]
           /\ job'[w] = j
<1>1. job \in [Workers -> Job]
  BY Unfold
<1>2. \A v \in Workers : job'[v] = IF v = w THEN j ELSE job[v]
  BY <1>1
<1>3. Standing'
  BY <1>2 DEF Standing
<1>4. mandate' = [mandate EXCEPT ![w] = Mandate(j)]
  <2>1. \A v \in Workers : Mandate(job'[v]) = IF v = w THEN Mandate(j) ELSE Mandate(job[v])
    BY <1>2
  <2>2. mandate' = [v \in Workers |-> Mandate(job'[v])]
    BY DEF mandate
  <2>3. mandate = [v \in Workers |-> Mandate(job[v])]
    BY DEF mandate
  <2> QED BY <2>1, <2>2, <2>3
<1> QED BY <1>2, <1>3, <1>4

LEMMA TurnShows ==
    ASSUME IInv, Standing, NEW w \in Workers, NEW j, NEW held, Stands(j), Turn(w, j, held)
    PROVE  /\ Standing'
           /\ mandate' = [mandate EXCEPT ![w] = Mandate(j)]
           /\ condemned' = [condemned EXCEPT ![w] = Condemned(j, Held(j, held))]
           /\ UNCHANGED <<namespaces, kubeconfigs, secrets, now, edits>>
<1>1. /\ job' = [job EXCEPT ![w] = j]
      /\ copies' = [copies EXCEPT ![w] = Held(j, held)]
      /\ UNCHANGED <<namespaces, kubeconfigs, secrets, now, edits>>
  BY DEF Turn, sources
<1>2. /\ job \in [Workers -> Job]
      /\ copies \in [Workers -> [Clusters -> Copy \cup {None}]]
  BY Unfold
<1>3. condemned' = [condemned EXCEPT ![w] = Condemned(j, Held(j, held))]
  BY <1>1, <1>2 DEF condemned
<1> QED BY <1>1, <1>3, JobStands

(* The decisions a worker has taken, at the present step.                   *)
LEMMA Present ==
    /\ mandate \in [Workers -> {Mandate(job[w]) : w \in Workers}]
    /\ \A w \in Workers : /\ mandate[w] = Mandate(job[w])
                          /\ condemned[w] = Condemned(job[w], copies[w])
    /\ condemned \in [Workers -> SUBSET Clusters]
BY DEF mandate, condemned, Condemned

LEMMA MandateGiven ==
    ASSUME NEW j, j.pc \notin Resting, j.key # None
    PROVE  /\ Mandate(j) # R!Free
           /\ Mandate(j).key = j.key /\ Mandate(j).ns = j.ns
           /\ Mandate(j).kube = IF j.pc \in Applying THEN j.kube ELSE None
           /\ [Mandate(j) EXCEPT !.kube = None] = [key |-> j.key, ns |-> j.ns, kube |-> None]
<1>1. Mandate(j) = [key |-> j.key, ns |-> j.ns,
                    kube |-> IF j.pc \in Applying THEN j.kube ELSE None]
  BY DEF Mandate
<1> QED BY <1>1 DEF R!Free

(* A worker that writes nothing and keeps, uses up or gives up its mandate  *)
(* waives it.                                                               *)
LEMMA Waives ==
    ASSUME IInv, Standing, NEW w \in Workers, NEW j, NEW held, Stands(j), Turn(w, j, held),
           job[w].pc \notin Resting, job[w].key # None,
           Mandate(j) \in {Mandate(job[w]), [Mandate(job[w]) EXCEPT !.kube = None], R!Free},
           Condemned(j, Held(j, held)) \subseteq Condemned(job[w], copies[w])
    PROVE  Refines
<1>1. mandate[w] # R!Free
  BY MandateGiven, Present
<1>2. R!Proceeds(w)
  BY TurnShows, Present DEF R!Proceeds
<1>3. \A v \in Workers : R!Dropped(v)
  BY TurnShows, Present DEF R!Dropped
<1>4. R!Waive(w)
  BY <1>1, <1>2, <1>3, TurnShows DEF R!Waive, R!cluster
<1> QED BY <1>4, TurnShows DEF Refines, R!Next, R!Acts

(* A pass that ends gives its mandate up; a worker that was not at work     *)
(* shows nothing.                                                           *)
LEMMA Ends ==
    ASSUME IInv, Standing, NEW w \in Workers, NEW j, NEW held, j.pc \in Resting,
           Turn(w, j, held)
    PROVE  Refines
<1>1. Stands(j) /\ Mandate(j) = R!Free /\ Condemned(j, Held(j, held)) = {}
  BY DEF Stands, Mandate, Condemned, Removing, Resting, Outcomes, Applying, R!Free
<1>2. CASE job[w].pc \notin Resting
  <2>1. job[w].key # None
    BY <1>2, AtWork, NoneAssumption, NamespacesAssumption
  <2> QED BY <1>1, <1>2, <2>1, Waives
<1>3. CASE job[w].pc \in Resting
  <2>1. Mandate(job[w]) = R!Free /\ Condemned(job[w], copies[w]) = {}
    BY <1>3 DEF Mandate, Condemned, Removing, Resting, Outcomes, R!Free
  <2>2. mandate' = mandate
    <3>1. mandate' = [mandate EXCEPT ![w] = Mandate(j)]
      BY <1>1, TurnShows
    <3>2. mandate[w] = Mandate(j)
      BY <1>1, <2>1, Present
    <3> QED BY <3>1, <3>2, Present
  <2>3. condemned' = condemned
    <3>1. condemned' = [condemned EXCEPT ![w] = Condemned(j, Held(j, held))]
      BY <1>1, TurnShows
    <3>2. condemned[w] = Condemned(j, Held(j, held))
      BY <1>1, <2>1, Present
    <3> QED BY <3>1, <3>2, Present
  <2>4. UNCHANGED R!vars
    BY <1>1, <2>2, <2>3, TurnShows DEF R!vars
  <2> QED BY <1>1, <2>4, TurnShows DEF Refines
<1> QED BY <1>2, <1>3

(* A write: nobody's decisions but to drop some.                            *)
LEMMA PutShows ==
    ASSUME IInv, Standing, NEW w \in Workers, NEW c \in Clusters, NEW s,
           NEW how \in {"rewritten", "replaced"}, NEW j, Stands(j), Put(w, c, s, how, j),
           job[w].pc \notin Resting,
           Mandate(j) \in {Mandate(job[w]), [Mandate(job[w]) EXCEPT !.kube = None], R!Free},
           Removing(j) => Removing(job[w]) /\ j.todo \subseteq job[w].todo \ {c}
    PROVE  /\ Standing'
           /\ R!Writes(w, c, s)
           /\ how = "replaced" => \A v \in Workers : c \notin condemned'[v]
<1> DEFINE kept == Held(j, [copies[w] EXCEPT ![c] = None])
           cps == [copies EXCEPT ![w] = kept]
<1>1. /\ job' = [job EXCEPT ![w] = j]
      /\ secrets' = [secrets EXCEPT ![c] = s]
      /\ copies' = Outdate(cps, c, how)
      /\ UNCHANGED <<namespaces, kubeconfigs, now, edits>>
  BY DEF Put, sources
<1>2. /\ Standing'
      /\ mandate' = [mandate EXCEPT ![w] = Mandate(j)]
      /\ \A v \in Workers : v # w => job'[v] = job[v]
      /\ job'[w] = j
  BY <1>1, JobStands
<1>3. kept \in [Clusters -> Copy \cup {None}] /\ cps \in [Workers -> [Clusters -> Copy \cup {None}]]
  BY Unfold, NothingHeld DEF Held
<1>4. ASSUME NEW v \in Workers
      PROVE  /\ condemned'[v] \subseteq condemned[v]
             /\ how = "replaced" => c \notin condemned'[v]
  <2>1. condemned'[v] = Condemned(job'[v], copies'[v])
    BY DEF condemned
  <2>2. \A d \in Clusters :
            copies'[v][d] = IF d = c THEN Marked(cps[v][c], how) ELSE cps[v][d]
    <3>1. \A d \in Clusters :
              Outdate(cps, c, how)[v][d] = IF d = c THEN Marked(cps[v][c], how) ELSE cps[v][d]
      <4>1. cps \in [Workers -> [Clusters -> Copy \cup {None}]]
        BY <1>3
      <4> HIDE DEF cps
      <4> QED BY <4>1, OutdateCopies
    <3> QED BY <1>1, <3>1
  <2>3. ASSUME NEW d \in condemned'[v]
        PROVE  /\ d \in Clusters /\ cps[v][d] # None /\ cps[v][d].version # "replaced"
               /\ how = "replaced" => d # c
    <3>1. d \in Clusters /\ copies'[v][d] # None /\ copies'[v][d].version # "replaced"
      BY <2>1 DEF Condemned
    <3>2. CASE d # c
      BY <2>2, <3>1, <3>2
    <3>3. CASE d = c
      <4>1. Marked(cps[v][c], how) # None /\ Marked(cps[v][c], how).version # "replaced"
        BY <2>2, <3>1, <3>3
      <4>2. cps[v][c] \in Copy \cup {None}
        BY <1>3
      <4>3. cps[v][c] # None /\ cps[v][c] \in Copy
        BY <4>1, <4>2 DEF Marked
      <4>4. how # "replaced"
        BY <4>1, <4>3 DEF Marked, Copy
      <4>5. cps[v][c].version # "replaced"
        BY <4>1, <4>3 DEF Marked
      <4> QED BY <3>1, <3>3, <4>3, <4>4, <4>5
    <3> QED BY <3>2, <3>3
  <2>4. CASE v # w
    <3>1. cps[v] = copies[v] /\ job'[v] = job[v]
      BY <1>2, <2>4, Unfold
    <3> QED BY <2>1, <2>3, <3>1, Present DEF Condemned
  <2>5. CASE v = w
    <3>1. job'[v] = j
      BY <1>2, <2>5
    <3>2. cps[v] = kept
      BY <2>5, Unfold
    <3>3. ASSUME NEW d \in condemned'[v]
          PROVE  /\ d # c /\ Removing(job[w]) /\ d \in job[w].todo
                 /\ copies[w][d] # None /\ copies[w][d].version # "replaced"
                 /\ d \in Clusters
      <4>1. d \in Clusters /\ Removing(j) /\ d \in j.todo
        BY <2>1, <3>1 DEF Condemned
      <4>2. d # c /\ Removing(job[w]) /\ d \in job[w].todo
        BY <4>1
      <4>3. kept[d] # None
        BY <2>3, <3>2
      <4>4. kept[d] = copies[w][d]
        BY <4>1, <4>2, <4>3, Unfold DEF Held, Nothing
      <4> QED BY <2>3, <3>2, <4>1, <4>2, <4>4
    <3> QED BY <2>5, <3>3, Present DEF Condemned
  <2> QED BY <2>4, <2>5
<1>5. R!Proceeds(w)
  BY <1>2, Present DEF R!Proceeds
<1> QED BY <1>1, <1>2, <1>4, <1>5 DEF R!Writes, R!Dropped

-----------------------------------------------------------------------------
(* The steps of a pass, one by one.                                         *)

LEMMA ObserveRefines ==
    ASSUME IInv, Standing, NEW w \in Workers, NEW n \in Namespaces, GetNamespace(w, n)
    PROVE  Refines
<1> DEFINE ns == namespaces[n]
           start == [Idle EXCEPT !.key = n, !.ns = ns]
<1>1. CASE Turn(w, Ended(n, "requeue"), Nothing)
  BY <1>1, Ends DEF Ended, Idle, Resting, Outcomes
<1>2. ASSUME NEW pc \in {"list", "stale-list"}, pc = "stale-list" => ~ns.terminating,
             Turn(w, [start EXCEPT !.pc = pc], Nothing)
      PROVE  Refines
  <2> DEFINE k == [start EXCEPT !.pc = pc]
  <2>1. k.pc = pc /\ k.key = n /\ k.ns = ns
    BY DEF Idle
  <2>2. Stands(k)
    BY <1>2, <2>1 DEF Stands, Applying
  <2>3. Mandate(k) = [key |-> n, ns |-> ns, kube |-> None]
    BY <2>1 DEF Mandate, Resting, Outcomes, Applying
  <2>4. Condemned(k, Held(k, Nothing)) = {}
    BY <2>1 DEF Condemned, Removing
  <2>5. mandate[w] = R!Free /\ condemned[w] = {}
    BY <1>2, Present DEF GetNamespace, Mandate, Condemned, Removing, Resting, R!Free
  <2>6. condemned' = [condemned EXCEPT ![w] = {}]
    BY <1>2, <2>2, <2>4, TurnShows
  <2>7. condemned' = condemned
    BY <2>5, <2>6, Present
  <2>8. mandate' = [mandate EXCEPT ![w] = [key |-> n, ns |-> ns, kube |-> None]]
    BY <1>2, <2>2, <2>3, TurnShows
  <2>9. R!Observe(w, n)
    BY <1>2, <2>2, <2>5, <2>7, <2>8, TurnShows DEF R!Observe, R!cluster
  <2> QED BY <1>2, <2>2, <2>9, TurnShows DEF Refines, R!Next, R!Acts
<1>3. CASE ns = None /\ Turn(w, [start EXCEPT !.pc = "list"], Nothing)
  BY <1>2, <1>3
<1>4. CASE ns # None /\ Turn(w, [start EXCEPT !.pc = IF ns.terminating THEN "list"
                                                    ELSE "stale-list"], Nothing)
  BY <1>2, <1>4
<1> QED BY <1>1, <1>3, <1>4 DEF GetNamespace

(* Both lists that lead to deletes condemn exactly what they find.          *)
LEMMA Condemns ==
    ASSUME IInv, Standing, NEW w \in Workers, NEW j, NEW S \in SUBSET Clusters,
           Stands(j), Turn(w, j, Holding(S)), job[w].pc \notin Resting, job[w].key # None,
           Mandate(j) = Mandate(job[w]),
           S = {c \in Clusters : /\ R!OfNamespace(secrets[c], job[w].key)
                                 /\ ~secrets[c].pinned
                                 /\ job[w].ns # None =>
                                        secrets[c].uid \notin {None, job[w].ns.uid}},
           S # {} => Removing(j) /\ j.todo = S /\ j.pc \in Loops,
           S = {} => ~Removing(j)
    PROVE  Refines
<1>1. Condemned(j, Held(j, Holding(S))) = S
  <2>1. CASE S = {}
    BY <2>1 DEF Condemned
  <2>2. CASE S # {}
    <3>1. Held(j, Holding(S)) = Holding(S)
      BY <2>2 DEF Held, Loops, Outcomes
    <3>2. \A c \in S : secrets[c] # None
      BY DEF R!OfNamespace
    <3>3. \A c \in S : Holding(S)[c] # None
      BY <3>2, HoldingFaithful
    <3>4. \A c \in S : Holding(S)[c].version # "replaced"
      BY DEF Holding
    <3> QED BY <2>2, <3>1, <3>3, <3>4 DEF Condemned
  <2> QED BY <2>1, <2>2
<1>2. condemned' = [condemned EXCEPT ![w] = S]
  BY <1>1, TurnShows
<1>3. mandate[w].key = job[w].key /\ mandate[w].ns = job[w].ns /\ mandate[w] # R!Free
  BY MandateGiven, Present
<1>4. mandate' = mandate
  <2>1. mandate' = [mandate EXCEPT ![w] = Mandate(j)] /\ mandate[w] = Mandate(j)
    BY TurnShows, Present
  <2> QED BY <2>1, Present
<1>5. R!Condemn(w)
  <2>1. S = {c \in Clusters : /\ R!OfNamespace(secrets[c], mandate[w].key)
                              /\ ~secrets[c].pinned
                              /\ mandate[w].ns # None =>
                                     secrets[c].uid \notin {None, mandate[w].ns.uid}}
    BY <1>3
  <2>2. UNCHANGED R!cluster
    BY TurnShows DEF R!cluster
  <2> HIDE DEF R!cluster
  <2> QED BY <1>2, <1>3, <1>4, <2>1, <2>2 DEF R!Condemn
<1> QED BY <1>5, TurnShows DEF Refines, R!Next, R!Acts

LEMMA ListStaleRefines ==
    ASSUME IInv, Standing, NEW w \in Workers, ListStale(w)
    PROVE  Refines
<1> DEFINE j == job[w]
           S == {c \in Predecessors(j) : ~secrets[c].pinned}
           k == [j EXCEPT !.pc = IF S = {} THEN "discover" ELSE "stale-delete", !.todo = S]
<1>1. /\ j \in Job /\ j.pc = "stale-list" /\ j.ns \in Namespace /\ ~j.ns.terminating
      /\ j.pc \notin Resting /\ j.key # None /\ j.ns # None
      /\ Turn(w, k, Holding(S))
  BY AtWork, AbsentAssumption, NoneAssumption, NamespacesAssumption
     DEF ListStale, Standing, Stands, WorkerOK, Resting, Outcomes
<1>2. k.pc = (IF S = {} THEN "discover" ELSE "stale-delete") /\ k.todo = S
      /\ k.key = j.key /\ k.ns = j.ns
  BY <1>1 DEF Job
<1>3. Stands(k)
  BY <1>1, <1>2 DEF Stands
<1>4. Mandate(k) = Mandate(j)
  BY <1>1, <1>2 DEF Mandate, Resting, Outcomes, Applying
<1>5. S = {c \in Clusters : /\ R!OfNamespace(secrets[c], j.key)
                            /\ ~secrets[c].pinned
                            /\ j.ns # None => secrets[c].uid \notin {None, j.ns.uid}}
  BY <1>1 DEF Predecessors, Recorded, R!OfNamespace
<1>6. S # {} => Removing(k) /\ k.todo = S /\ k.pc \in Loops
  BY <1>2 DEF Removing, Loops
<1>7. S = {} => ~Removing(k)
  BY <1>2 DEF Removing
<1>8. S \in SUBSET Clusters
  BY <1>5
<1> HIDE DEF S, k
<1> QED BY <1>1, <1>3, <1>4, <1>5, <1>6, <1>7, <1>8, Condemns

LEMMA DiscoverRefines ==
    ASSUME IInv, Standing, NEW w \in Workers, Discover(w)
    PROVE  Refines
<1> DEFINE j == job[w]
           k == [j EXCEPT !.pc = "get-secret", !.kube = kubeconfigs[j.key]]
<1>1. /\ j \in Job /\ j.pc = "discover" /\ ~j.ns.terminating /\ j.ns \in Namespace
      /\ j.pc \notin Resting /\ j.key # None /\ j.ns # None
  BY AtWork, AbsentAssumption, NoneAssumption, NamespacesAssumption
     DEF Discover, Standing, Stands, WorkerOK, Resting, Outcomes
<1>2. CASE Turn(w, Ended(j.key, "requeue"), Nothing)
  BY <1>2, Ends DEF Ended, Idle, Resting, Outcomes
<1>3. CASE j.ns.cluster # None /\ kubeconfigs[j.key] # None /\ Turn(w, k, Nothing)
  <2>1. k.pc = "get-secret" /\ k.key = j.key /\ k.ns = j.ns /\ k.kube = kubeconfigs[j.key]
    BY <1>1 DEF Job
  <2>2. Stands(k)
    BY <1>1, <2>1 DEF Stands
  <2>3. Mandate(k) = [Mandate(j) EXCEPT !.kube = kubeconfigs[j.key]]
    BY <1>1, <2>1 DEF Mandate, Resting, Outcomes, Applying
  <2>4. Condemned(k, Held(k, Nothing)) = {} /\ condemned[w] = {}
    BY <1>1, <2>1, Present DEF Condemned, Removing
  <2>5. condemned' = condemned
    <3>1. condemned' = [condemned EXCEPT ![w] = {}]
      BY <1>3, <2>2, <2>4, TurnShows
    <3> QED BY <2>4, <3>1, Present
  <2>6. mandate' = [mandate EXCEPT ![w].kube = kubeconfigs[j.key]]
    <3>1. mandate' = [mandate EXCEPT ![w] = [Mandate(j) EXCEPT !.kube = kubeconfigs[j.key]]]
      BY <1>3, <2>2, <2>3, TurnShows
    <3>2. mandate[w] = Mandate(j)
      BY Present
    <3> QED BY <3>1, <3>2
  <2>7. mandate[w] # R!Free /\ mandate[w].key = j.key /\ mandate[w].ns = j.ns
    BY <1>1, MandateGiven, Present
  <2>8. R!Equip(w)
    BY <1>1, <1>3, <2>2, <2>5, <2>6, <2>7, TurnShows DEF R!Equip, R!cluster
  <2> QED BY <1>3, <2>2, <2>8, TurnShows DEF Refines, R!Next, R!Acts
<1> QED BY <1>2, <1>3 DEF Discover

(* The reads between discovery and the write decide only whether to go on.  *)
LEMMA ApplyReadsRefine ==
    ASSUME IInv, Standing, NEW w \in Workers,
           \/ GetSecret(w) \/ ListClaimants(w) \/ ListServers(w)
           \/ \E n \in Namespaces : CheckIncumbent(w, n)
    PROVE  Refines
<1> DEFINE j == job[w]
<1>1. /\ j \in Job /\ j.pc \in Applying /\ ~j.ns.terminating
      /\ j.pc \notin Resting /\ j.key # None
  BY AtWork, NoneAssumption, NamespacesAssumption
     DEF GetSecret, ListClaimants, ListServers, CheckIncumbent, Standing, Stands, Resting,
         Outcomes, Applying
<1>2. ASSUME NEW held, Turn(w, Refused(j), held)
      PROVE  Refines
  BY <1>2, Ends DEF Refused, Ended, Idle, Resting, Outcomes
<1>3. ASSUME NEW pc \in Applying \cup {"list"}, NEW r \in SUBSET Namespaces, NEW held,
             Turn(w, [j EXCEPT !.pc = pc, !.rivals = r], held)
      PROVE  Refines
  <2> DEFINE k == [j EXCEPT !.pc = pc, !.rivals = r]
  <2>1. k.pc = pc /\ k.key = j.key /\ k.ns = j.ns /\ k.kube = j.kube
    BY <1>1 DEF Job
  <2>2. Stands(k)
    BY <1>1, <2>1 DEF Stands, Applying
  <2>3. Mandate(k) \in {Mandate(j), [Mandate(j) EXCEPT !.kube = None]}
    BY <1>1, <2>1 DEF Mandate, Resting, Outcomes, Applying
  <2>4. Condemned(k, Held(k, held)) = {}
    BY <2>1 DEF Condemned, Removing, Applying
  <2> QED BY <1>1, <1>3, <2>2, <2>3, <2>4, Waives
<1>4. ASSUME NEW pc \in Applying \cup {"list"}, NEW held, Turn(w, [j EXCEPT !.pc = pc], held)
      PROVE  Refines
  <2>1. [j EXCEPT !.pc = pc] = [j EXCEPT !.pc = pc, !.rivals = j.rivals]
        /\ j.rivals \in SUBSET Namespaces
    BY <1>1 DEF Job
  <2>2. Turn(w, [j EXCEPT !.pc = pc, !.rivals = j.rivals], held)
    BY <1>4, <2>1
  <2> QED BY <1>3, <2>1, <2>2
<1>5. CASE GetSecret(w)
  BY <1>2, <1>4, <1>5 DEF GetSecret, Applying
<1>6. CASE ListClaimants(w)
  BY <1>2, <1>4, <1>6 DEF ListClaimants, Applying
<1>7. CASE ListServers(w)
  <2> DEFINE rivals == {secrets[c].source : c \in Colliding(j)}
             firm == \E c \in Colliding(j) : secrets[c].pinned \/ secrets[c].source = None
  <2>1. ~firm => rivals \in SUBSET Namespaces
    BY AtWork DEF Colliding, Registration
  <2>2. CASE firm
    BY <1>2, <1>7, <2>2 DEF ListServers
  <2>3. CASE ~firm /\ rivals = {}
    <3>1. Turn(w, [j EXCEPT !.pc = "write", !.rivals = rivals], copies[w])
      BY <1>7, <2>3 DEF ListServers
    <3> QED BY <1>3, <2>1, <2>3, <3>1 DEF Applying
  <2>4. CASE ~firm /\ rivals # {}
    <3>1. Turn(w, [j EXCEPT !.pc = "incumbents", !.rivals = rivals], copies[w])
      BY <1>7, <2>4 DEF ListServers
    <3> QED BY <1>3, <2>1, <2>4, <3>1 DEF Applying
  <2> QED BY <2>2, <2>3, <2>4
<1>8. ASSUME NEW n \in Namespaces, CheckIncumbent(w, n)
      PROVE  Refines
  <2> DEFINE left == [j EXCEPT !.rivals = @ \ {n}]
  <2>1. /\ j.rivals \ {n} \in SUBSET Namespaces
        /\ left = [j EXCEPT !.pc = j.pc, !.rivals = j.rivals \ {n}]
        /\ [left EXCEPT !.pc = "write"] = [j EXCEPT !.pc = "write", !.rivals = j.rivals \ {n}]
    BY <1>1 DEF Job
  <2>2. CASE Turn(w, [left EXCEPT !.pc = "write"], copies[w])
    BY <1>3, <2>1, <2>2 DEF Applying
  <2>3. CASE Turn(w, left, copies[w])
    BY <1>1, <1>3, <2>1, <2>3
  <2> QED BY <1>2, <1>8, <2>2, <2>3 DEF CheckIncumbent
<1> QED BY <1>5, <1>6, <1>7, <1>8

LEMMA ListOwnedRefines ==
    ASSUME IInv, Standing, NEW w \in Workers, ListOwned(w)
    PROVE  Refines
<1> DEFINE j == job[w]
           items == IF ProvenGone(j) \/ Applied(j) # None THEN Superseded(j) ELSE {}
           out == Result(j, Recorded(j.key))
           k == [j EXCEPT !.pc = "collect", !.todo = items, !.kube = None, !.outcome = out]
<1>1. /\ j \in Job /\ j.pc = "list" /\ j.pc \notin Resting /\ j.key # None
  BY AtWork, NoneAssumption, NamespacesAssumption DEF ListOwned, Resting, Outcomes
<1>2. CASE items = {}
  <2>1. Turn(w, Ended(j.key, out), Holding(items))
    BY <1>2 DEF ListOwned
  <2>2. Ended(j.key, out).pc \in Resting
    BY DEF Ended, Idle, Result, Resting, Outcomes
  <2> QED BY <2>1, <2>2, Ends
<1>3. CASE items # {}
  <2>1. Turn(w, k, Holding(items))
    BY <1>3 DEF ListOwned
  <2>2. k.pc = "collect" /\ k.key = j.key /\ k.ns = j.ns /\ k.todo = items
    BY <1>1 DEF Job
  <2>3. Mandate(k) = Mandate(j)
    BY <1>1, <2>2 DEF Mandate, Resting, Outcomes, Applying
  <2>4. ProvenGone(k) <=> ProvenGone(j)
    BY <2>2 DEF ProvenGone
  <2>5. items \in SUBSET Clusters
    BY DEF Superseded, Recorded
  <2>6. CASE ProvenGone(j)
    <3>1. Stands(k)
      BY <2>2, <2>4, <2>6 DEF Stands, Applying
    <3>2. Applied(j) = None /\ j.ns = None
      BY <2>6 DEF ProvenGone, Applied
    <3>3. None \notin Clusters
      BY NoneAssumption
    <3>4. items = {c \in Clusters : /\ R!OfNamespace(secrets[c], j.key)
                                    /\ ~secrets[c].pinned
                                    /\ j.ns # None => secrets[c].uid \notin {None, j.ns.uid}}
      BY <2>6, <3>2, <3>3 DEF Superseded, Recorded, R!OfNamespace
    <3>5. Removing(k) /\ k.pc \in Loops
      BY <2>2, <2>4, <2>6 DEF Removing, Loops
    <3> HIDE DEF items, k
    <3> QED BY <1>1, <1>3, <2>1, <2>2, <2>3, <2>5, <3>1, <3>4, <3>5, Condemns
  <2>7. CASE ~ProvenGone(j)
    <3>1. Applied(j) # None
      BY <1>3, <2>7
    <3>2. ~j.ns.terminating /\ Applied(j) = j.ns.cluster
      BY <2>7, <3>1 DEF Applied, ProvenGone
    <3>3. j.ns.cluster \notin items
      BY <2>7, <3>2 DEF Superseded
    <3>4. Stands(k)
      BY <2>2, <3>2, <3>3 DEF Stands, Applying
    <3>5. Condemned(k, Held(k, Holding(items))) = {}
      BY <2>2, <2>4, <2>7 DEF Condemned, Removing
    <3> HIDE DEF items, k
    <3> QED BY <1>1, <2>1, <2>3, <3>4, <3>5, Waives
  <2> QED BY <2>6, <2>7
<1> QED BY <1>2, <1>3

(* Creating and updating are one step on the Secret as it is.               *)
LEMMA WriteRefines ==
    ASSUME IInv, Standing, NEW w \in Workers, Create(w) \/ Update(w)
    PROVE  Refines
<1> DEFINE j == job[w]
           c == j.ns.cluster
           cp == copies[w][c]
           k == [j EXCEPT !.pc = "list", !.kube = None]
<1>1. /\ j \in Job /\ j.pc = "write" /\ ~j.ns.terminating
      /\ j.pc \notin Resting /\ j.key # None
      /\ j.ns \in Namespace /\ c \in Clusters /\ j.kube \in Kubeconfigs
      /\ copies[w] \in [Clusters -> Copy \cup {None}]
      /\ WorkerOK(j, copies[w]) /\ CopiesFaithful(copies[w], secrets)
      /\ secrets \in [Clusters -> Registration \cup {None}]
  BY AtWork, NoneAssumption, NamespacesAssumption
     DEF Create, Update, Standing, Stands, WorkerOK, Resting, Outcomes, Applying
<1>2. k.pc = "list" /\ k.key = j.key /\ k.ns = j.ns
  BY <1>1 DEF Job
<1>3. Stands(k) /\ ~Removing(k)
  BY <1>2 DEF Stands, Applying, Removing
<1>4. Mandate(k) = [Mandate(j) EXCEPT !.kube = None]
  BY <1>1, <1>2 DEF Mandate, Resting, Outcomes, Applying
<1>5. R!Entitled(w, c) /\ R!Entry(mandate[w]) = Want(j) /\ mandate[w].key = j.key
  <2>1. /\ mandate[w] # R!Free /\ mandate[w].key = j.key /\ mandate[w].ns = j.ns
        /\ mandate[w].kube = j.kube
    BY <1>1, MandateGiven, Present DEF Applying
  <2>2. j.kube # None
    BY <1>1, NoneAssumption
  <2> QED BY <2>1, <2>2 DEF R!Entitled, R!Entry, Want
<1>6. CASE \E o \in Outcomes : Turn(w, Ended(j.key, o), Nothing)
  BY <1>6, Ends DEF Ended, Idle, Resting
<1>7. CASE secrets[c] = None /\ Put(w, c, Want(j), "replaced", k)
  <2>1. Standing' /\ R!Writes(w, c, Want(j))
    BY <1>1, <1>3, <1>4, <1>7, PutShows
  <2>2. R!Register(w, c)
    BY <1>5, <1>7, <2>1 DEF R!Register
  <2> QED BY <1>1, <2>1, <2>2 DEF Refines, R!Next, R!Acts
<1>8. CASE cp # None /\ SameVersion(cp) /\ Put(w, c, Merge(cp.obj, Want(j)), "rewritten", k)
  <2>1. Standing' /\ R!Writes(w, c, Merge(cp.obj, Want(j)))
    BY <1>1, <1>3, <1>4, <1>8, PutShows
  <2>2. secrets[c] = cp.obj /\ MayWrite(cp.obj, j.key)
    BY <1>1, <1>8 DEF CopiesFaithful, SameVersion, WorkerOK, Applying
  <2>3. secrets[c] # None
    BY <1>1, <1>8, <2>2, AbsentAssumption DEF Copy
  <2>4. Merge(cp.obj, Want(j)) = [R!Entry(mandate[w]) EXCEPT !.pinned = secrets[c].pinned]
    BY <1>5, <2>2 DEF Merge
  <2>5. R!Refresh(w, c)
    BY <1>5, <2>1, <2>2, <2>3, <2>4 DEF R!Refresh, MayWrite
  <2> QED BY <1>1, <2>1, <2>5 DEF Refines, R!Next, R!Acts
<1> QED BY <1>6, <1>7, <1>8 DEF Create, Update, Refused, Outcomes

(* An item of a loop: removed because it was condemned, demoted or expired  *)
(* because of what it is at that step, or left.                             *)
LEMMA ItemRefines ==
    ASSUME IInv, Standing, NEW w \in Workers, NEW c \in Clusters,
           \/ DeleteOrphan(w, c) \/ KeepDemoted(w, c) \/ DeleteExpired(w, c)
           \/ Demote(w, c) \/ ItemError(w, c)
    PROVE  Refines
<1> DEFINE j == job[w]
           cp == copies[w][c]
           rest == [copies[w] EXCEPT ![c] = None]
<1>1. /\ j \in Job /\ j.pc \in Loops /\ c \in j.todo
      /\ copies[w] \in [Clusters -> Copy \cup {None}]
      /\ WorkerOK(j, copies[w]) /\ CopiesFaithful(copies[w], secrets)
      /\ secrets \in [Clusters -> Registration \cup {None}]
      /\ now \in Nat
  BY AtWork, Unfold
     DEF DeleteOrphan, KeepDemoted, DeleteExpired, Demote, ItemError, At, Loops, SharedOK
<1>2. /\ j.pc \notin Resting /\ j.key # None /\ Stands(j)
      /\ cp # None /\ cp \in Copy /\ cp.obj \in Registration
      /\ cp.obj.owned /\ cp.obj.source = j.key /\ ~cp.obj.pinned
  BY <1>1, AtWork, NoneAssumption, NamespacesAssumption
     DEF Loops, Resting, Outcomes, WorkerOK, Standing, Copy
<1>3. ASSUME NEW k \in {ItemDone(j, c), ItemKept(j, c), ItemFailed(j, c)}
      PROVE  /\ Stands(k)
             /\ Mandate(k) \in {Mandate(j), R!Free}
             /\ Removing(k) => Removing(j) /\ k.todo \subseteq j.todo \ {c}
  <2>1. CASE k.pc = j.pc /\ k.key = j.key /\ k.ns = j.ns /\ k.todo = j.todo \ {c}
    <3>1. Stands(k)
      BY <1>1, <1>2, <2>1 DEF Stands, Loops, Applying, ProvenGone
    <3>2. Mandate(k) = Mandate(j)
      BY <1>1, <2>1 DEF Mandate, Loops, Resting, Outcomes, Applying
    <3>3. Removing(k) <=> Removing(j)
      BY <2>1 DEF Removing, ProvenGone
    <3> QED BY <2>1, <3>1, <3>2, <3>3
  <2>2. CASE j.pc = "stale-delete" /\ k.pc = "discover" /\ k.key = j.key /\ k.ns = j.ns
    <3>1. Stands(k)
      BY <1>2, <2>2 DEF Stands, Applying
    <3>2. Mandate(k) = Mandate(j)
      BY <2>2 DEF Mandate, Resting, Outcomes, Applying
    <3> QED BY <2>2, <3>1, <3>2 DEF Removing
  <2>3. CASE k.pc \in Outcomes
    BY <2>3 DEF Stands, Mandate, Removing, Applying, Resting, Outcomes, R!Free
  <2> QED BY <1>1, <2>1, <2>2, <2>3, ItemShape
<1>4. CASE \E k \in {ItemDone(j, c), ItemKept(j, c), ItemFailed(j, c)} : Turn(w, k, rest)
  <2>1. PICK k \in {ItemDone(j, c), ItemKept(j, c), ItemFailed(j, c)} : Turn(w, k, rest)
    BY <1>4
  <2>2. /\ Stands(k)
        /\ Mandate(k) \in {Mandate(j), R!Free}
        /\ Removing(k) => Removing(j) /\ k.todo \subseteq j.todo \ {c}
    BY <1>3
  <2>3. Condemned(k, Held(k, rest)) \subseteq Condemned(j, copies[w])
    <3> SUFFICES ASSUME NEW d \in Condemned(k, Held(k, rest))
                 PROVE  d \in Condemned(j, copies[w])
      OBVIOUS
    <3>1. /\ d \in Clusters /\ Removing(j) /\ d \in j.todo /\ d # c
          /\ Held(k, rest)[d] # None /\ Held(k, rest)[d].version # "replaced"
      BY <2>2 DEF Condemned
    <3>2. Held(k, rest)[d] = copies[w][d]
      BY <1>1, <3>1 DEF Held, Nothing
    <3> QED BY <3>1, <3>2 DEF Condemned
  <2> HIDE DEF rest
  <2> QED BY <1>2, <2>1, <2>2, <2>3, Waives
<1>5. ASSUME NEW s, NEW how \in {"rewritten", "replaced"}, Put(w, c, s, how, ItemDone(j, c))
      PROVE  /\ Standing' /\ R!Writes(w, c, s)
             /\ how = "replaced" => \A v \in Workers : c \notin condemned'[v]
  BY <1>2, <1>3, <1>5, PutShows
<1>6. j.pc = "collect" /\ ~ProvenGone(j) /\ SameVersion(cp) => R!Outlived(w, c)
  <2>1. /\ mandate[w] # R!Free /\ mandate[w].key = j.key /\ mandate[w].ns = j.ns
    BY <1>2, MandateGiven, Present
  <2>2. SameVersion(cp) => secrets[c] = cp.obj /\ secrets[c] # None
    BY <1>1, <1>2, AbsentAssumption DEF SameVersion, CopiesFaithful
  <2> QED BY <1>1, <1>2, <2>1, <2>2 DEF Stands, ProvenGone, R!Outlived, R!OfNamespace
<1>7. SameVersion(cp) => secrets[c] = cp.obj
  BY <1>1, <1>2 DEF SameVersion, CopiesFaithful
<1>8. CASE DeleteOrphan(w, c)
  <2>1. CASE SameObject(cp) /\ Put(w, c, None, "replaced", ItemDone(j, c))
    <3>1. c \in condemned[w]
      BY <1>1, <1>2, <1>8, <2>1, Present DEF DeleteOrphan, At, Condemned, Removing, SameObject
    <3>2. R!Remove(w, c)
      BY <1>5, <2>1, <3>1 DEF R!Remove, R!Removes
    <3> QED BY <1>5, <2>1, <3>2 DEF Refines, R!Next, R!Acts
  <2> QED BY <1>4, <1>8, <2>1 DEF DeleteOrphan
<1>9. CASE KeepDemoted(w, c)
  BY <1>4, <1>9 DEF KeepDemoted
<1>10. CASE DeleteExpired(w, c)
  <2>1. CASE SameVersion(cp) /\ Put(w, c, None, "replaced", ItemDone(j, c))
    <3>1. R!Outlived(w, c) /\ secrets[c].state = "demoted" /\ Expired(secrets[c])
      BY <1>6, <1>7, <1>10, <2>1 DEF DeleteExpired, At
    <3>2. R!Expire(w, c)
      BY <1>5, <2>1, <3>1 DEF R!Expire, R!Removes, Expired
    <3> QED BY <1>5, <2>1, <3>2 DEF Refines, R!Next, R!Acts
  <2> QED BY <1>4, <1>10, <2>1 DEF DeleteExpired
<1>11. CASE Demote(w, c)
  <2>1. CASE /\ SameVersion(cp)
             /\ Put(w, c, [cp.obj EXCEPT !.state = "demoted", !.since = now], "rewritten",
                    ItemDone(j, c))
    <3>1. R!Outlived(w, c) /\ secrets[c].state = "active" /\ secrets[c] = cp.obj
      BY <1>6, <1>7, <1>11, <2>1 DEF Demote, At
    <3>2. R!Demote(w, c)
      BY <1>5, <2>1, <3>1 DEF R!Demote
    <3> QED BY <1>5, <2>1, <3>2 DEF Refines, R!Next, R!Acts
  <2> QED BY <1>4, <1>11, <2>1 DEF Demote
<1>12. CASE ItemError(w, c)
  BY <1>4, <1>12 DEF ItemError
<1> QED BY <1>8, <1>9, <1>10, <1>11, <1>12

LEMMA PassRefines ==
    ASSUME IInv, Standing, NEW w \in Workers, Progress(w) \/ Fault(w)
    PROVE  Refines
<1>1. CASE \/ DiscoverFails(w) \/ CheckFails(w) \/ Abort(w) \/ Return(w) \/ Crash(w)
           \/ \E n \in Namespaces : GetFails(w, n)
  <2>1. /\ \A n : \A o \in Outcomes : Ended(n, o).pc \in Resting
        /\ Idle.pc \in Resting
    BY DEF Ended, Idle, Resting, Outcomes
  <2>2. \/ \E n : \E o \in Outcomes : Turn(w, Ended(n, o), Nothing)
        \/ Turn(w, Idle, Nothing)
    BY <1>1 DEF DiscoverFails, CheckFails, Abort, Return, Crash, GetFails, Refused, Outcomes
  <2> QED BY <2>1, <2>2, Ends
<1> QED BY <1>1, ObserveRefines, ListStaleRefines, DiscoverRefines, ApplyReadsRefine,
           ListOwnedRefines, WriteRefines, ItemRefines DEF Progress, Fault

(* What happens outside: whoever touches a Secret is counted, and a Secret  *)
(* somebody replaced is nobody's to remove any more.                        *)
LEMMA OutsideRefines ==
    ASSUME IInv, Standing, Environment
    PROVE  Refines
<1>1. job' = job
  BY DEF Environment, Relabel, CreateNamespace, Provision, Reprovision, DeleteNamespace,
         Finalize, SetManaged, HandCreate, SetPin, Strip, HandRemove, HandReplace, Tick, Edit,
         worker
<1>2. Standing' /\ mandate' = mandate
  BY <1>1 DEF Standing, mandate
<1>3. \/ secrets' = secrets /\ copies' = copies
      \/ /\ edits' = edits + 1
         /\ \E d \in Clusters, how \in {"rewritten", "replaced"} : copies' = Outdate(copies, d, how)
  BY DEF Environment, Relabel, CreateNamespace, Provision, Reprovision, DeleteNamespace,
         Finalize, SetManaged, HandCreate, SetPin, Strip, HandRemove, HandReplace, Tick, Edit,
         EditNamespace, EditSecret, worker
<1>4. ASSUME NEW v \in Workers
      PROVE  R!Dropped(v)
  <2>1. condemned'[v] = Condemned(job[v], copies'[v])
    BY <1>1 DEF condemned
  <2>2. CASE copies' = copies
    BY <2>1, <2>2, Present DEF R!Dropped
  <2>3. CASE \E d \in Clusters, how \in {"rewritten", "replaced"} :
                 copies' = Outdate(copies, d, how)
    <3>1. PICK d \in Clusters, how \in {"rewritten", "replaced"} :
              copies' = Outdate(copies, d, how)
      BY <2>3
    <3>2. copies \in [Workers -> [Clusters -> Copy \cup {None}]]
      BY Unfold
    <3>3. \A c \in Clusters :
              copies'[v][c] = IF c = d THEN Marked(copies[v][d], how) ELSE copies[v][c]
      BY <3>1, <3>2, OutdateCopies
    <3>4. ASSUME Marked(copies[v][d], how) # None,
                 Marked(copies[v][d], how).version # "replaced"
          PROVE  copies[v][d] # None /\ copies[v][d].version # "replaced"
      <4>1. copies[v][d] \in Copy \cup {None}
        BY <3>2
      <4>2. copies[v][d] # None
        BY <3>4 DEF Marked
      <4> QED BY <3>4, <4>1, <4>2 DEF Marked, Copy
    <3> QED BY <2>1, <3>3, <3>4, Present DEF Condemned, R!Dropped
  <2> QED BY <1>3, <2>2, <2>3
<1>5. R!Outside
  BY <1>2, <1>3, <1>4 DEF R!Outside
<1> QED BY <1>2, <1>5 DEF Refines, R!Next

LEMMA StutterRefines ==
    ASSUME IInv, Standing, UNCHANGED vars
    PROVE  Refines
<1>1. UNCHANGED <<namespaces, kubeconfigs, secrets, now, edits, job, copies>>
  BY DEF vars, sources, worker
<1>2. Standing' /\ mandate' = mandate /\ condemned' = condemned
  BY <1>1 DEF Standing, mandate, condemned
<1> QED BY <1>1, <1>2 DEF Refines, R!vars

LEMMA InitRefines == Init => R!Init /\ Standing
<1> SUFFICES ASSUME Init PROVE R!Init /\ Standing
  OBVIOUS
<1>1. \A w \in Workers : job[w] = Idle /\ copies[w] = Nothing
  BY DEF Init
<1>2. Stands(Idle) /\ Mandate(Idle) = R!Free /\ Condemned(Idle, Nothing) = {}
  BY DEF Stands, Mandate, Condemned, Removing, Idle, Resting, Outcomes, Applying, R!Free
<1>3. Standing
  BY <1>1, <1>2 DEF Standing
<1>4. mandate = [w \in Workers |-> R!Free] /\ condemned = [w \in Workers |-> {}]
  BY <1>1, <1>2 DEF mandate, condemned
<1> QED BY <1>3, <1>4 DEF Init, R!Init

-----------------------------------------------------------------------------
(* The promise: however passes, crashes and outside changes interleave, the *)
(* Secrets change only as Registry says, each write decided on the Secret   *)
(* as it is when it is written.                                             *)
THEOREM Implementation == Spec => ImplementsRegistry
<1>1. Init => R!Init /\ Standing
  BY InitRefines
<1>2. IInv /\ Standing /\ [Next]_vars => [R!Next]_(R!vars) /\ Standing'
  BY PassRefines, OutsideRefines, StutterRefines DEF Next, Refines
<1> QED BY <1>1, <1>2, Invariance, PTL DEF Spec, ImplementsRegistry, R!Spec

=============================================================================
