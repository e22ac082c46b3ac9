-------------------------- MODULE ControllerProofs --------------------------
(***************************************************************************)
(* What Controller guarantees for any set of namespaces, clusters and      *)
(* processes and any bounds: its steps are steps of Reconcile, and a       *)
(* process forgets no namespace that still matters.                        *)
(*                                                                         *)
(* The second part is about what the controller owes to running one pass   *)
(* at a time: it removes nothing without evidence, takes no address that   *)
(* is in use and hides no registration without a successor.                *)
(*                                                                         *)
(* The third part sets a sweep beside it: whatever is proved of every      *)
(* interleaving of passes still holds, what needs one pass at a time holds *)
(* as long as nobody sweeps, and the sweep does what it is for.            *)
(***************************************************************************)
EXTENDS Sweep, ReconcileProofs

Working(pc) == pc \notin {"idle"} \cup Outcomes

(* A pass has a namespace, and between passes nothing is remembered; only   *)
(* one that found its namespace gone and has listed what it left behind     *)
(* says that nothing is left.                                               *)
Sound(j) ==
    /\ IF j.pc = "idle" THEN j = Idle ELSE j.key \in Namespaces
    /\ j.pc \in Outcomes => j.ns = None
    /\ j.pc # "collect" => j.outcome # "finished"
    /\ j.pc = "collect" /\ j.outcome = "finished" => j.ns = None

(* What it has to show for that answer, when no other pass is under way: on *)
(* its list is every registration there still is.                           *)
Answers(j) ==
    /\ Sound(j)
    /\ j.pc = "collect" /\ j.outcome = "finished" => Recorded(j.key) \subseteq j.todo
    /\ j.pc = "finished" => Recorded(j.key) = {}

(* The next state k of a pass at j: it is about the same namespace, and     *)
(* what was read of that is kept as long as it goes on.                     *)
Follows(j, k) ==
    /\ k.key = j.key
    /\ k.pc # "idle"
    /\ IF k.pc \in Outcomes THEN k.ns = None ELSE k.ns = j.ns
    /\ k.pc = "finished" => j.ns = None
    /\ k.pc # "collect" => k.outcome # "finished"
    /\ k.pc = "collect" /\ k.outcome = "finished" => j.ns = None

(* The steps that read, or refuse.                                          *)
LEMMA ReadFollows ==
    ASSUME NEW w \in Workers, job \in [Workers -> Job], Sound(job[w]),
           \/ ListStale(w) \/ Discover(w) \/ DiscoverFails(w) \/ GetSecret(w)
           \/ ListClaimants(w) \/ ListServers(w) \/ CheckFails(w) \/ Abort(w)
           \/ \E n \in Namespaces : CheckIncumbent(w, n)
    PROVE  /\ Working(job[w].pc)
           /\ UNCHANGED <<sources, secrets>>
           /\ \E k : /\ job' = [job EXCEPT ![w] = k]
                     /\ Follows(job[w], k)
                     /\ k.pc \notin {"collect", "finished"}
<1> DEFINE j == job[w]
<1>0. j \in Job
  OBVIOUS
<1>1. \A k, held : Turn(w, k, held) => job' = [job EXCEPT ![w] = k] /\ UNCHANGED <<sources, secrets>>
  BY DEF Turn
<1>2. \A o \in {"requeue", "failed"} :
          Follows(j, Ended(j.key, o)) /\ Ended(j.key, o).pc = o
  BY DEF Follows, Ended, Idle, Outcomes
<1>3. /\ Refused(j) = Ended(j.key, "requeue")
      /\ {"requeue", "failed"} \subseteq Outcomes
  BY DEF Refused, Outcomes
<1> DEFINE To(k) == job' = [job EXCEPT ![w] = k] /\ Follows(j, k) /\ k.pc \notin {"collect", "finished"}
<1>5. ASSUME NEW k, NEW held, Turn(w, k, held), Follows(j, k), k.pc \notin {"collect", "finished"}
      PROVE  UNCHANGED <<sources, secrets>> /\ To(k)
  BY <1>1, <1>5
<1>6. ASSUME NEW held, NEW o \in {"requeue", "failed"}, Turn(w, Ended(j.key, o), held)
      PROVE  UNCHANGED <<sources, secrets>> /\ To(Ended(j.key, o))
  BY <1>2, <1>5, <1>6
<1>7. CASE ListStale(w)
  <2> DEFINE stale == {c \in Predecessors(j) : ~secrets[c].pinned}
             k == [j EXCEPT !.pc = IF stale = {} THEN "discover" ELSE "stale-delete", !.todo = stale]
  <2>1. j.pc = "stale-list" /\ Turn(w, k, Holding(stale))
    BY <1>7 DEF ListStale
  <2>2. Follows(j, k) /\ k.pc \notin {"collect", "finished"}
    BY <1>0, <2>1 DEF Follows, Sound, Job, Outcomes
  <2> HIDE DEF k, stale
  <2> QED BY <1>5, <2>1, <2>2 DEF Working, Outcomes
<1>8. CASE Discover(w)
  <2> DEFINE k == [j EXCEPT !.pc = "get-secret", !.kube = kubeconfigs[j.key]]
  <2>1. j.pc = "discover" /\ (Turn(w, Ended(j.key, "requeue"), Nothing) \/ Turn(w, k, Nothing))
    BY <1>8 DEF Discover
  <2>2. Follows(j, k) /\ k.pc \notin {"collect", "finished"}
    BY <1>0, <2>1 DEF Follows, Sound, Job, Outcomes
  <2> HIDE DEF k
  <2> QED BY <1>5, <1>6, <2>1, <2>2 DEF Working, Outcomes
<1>9. CASE DiscoverFails(w) \/ CheckFails(w) \/ Abort(w)
  BY <1>3, <1>6, <1>9 DEF DiscoverFails, CheckFails, Abort, Working, Outcomes
<1>10. CASE GetSecret(w)
  <2>1. /\ j.pc = "get-secret"
        /\ \E held : \/ Turn(w, Ended(j.key, "requeue"), held)
                     \/ \E pc \in {"claimants", "list", "servers", "write"} :
                            Turn(w, [j EXCEPT !.pc = pc], held)
    BY <1>3, <1>10 DEF GetSecret
  <2>2. \A pc \in {"claimants", "list", "servers", "write"} :
            /\ Follows(j, [j EXCEPT !.pc = pc])
            /\ [j EXCEPT !.pc = pc].pc \notin {"collect", "finished"}
    BY <1>0, <2>1 DEF Follows, Sound, Job, Outcomes
  <2> QED BY <1>5, <1>6, <2>1, <2>2 DEF Working, Outcomes
<1>11. CASE ListClaimants(w)
  <2> DEFINE k == [j EXCEPT !.pc = "servers"]
  <2>1. j.pc = "claimants" /\ (Turn(w, Ended(j.key, "requeue"), Nothing) \/ Turn(w, k, Nothing))
    BY <1>3, <1>11 DEF ListClaimants
  <2>2. Follows(j, k) /\ k.pc \notin {"collect", "finished"}
    BY <1>0, <2>1 DEF Follows, Sound, Job, Outcomes
  <2> HIDE DEF k
  <2> QED BY <1>5, <1>6, <2>1, <2>2 DEF Working, Outcomes
<1>12. CASE ListServers(w)
  <2> DEFINE rivals == {secrets[c].source : c \in Colliding(j)}
             k == [j EXCEPT !.pc = IF rivals = {} THEN "write" ELSE "incumbents",
                            !.rivals = rivals]
  <2>1. j.pc = "servers" /\ (Turn(w, Ended(j.key, "requeue"), copies[w]) \/ Turn(w, k, copies[w]))
    BY <1>3, <1>12 DEF ListServers
  <2>2. Follows(j, k) /\ k.pc \notin {"collect", "finished"}
    BY <1>0, <2>1 DEF Follows, Sound, Job, Outcomes
  <2> HIDE DEF k, rivals
  <2> QED BY <1>5, <1>6, <2>1, <2>2 DEF Working, Outcomes
<1>13. ASSUME NEW n \in Namespaces, CheckIncumbent(w, n)
       PROVE  /\ Working(job[w].pc)
              /\ UNCHANGED <<sources, secrets>>
              /\ \E k : To(k)
  <2> DEFINE left == [j EXCEPT !.rivals = @ \ {n}]
             k == IF left.rivals = {} THEN [left EXCEPT !.pc = "write"] ELSE left
  <2>1. j.pc = "incumbents" /\ (Turn(w, Ended(j.key, "requeue"), Nothing) \/ Turn(w, k, copies[w]))
    BY <1>3, <1>13 DEF CheckIncumbent
  <2>2. Follows(j, k) /\ k.pc \notin {"collect", "finished"}
    BY <1>0, <2>1 DEF Follows, Sound, Job, Outcomes
  <2> HIDE DEF k, left
  <2> QED BY <1>5, <1>6, <2>1, <2>2 DEF Working, Outcomes
<1> QED BY <1>7, <1>8, <1>9, <1>10, <1>11, <1>12, <1>13

(* An item dealt with: a pass says that nothing is left only if it dealt    *)
(* with the last of a list that was to be removed entirely.                 *)
LEMMA ItemFollows ==
    ASSUME NEW j \in Job, NEW c \in j.todo, j.pc \in Loops, Sound(j),
           NEW k \in {ItemDone(j, c), ItemKept(j, c), ItemFailed(j, c)}
    PROVE  /\ Follows(j, k)
           /\ k.pc \in Loops => k.pc = j.pc /\ k.todo = j.todo \ {c}
           /\ k.pc = "collect" /\ k.outcome = "finished" =>
                  j.pc = "collect" /\ j.outcome = "finished" /\ k.todo = j.todo \ {c}
                  /\ k = ItemDone(j, c)
           /\ k.pc = "finished" =>
                  j.pc = "collect" /\ j.outcome = "finished" /\ j.todo = {c}
                  /\ k = ItemDone(j, c)
<1>1. ASSUME NEW o \in Outcomes, o = "finished" => j.pc = "collect" /\ j.outcome = "finished"
      PROVE  LET k1 == ItemDone([j EXCEPT !.outcome = o], c)
             IN  /\ Follows(j, k1)
                 /\ k1.pc \in Loops => k1.pc = j.pc /\ k1.todo = j.todo \ {c}
                 /\ k1.pc = "collect" => k1.outcome = o /\ j.pc = "collect" /\ k1.todo = j.todo \ {c}
                 /\ k1.pc = "finished" => o = "finished" /\ j.todo = {c}
  <2> DEFINE i == [j EXCEPT !.outcome = o]
             left == [i EXCEPT !.todo = @ \ {c}]
             next == [left EXCEPT !.pc = "discover"]
             over == Ended(j.key, o)
  <2>1. /\ left.pc = j.pc /\ left.key = j.key /\ left.ns = j.ns /\ left.outcome = o
        /\ left.todo = j.todo \ {c} /\ i.outcome = o /\ i.pc = j.pc /\ i.key = j.key
        /\ next.pc = "discover" /\ next.key = j.key /\ next.ns = j.ns /\ next.outcome = o
    BY DEF Job
  <2>2. over.pc = o /\ over.key = j.key /\ over.ns = None /\ over.outcome = "requeue"
    BY DEF Ended, Idle
  <2>3. j.pc \in {"stale-delete", "collect"}
    BY DEF Loops
  <2>4. j.pc = "collect" /\ j.outcome = "finished" => j.ns = None
    BY DEF Sound
  <2>5. IF left.todo # {} THEN ItemDone(i, c) = left
        ELSE IF j.pc = "stale-delete" /\ o # "failed" THEN ItemDone(i, c) = next
        ELSE ItemDone(i, c) = over
    BY <2>1 DEF ItemDone
  <2> HIDE DEF i, left, next, over
  <2>6. CASE left.todo # {}
    BY <1>1, <2>1, <2>3, <2>4, <2>5, <2>6 DEF Follows, Outcomes, Loops, i
  <2>7. CASE left.todo = {} /\ j.pc = "stale-delete" /\ o # "failed"
    BY <1>1, <2>1, <2>5, <2>7 DEF Follows, Outcomes, Loops, i
  <2>8. CASE left.todo = {} /\ ~(j.pc = "stale-delete" /\ o # "failed")
    BY <1>1, <2>1, <2>2, <2>3, <2>4, <2>5, <2>8 DEF Follows, Outcomes, Loops, i
  <2> QED BY <2>6, <2>7, <2>8
<1>2. /\ j.outcome \in Outcomes
      /\ j.outcome = "finished" => j.pc = "collect"
      /\ j = [j EXCEPT !.outcome = j.outcome]
  BY DEF Job, Sound
<1>3. /\ ItemDone(j, c) = ItemDone([j EXCEPT !.outcome = j.outcome], c)
      /\ ItemKept(j, c) = ItemDone([j EXCEPT !.outcome =
                             IF j.outcome = "finished" THEN "requeue" ELSE j.outcome], c)
      /\ ItemFailed(j, c) = ItemDone([j EXCEPT !.outcome = "failed"], c)
      /\ "requeue" \in Outcomes /\ "failed" \in Outcomes /\ "finished" \in Outcomes
  BY <1>2 DEF ItemKept, ItemFailed, Outcomes
<1> DEFINE kept == IF j.outcome = "finished" THEN "requeue" ELSE j.outcome
<1>4. CASE k = ItemDone(j, c)
  BY <1>1, <1>2, <1>3, <1>4
<1>5. CASE k = ItemKept(j, c)
  <2>1. kept \in Outcomes /\ kept # "finished"
    BY <1>2, <1>3
  <2> HIDE DEF kept
  <2>2. k = ItemDone([j EXCEPT !.outcome = kept], c)
    BY <1>3, <1>5 DEF kept
  <2> QED BY <1>1, <2>1, <2>2
<1>6. CASE k = ItemFailed(j, c)
  <2>1. k = ItemDone([j EXCEPT !.outcome = "failed"], c)
    BY <1>3, <1>6
  <2> QED BY <1>1, <1>3, <2>1
<1> QED BY <1>4, <1>5, <1>6

(* A write changes what is recorded against one namespace at most.          *)
LEMMA PutRecords ==
    ASSUME secrets \in [Clusters -> Registration \cup {None}], NEW w, NEW c \in Clusters,
           NEW s \in Registration \cup {None}, NEW how, NEW k, Put(w, c, s, how, k), NEW n
    PROVE  /\ Recorded(n)' \subseteq Recorded(n) \cup {c}
           /\ s = None \/ s.source # n => Recorded(n)' = Recorded(n) \ {c}
BY DEF Put, Recorded

(* What a call of the pass at j leaves behind: a pass that goes on or ends, *)
(* with the right answer, and no registration of a namespace that had none, *)
(* except of its own while it goes on.                                      *)
Keeps(w, j) ==
    /\ Working(j.pc)
    /\ UNCHANGED sources
    /\ \E k : /\ job' = [job EXCEPT ![w] = k]
              /\ Follows(j, k)
              /\ Answers(j) => Answers(k)'
              /\ \A n \in Namespaces :
                     Recorded(n)' # {} => Recorded(n) # {} \/ (n = j.key /\ k.pc # "finished")

(* A step that goes on to k, or ends with it, after doing nothing to what   *)
(* is recorded that the answer of k would not bear.                         *)
LEMMA StepKeeps ==
    ASSUME NEW w, NEW j, NEW k, Sound(j), Working(j.pc), UNCHANGED sources,
           job' = [job EXCEPT ![w] = k], Follows(j, k),
           Answers(j) /\ k.pc = "collect" /\ k.outcome = "finished" => Recorded(j.key)' \subseteq k.todo,
           Answers(j) /\ k.pc = "finished" => Recorded(j.key)' = {},
           \A n \in Namespaces : Recorded(n)' # {} => Recorded(n) # {} \/ (n = j.key /\ k.pc # "finished")
    PROVE  Keeps(w, j)
<1>1. Answers(j) => Answers(k)'
  BY DEF Answers, Sound, Follows, Working, Outcomes
<1> QED BY <1>1 DEF Keeps

LEMMA ApplyKeeps ==
    ASSUME IInv, NEW w \in Workers, NEW j, job[w] = j, Sound(j), Create(w) \/ Update(w)
    PROVE  Keeps(w, j)
<1> DEFINE c == j.ns.cluster
           k == [j EXCEPT !.pc = "list", !.kube = None]
<1>0. /\ j \in Job /\ secrets \in [Clusters -> Registration \cup {None}]
      /\ copies[w] \in [Clusters -> Copy \cup {None}] /\ WorkerOK(j, copies[w])
  BY AtWork
<1>1. j.pc = "write"
  BY DEF Create, Update
<1>2. /\ c \in Clusters /\ j.kube \in Kubeconfigs /\ j.key \in Namespaces /\ j.ns \in Namespace
      /\ copies[w][c] # None => copies[w][c].obj \in Registration
  BY <1>0, <1>1 DEF WorkerOK, Applying, Resting, Outcomes, Copy
<1>3. ASSUME NEW o \in {"requeue", "failed"}, NEW held, Turn(w, Ended(j.key, o), held)
      PROVE  Keeps(w, j)
  <2>1. Follows(j, Ended(j.key, o)) /\ Ended(j.key, o).pc = o
    BY DEF Follows, Ended, Idle, Outcomes
  <2>2. /\ job' = [job EXCEPT ![w] = Ended(j.key, o)]
        /\ UNCHANGED sources
        /\ \A n : Recorded(n)' = Recorded(n)
    BY <1>3 DEF Turn, Recorded
  <2> QED BY <1>1, <2>1, <2>2, StepKeeps DEF Working, Outcomes
<1>4. ASSUME NEW s \in Registration, NEW how, s.source = j.key, Put(w, c, s, how, k)
      PROVE  Keeps(w, j)
  <2>1. Follows(j, k) /\ k.pc = "list" /\ k.key = j.key
    BY <1>0, <1>1 DEF Follows, Sound, Job, Outcomes
  <2> HIDE DEF k
  <2>2. \A n \in Namespaces : Recorded(n)' # {} => Recorded(n) # {} \/ n = j.key
    BY <1>0, <1>2, <1>4, PutRecords
  <2>3. job' = [job EXCEPT ![w] = k] /\ UNCHANGED sources
    BY <1>4 DEF Put
  <2> HIDE DEF c
  <2> QED BY <1>1, <2>1, <2>2, <2>3, StepKeeps DEF Working, Outcomes
<1>5. CASE Create(w)
  <2>1. Put(w, c, Want(j), "replaced", k) \/ Turn(w, Ended(j.key, "requeue"), Nothing)
    BY <1>5 DEF Create, Refused
  <2>2. Want(j) \in Registration /\ Want(j).source = j.key
    BY <1>2 DEF Want, Registration, Namespace
  <2> HIDE DEF c, k
  <2> QED BY <1>3, <1>4, <2>1, <2>2
<1>6. CASE Update(w)
  <2> DEFINE s == Merge(copies[w][c].obj, Want(j))
  <2>1. copies[w][c] # None
    BY <1>6 DEF Update
  <2>2. Put(w, c, s, "rewritten", k) \/ Turn(w, Ended(j.key, "failed"), Nothing)
    BY <1>6 DEF Update
  <2>3. s \in Registration /\ s.source = j.key
    BY <1>2, <2>1 DEF Want, Merge, Registration, Namespace
  <2> HIDE DEF s, c, k
  <2> QED BY <1>3, <1>4, <2>2, <2>3
<1> QED BY <1>5, <1>6

LEMMA ReadKeeps ==
    ASSUME IInv, NEW w \in Workers, NEW j, job[w] = j, Sound(j),
           \/ ListStale(w) \/ Discover(w) \/ DiscoverFails(w) \/ GetSecret(w)
           \/ ListClaimants(w) \/ ListServers(w) \/ CheckFails(w) \/ Abort(w)
           \/ \E n \in Namespaces : CheckIncumbent(w, n)
    PROVE  Keeps(w, j)
<1>1. job \in [Workers -> Job]
  BY DEF IInv, TypeOK
<1>2. PICK k : /\ Working(j.pc) /\ UNCHANGED <<sources, secrets>>
               /\ job' = [job EXCEPT ![w] = k]
               /\ Follows(j, k) /\ k.pc \notin {"collect", "finished"}
  BY <1>1, ReadFollows
<1>3. \A n : Recorded(n)' = Recorded(n)
  BY <1>2 DEF Recorded
<1> QED BY <1>2, <1>3, StepKeeps

(* The list decides the answer: it says that nothing is left when nothing   *)
(* listed is pinned and all of it is to be removed.                         *)
LEMMA ListKeeps ==
    ASSUME IInv, NEW w \in Workers, NEW j, job[w] = j, Sound(j), ListOwned(w)
    PROVE  Keeps(w, j)
<1> DEFINE items == IF ProvenGone(j) \/ Applied(j) # None THEN Superseded(j) ELSE {}
           result == Result(j, Recorded(j.key))
           started == [j EXCEPT !.pc = "collect", !.todo = items, !.kube = None, !.outcome = result]
           over == Ended(j.key, result)
<1>0. /\ j \in Job /\ j.pc = "list"
      /\ Turn(w, IF items = {} THEN over ELSE started, Holding(items))
  BY AtWork DEF ListOwned
<1>1. /\ result \in {"finished", "requeue"}
      /\ result = "finished" => j.ns = None /\ items = Recorded(j.key)
  <2>1. ASSUME result = "finished"
        PROVE  j.ns = None /\ \A c \in Recorded(j.key) : ~secrets[c].pinned
    BY <2>1 DEF Result, ProvenGone
  <2>2. ASSUME result = "finished"
        PROVE  items = Superseded(j)
    BY <2>1, <2>2 DEF ProvenGone
  <2>3. ASSUME j.ns = None
        PROVE  \A c \in Clusters : c # Applied(j)
    BY <2>3, NoneAssumption DEF Applied
  <2>4. ASSUME result = "finished"
        PROVE  Superseded(j) = Recorded(j.key)
    BY <2>1, <2>3, <2>4 DEF Superseded, Recorded
  <2>5. result \in {"finished", "requeue"}
    BY DEF Result
  <2> HIDE DEF result, items
  <2> QED BY <2>1, <2>2, <2>4, <2>5
<1>2. \A n : Recorded(n)' = Recorded(n)
  BY <1>0 DEF Turn, Recorded
<1>3. /\ started.pc = "collect" /\ started.key = j.key /\ started.ns = j.ns
      /\ started.todo = items /\ started.outcome = result
      /\ over.pc = result /\ over.key = j.key /\ over.ns = None /\ over.outcome = "requeue"
  BY <1>0 DEF Job, Ended, Idle
<1>4. UNCHANGED sources /\ Working(j.pc)
  BY <1>0 DEF Turn, Working, Outcomes
<1> HIDE DEF items, result, started, over
<1>5. CASE items = {}
  <2>1. job' = [job EXCEPT ![w] = over]
    BY <1>0, <1>5 DEF Turn
  <2>2. Follows(j, over)
    BY <1>1, <1>3 DEF Follows, Outcomes
  <2>3. over.pc = "finished" => Recorded(j.key) = {}
    BY <1>1, <1>3, <1>5
  <2> QED BY <1>1, <1>2, <1>3, <1>4, <2>1, <2>2, <2>3, StepKeeps
<1>6. CASE items # {}
  <2>1. job' = [job EXCEPT ![w] = started]
    BY <1>0, <1>6 DEF Turn
  <2>2. Follows(j, started)
    BY <1>1, <1>3 DEF Follows, Outcomes
  <2> QED BY <1>1, <1>2, <1>3, <1>4, <2>1, <2>2, StepKeeps
<1> QED BY <1>5, <1>6

(* One item of a loop.                                                      *)
LEMMA ItemKeeps ==
    ASSUME IInv, NEW w \in Workers, NEW j, job[w] = j, Sound(j), NEW c \in Clusters,
           \/ DeleteOrphan(w, c) \/ KeepDemoted(w, c) \/ DeleteExpired(w, c)
           \/ Demote(w, c) \/ ItemError(w, c)
    PROVE  Keeps(w, j)
<1>0. /\ j \in Job /\ secrets \in [Clusters -> Registration \cup {None}]
      /\ copies[w] \in [Clusters -> Copy \cup {None}] /\ WorkerOK(j, copies[w])
      /\ now \in Nat
  BY AtWork, Unfold DEF SharedOK
<1>1. c \in j.todo /\ j.pc \in Loops
  BY DEF DeleteOrphan, KeepDemoted, DeleteExpired, Demote, ItemError, At, Loops
<1>2. /\ copies[w][c] # None /\ copies[w][c].obj \in Registration
      /\ copies[w][c].obj.source = j.key
      /\ Working(j.pc)
  BY <1>0, <1>1 DEF WorkerOK, Copy, Loops, Working, Outcomes
(* A step that leaves no Secret to be removed behind.                       *)
<1>3. ASSUME NEW k \in {ItemDone(j, c), ItemKept(j, c), ItemFailed(j, c)},
             job' = [job EXCEPT ![w] = k], UNCHANGED sources,
             \A n : Recorded(n)' \subseteq Recorded(n),
             k = ItemDone(j, c) /\ j.pc = "collect" /\ j.outcome = "finished" =>
                 c \notin Recorded(j.key)'
      PROVE  Keeps(w, j)
  <2>1. /\ Follows(j, k)
        /\ k.pc = "collect" /\ k.outcome = "finished" =>
               j.pc = "collect" /\ j.outcome = "finished" /\ k.todo = j.todo \ {c}
               /\ k = ItemDone(j, c)
        /\ k.pc = "finished" =>
               j.pc = "collect" /\ j.outcome = "finished" /\ j.todo = {c}
               /\ k = ItemDone(j, c)
    BY <1>0, <1>1, ItemFollows
  <2>2. Answers(j) /\ j.pc = "collect" /\ j.outcome = "finished" => Recorded(j.key) \subseteq j.todo
    BY DEF Answers
  <2>3. Recorded(j.key)' \subseteq Recorded(j.key) /\ \A n \in Namespaces : Recorded(n)' # {} => Recorded(n) # {}
    BY <1>3
  <2> QED BY <1>2, <1>3, <2>1, <2>2, <2>3, StepKeeps
<1>4. ASSUME NEW k \in {ItemDone(j, c), ItemKept(j, c), ItemFailed(j, c)},
             NEW held, Turn(w, k, held),
             k = ItemDone(j, c) /\ j.pc = "collect" /\ j.outcome = "finished" =>
                 c \notin Recorded(j.key)
      PROVE  Keeps(w, j)
  <2>1. /\ job' = [job EXCEPT ![w] = k] /\ UNCHANGED <<sources, secrets>>
    BY <1>4 DEF Turn
  <2>2. \A n : Recorded(n)' = Recorded(n)
    BY <2>1 DEF Recorded
  <2> QED BY <1>3, <1>4, <2>1, <2>2
<1>5. ASSUME NEW how, Put(w, c, None, how, ItemDone(j, c))
      PROVE  Keeps(w, j)
  <2>1. \A n : Recorded(n)' = Recorded(n) \ {c}
    BY <1>0, <1>5, PutRecords
  <2>2. job' = [job EXCEPT ![w] = ItemDone(j, c)] /\ UNCHANGED sources
    BY <1>5 DEF Put
  <2> QED BY <1>3, <2>1, <2>2
<1>6. j.pc = "collect" /\ j.outcome = "finished" => ProvenGone(j)
  BY DEF Sound, ProvenGone
<1>7. secrets[c] = None => c \notin Recorded(j.key)
  BY DEF Recorded
<1>8. CASE DeleteOrphan(w, c)
  <2>1. ItemKept(j, c) = ItemDone(j, c) => ~(j.pc = "collect" /\ j.outcome = "finished")
    BY <1>0, <1>1 DEF Sound, Job, ItemKept, ItemDone, Ended, Idle
  <2>2. \/ Put(w, c, None, "replaced", ItemDone(j, c))
        \/ /\ secrets[c] = None
           /\ Turn(w, ItemDone(j, c), [copies[w] EXCEPT ![c] = None])
        \/ Turn(w, ItemKept(j, c), [copies[w] EXCEPT ![c] = None])
    BY <1>8 DEF DeleteOrphan
  <2> QED BY <1>4, <1>5, <1>7, <2>1, <2>2
<1>9. CASE KeepDemoted(w, c)
  BY <1>4, <1>6, <1>9 DEF KeepDemoted
<1>10. CASE DeleteExpired(w, c)
  BY <1>4, <1>5, <1>6, <1>10 DEF DeleteExpired
<1>11. CASE ItemError(w, c)
  <2>1. ItemFailed(j, c) = ItemDone(j, c) => ~(j.pc = "collect" /\ j.outcome = "finished")
    BY <1>0, <1>1 DEF Sound, Job, ItemFailed, ItemDone, Ended, Idle
  <2> QED BY <1>4, <1>11, <2>1 DEF ItemError
<1>12. CASE Demote(w, c)
  <2> DEFINE s == [copies[w][c].obj EXCEPT !.state = "demoted", !.since = now]
  <2>1. \/ SameVersion(copies[w][c]) /\ Put(w, c, s, "rewritten", ItemDone(j, c))
        \/ Turn(w, ItemFailed(j, c), [copies[w] EXCEPT ![c] = None])
    BY <1>12 DEF Demote
  <2>2. ~ProvenGone(j)
    BY <1>12 DEF Demote
  <2>3. CASE SameVersion(copies[w][c]) /\ Put(w, c, s, "rewritten", ItemDone(j, c))
    <3>1. s \in Registration /\ s.source = j.key
      BY <1>0, <1>2 DEF Registration
    <3>2. c \in Recorded(j.key)
      <4>1. secrets[c] = copies[w][c].obj
        BY <1>2, <2>3, AtWork DEF CopiesFaithful, SameVersion
      <4>2. copies[w][c].obj.owned /\ secrets[c] # None
        BY <1>0, <1>1, <1>2, <4>1, AbsentAssumption DEF WorkerOK
      <4> QED BY <1>2, <4>1, <4>2 DEF Recorded
    <3> HIDE DEF s
    <3>3. \A n : Recorded(n)' \subseteq Recorded(n)
      BY <1>0, <2>3, <3>1, <3>2, PutRecords
    <3>4. job' = [job EXCEPT ![w] = ItemDone(j, c)] /\ UNCHANGED sources
      BY <2>3 DEF Put
    <3> QED BY <1>3, <1>6, <2>2, <3>3, <3>4
  <2> QED BY <1>4, <1>6, <2>1, <2>2, <2>3
<1> QED BY <1>8, <1>9, <1>10, <1>11, <1>12

(* Any call, and any that fails.                                            *)
Calls(w) ==
    \/ ListStale(w) \/ Discover(w) \/ DiscoverFails(w) \/ GetSecret(w)
    \/ ListClaimants(w) \/ ListServers(w) \/ CheckFails(w) \/ Abort(w)
    \/ Create(w) \/ Update(w) \/ ListOwned(w)
    \/ \E n \in Namespaces : CheckIncumbent(w, n)
    \/ \E c \in Clusters : \/ DeleteOrphan(w, c) \/ KeepDemoted(w, c) \/ DeleteExpired(w, c)
                           \/ Demote(w, c) \/ ItemError(w, c)

LEMMA CallKeeps ==
    ASSUME IInv, NEW w \in Workers, NEW j, job[w] = j, Sound(j), Calls(w)
    PROVE  Keeps(w, j)
BY ReadKeeps, ApplyKeeps, ListKeeps, ItemKeeps DEF Calls

(* Nobody outside makes a registration of ours: what is recorded against a  *)
(* namespace only goes.                                                     *)
LEMMA OutsideRecords ==
    ASSUME IInv, Environment
    PROVE  UNCHANGED job /\ \A n \in Namespaces : Recorded(n)' \subseteq Recorded(n)
<1>0. secrets \in [Clusters -> Registration \cup {None}]
  BY Unfold DEF SharedOK
<1>1. CASE UNCHANGED <<secrets, job>>
  BY <1>1 DEF Recorded
<1>2. ASSUME NEW c \in Clusters, NEW s, secrets' = [secrets EXCEPT ![c] = s], UNCHANGED job,
             \/ s = None
             \/ secrets[c] # None /\ s.owned = secrets[c].owned /\ s.source \in {None, secrets[c].source}
             \/ s.owned = FALSE
      PROVE  UNCHANGED job /\ \A n \in Namespaces : Recorded(n)' \subseteq Recorded(n)
  <2>1. \A n \in Namespaces : n # None
    BY NamespacesAssumption, NoneAssumption
  <2> QED BY <1>0, <1>2, <2>1 DEF Recorded
<1>3. ASSUME NEW c \in Clusters, NEW k \in Kubeconfigs, HandCreate(c, k)
      PROVE  \E s : secrets' = [secrets EXCEPT ![c] = s] /\ s.owned = FALSE /\ UNCHANGED job
  <2> DEFINE s == [owned |-> FALSE, source |-> None, uid |-> None, named |-> FALSE,
                   state |-> "active", since |-> None, pinned |-> FALSE, kube |-> k]
  <2>1. s.owned = FALSE
    OBVIOUS
  <2>2. secrets' = [secrets EXCEPT ![c] = s] /\ UNCHANGED job
    BY <1>3 DEF HandCreate, EditSecret, Edit
  <2> HIDE DEF s
  <2> QED BY <2>1, <2>2
<1>4. ASSUME NEW c \in Clusters, HandRemove(c)
      PROVE  secrets' = [secrets EXCEPT ![c] = None] /\ UNCHANGED job
  BY <1>4 DEF HandRemove, EditSecret, Edit
<1>5. ASSUME NEW c \in Clusters, SetPin(c) \/ Strip(c) \/ HandReplace(c)
      PROVE  \E s : /\ secrets' = [secrets EXCEPT ![c] = s] /\ UNCHANGED job
                    /\ secrets[c] # None /\ s.owned = secrets[c].owned
                    /\ s.source \in {None, secrets[c].source}
  <2>1. secrets[c] \in Registration
    BY <1>0, <1>5 DEF SetPin, Strip, HandReplace
  <2> DEFINE s == secrets[c]
  <2>2. \A t \in {[s EXCEPT !.pinned = ~@], [s EXCEPT !.source = None], [s EXCEPT !.uid = None],
                  [s EXCEPT !.named = FALSE], [s EXCEPT !.since = None], s} :
            t.owned = s.owned /\ t.source \in {None, s.source}
    BY <2>1 DEF Registration
  <2>3. s # None
    BY <1>5 DEF SetPin, Strip, HandReplace
  <2>4. \E t \in {[s EXCEPT !.pinned = ~@], [s EXCEPT !.source = None], [s EXCEPT !.uid = None],
                  [s EXCEPT !.named = FALSE], [s EXCEPT !.since = None], s} :
            secrets' = [secrets EXCEPT ![c] = t] /\ UNCHANGED job
    BY <1>5 DEF SetPin, Strip, HandReplace, EditSecret, Edit
  <2> QED BY <2>2, <2>3, <2>4
<1>6. \/ UNCHANGED <<secrets, job>>
      \/ \E c \in Clusters : \/ \E k \in Kubeconfigs : HandCreate(c, k)
                             \/ HandRemove(c) \/ SetPin(c) \/ Strip(c) \/ HandReplace(c)
  BY DEF Environment, Relabel, CreateNamespace, Provision, Reprovision, DeleteNamespace,
         Finalize, SetManaged, Tick, Edit, EditNamespace, worker
<1>7. ASSUME NEW c \in Clusters,
             \/ \E k \in Kubeconfigs : HandCreate(c, k)
             \/ HandRemove(c) \/ SetPin(c) \/ Strip(c) \/ HandReplace(c)
      PROVE  UNCHANGED job /\ \A n \in Namespaces : Recorded(n)' \subseteq Recorded(n)
  BY <1>2, <1>3, <1>4, <1>5, <1>7
<1> QED BY <1>1, <1>6, <1>7

(* Outside, nobody makes or revives a registration of a namespace: what is  *)
(* there afterwards with a source was there before, at the same address and *)
(* as live, whatever label it has lost.                                     *)
LEMMA OutsideLive ==
    ASSUME IInv, Environment, NEW c \in Clusters,
           secrets'[c] # None, secrets'[c].source # None
    PROVE  /\ secrets[c] # None
           /\ secrets'[c].source = secrets[c].source
           /\ secrets'[c].owned = secrets[c].owned
           /\ secrets'[c].state = secrets[c].state
           /\ secrets'[c].kube = secrets[c].kube
<1>0. secrets \in [Clusters -> Registration \cup {None}]
  BY Unfold DEF SharedOK
<1> DEFINE Same(s, t) == /\ t.source = s.source /\ t.owned = s.owned
                         /\ t.state = s.state /\ t.kube = s.kube
<1>1. CASE UNCHANGED secrets
  BY <1>1
<1>2. ASSUME NEW d \in Clusters, NEW s, secrets' = [secrets EXCEPT ![d] = s],
             \/ s = None \/ s.source = None
             \/ secrets[d] # None /\ Same(secrets[d], s)
      PROVE  secrets[c] # None /\ Same(secrets[c], secrets'[c])
  BY <1>0, <1>2
<1>3. ASSUME NEW d \in Clusters, NEW k \in Kubeconfigs, HandCreate(d, k)
      PROVE  secrets[c] # None /\ Same(secrets[c], secrets'[c])
  <2> DEFINE s == [owned |-> FALSE, source |-> None, uid |-> None, named |-> FALSE,
                   state |-> "active", since |-> None, pinned |-> FALSE, kube |-> k]
  <2>1. s.source = None
    OBVIOUS
  <2>2. secrets' = [secrets EXCEPT ![d] = s]
    BY <1>3 DEF HandCreate, EditSecret
  <2> HIDE DEF s, Same
  <2> QED BY <1>2, <2>1, <2>2
<1>4. ASSUME NEW d \in Clusters, HandRemove(d) \/ HandReplace(d)
      PROVE  secrets[c] # None /\ Same(secrets[c], secrets'[c])
  <2>1. /\ secrets[d] # None
        /\ \E s \in {None, secrets[d]} : secrets' = [secrets EXCEPT ![d] = s]
    BY <1>4 DEF HandRemove, HandReplace, EditSecret
  <2> QED BY <1>2, <2>1
<1>5. ASSUME NEW d \in Clusters, SetPin(d) \/ Strip(d)
      PROVE  secrets[c] # None /\ Same(secrets[c], secrets'[c])
  <2> DEFINE s == secrets[d]
             edited == {[s EXCEPT !.pinned = ~@], [s EXCEPT !.source = None], [s EXCEPT !.uid = None],
                        [s EXCEPT !.named = FALSE], [s EXCEPT !.since = None]}
  <2>1. s \in Registration /\ s # None
    BY <1>0, <1>5 DEF SetPin, Strip
  <2>2. \A t \in edited : t.source = None \/ Same(s, t)
    BY <2>1 DEF Registration
  <2>3. \E t \in edited : secrets' = [secrets EXCEPT ![d] = t]
    BY <1>5 DEF SetPin, Strip, EditSecret
  <2> HIDE DEF edited, Same
  <2> QED BY <1>2, <2>1, <2>2, <2>3
<1>6. \/ UNCHANGED secrets
      \/ \E d \in Clusters : \/ \E k \in Kubeconfigs : HandCreate(d, k)
                             \/ HandRemove(d) \/ SetPin(d) \/ Strip(d) \/ HandReplace(d)
  BY DEF Environment, Relabel, CreateNamespace, Provision, Reprovision, DeleteNamespace,
         Finalize, SetManaged, Tick, EditNamespace
<1> QED BY <1>1, <1>3, <1>4, <1>5, <1>6

-----------------------------------------------------------------------------
(* A pass that begins, or whose namespace cannot be read.                   *)
Begins(w, n, k) ==
    /\ job' = [job EXCEPT ![w] = k]
    /\ k.key = n
    /\ k.pc \in {"list", "stale-list", "requeue", "failed"} /\ k.outcome = "requeue"
    /\ k.ns = IF k.pc \in Outcomes THEN None ELSE namespaces[n]
    /\ n \in WatchedNames => k.ns # None \/ k.pc \in {"requeue", "failed"}

LEMMA BeginsWith ==
    ASSUME NEW w \in Workers, NEW n \in Namespaces, GetNamespace(w, n) \/ GetFails(w, n)
    PROVE  \E k : Begins(w, n, k)
<1> DEFINE j == [Idle EXCEPT !.key = n, !.ns = namespaces[n]]
           listing == [j EXCEPT !.pc = "list"]
           going == [j EXCEPT !.pc = "stale-list"]
<1>1. \A k \in {listing, going} :
          /\ k.key = n /\ k.pc \in {"list", "stale-list"}
          /\ k.outcome = "requeue" /\ k.ns = namespaces[n]
  BY DEF Idle, Outcomes
<1>2. \A o \in {"requeue", "failed"} :
          /\ Ended(n, o).key = n /\ Ended(n, o).pc = o /\ Ended(n, o).ns = None
          /\ Ended(n, o).outcome = "requeue"
  BY DEF Ended, Idle
<1>3. n \in WatchedNames => namespaces[n] # None
  BY DEF WatchedNames, Watched
<1>4. \E k \in {listing, going, Ended(n, "requeue"), Ended(n, "failed")} :
          job' = [job EXCEPT ![w] = k]
  BY DEF GetNamespace, GetFails, Turn
<1> HIDE DEF j, listing, going
<1> QED BY <1>1, <1>2, <1>3, <1>4 DEF Begins, Outcomes

(* Whatever the number of workers and the interleaving, every pass stays    *)
(* sound.                                                                   *)
AllSound == \A w \in Workers : Sound(job[w])

LEMMA SoundStep ==
    ASSUME IInv, AllSound, [Next]_vars
    PROVE  AllSound'
<1>0. job \in [Workers -> Job]
  BY Unfold
<1>1. CASE UNCHANGED job
  BY <1>1 DEF AllSound, Sound, Idle, Outcomes
<1>2. ASSUME NEW w \in Workers, NEW k, job' = [job EXCEPT ![w] = k], Sound(k)
      PROVE  AllSound'
  BY <1>0, <1>2 DEF AllSound, Sound, Idle, Outcomes
<1>3. ASSUME NEW w \in Workers, \E n \in Namespaces : GetNamespace(w, n) \/ GetFails(w, n)
      PROVE  AllSound'
  <2>1. PICK n \in Namespaces : \E k : Begins(w, n, k)
    BY <1>3, BeginsWith
  <2>2. PICK k : Begins(w, n, k)
    BY <2>1
  <2> QED BY <1>2, <2>2 DEF Begins, Sound
<1>4. ASSUME NEW w \in Workers, Calls(w)
      PROVE  AllSound'
  <2>1. PICK j : j = job[w]
    OBVIOUS
  <2>2. Sound(j) /\ Keeps(w, j)
    BY <1>4, <2>1, CallKeeps DEF AllSound
  <2>3. PICK k : job' = [job EXCEPT ![w] = k] /\ Follows(j, k)
    BY <2>2 DEF Keeps
  <2>4. Sound(k)
    BY <2>2, <2>3 DEF Keeps, Working, Sound, Follows, Outcomes
  <2> QED BY <1>2, <2>3, <2>4
<1>5. ASSUME NEW w \in Workers, Return(w) \/ Crash(w)
      PROVE  AllSound'
  <2>1. Sound(Idle) /\ job' = [job EXCEPT ![w] = Idle]
    BY <1>5 DEF Sound, Idle, Outcomes, Return, Crash, Turn
  <2> QED BY <1>2, <2>1
<1>6. CASE Environment
  BY <1>1, <1>6, OutsideRecords
<1>7. CASE UNCHANGED vars
  BY <1>1, <1>7 DEF vars, worker
<1>8. ASSUME NEW w \in Workers, Progress(w) \/ Fault(w)
      PROVE  AllSound'
  BY <1>3, <1>4, <1>5, <1>8 DEF Progress, Fault, Calls
<1> QED BY <1>6, <1>7, <1>8 DEF Next

-----------------------------------------------------------------------------
(* The invariant of the controller.  NothingForgotten says what a process   *)
(* that has seeded remembers; Remembers says what one remembers on the way  *)
(* there, and what it takes to drop a key.                                  *)

(* Whether the pass at j will put n back: it has seen the namespace, or has *)
(* ended otherwise than with nothing left.                                  *)
InHand(j, n) == j.key = n /\ (j.ns # None \/ j.pc \in {"requeue", "failed"})

Remembers(p) ==
    /\ ~Up(p) => job[p] = Idle /\ queue[p] = {} /\ seeds[p] = {}
    /\ Answers(job[p])
    /\ Up(p) => \A n \in WatchedNames : n \in queue[p] \/ InHand(job[p], n)
    /\ phase[p] \in {"seed-queue", "seeded"} =>
           \A n \in RecordedNames : n \in seeds[p] \/ Pending(p, n)
    /\ phase[p] = "seeded" => seeds[p] = {}

ControllersTyped ==
    /\ phase \in [Workers -> Phase]
    /\ seeds \in [Workers -> SUBSET Namespaces]
    /\ queue \in [Workers -> SUBSET Namespaces]
    /\ faults \in 0..MaxFaults

OneUp == \A p, q \in Workers : Up(p) /\ Up(q) => p = q

CInv ==
    /\ IInv
    /\ ControllersTyped
    /\ OneUp
    /\ \A p \in Workers : Remembers(p)

LEMMA CInvImplies ==
    ASSUME CInv
    PROVE  ControllerTypeOK /\ NothingForgotten
<1>1. ControllerTypeOK
  BY DEF CInv, ControllersTyped, Remembers, ControllerTypeOK
<1>2. ASSUME NEW p \in Workers, phase[p] = "seeded", NEW n \in WatchedNames \cup RecordedNames
      PROVE  Pending(p, n)
  <2>1. Remembers(p) /\ Up(p)
    BY <1>2 DEF CInv, Up
  <2>2. CASE n \in RecordedNames
    BY <1>2, <2>1, <2>2 DEF Remembers
  <2>3. CASE n \in WatchedNames /\ n \notin RecordedNames
    <3>1. n \in queue[p] \/ InHand(job[p], n)
      BY <2>1, <2>3 DEF Remembers
    <3>2. job[p].pc = "finished" => job[p].ns = None
      BY <2>1 DEF Remembers, Answers, Sound, Outcomes
    <3> QED BY <3>1, <3>2 DEF InHand, Pending
  <2> QED BY <2>2, <2>3
<1> QED BY <1>1, <1>2 DEF NothingForgotten

(* A process that is not up remembers nothing, and need not.                *)
LEMMA DownRemembers ==
    ASSUME NEW q \in Workers, phase[q] = "down", job[q] = Idle, queue[q] = {}, seeds[q] = {}
    PROVE  Remembers(q)
BY DEF Remembers, Up, Answers, Sound, Idle, Outcomes

(* A step of the one process that is up, or that starts.                    *)
LEMMA RunKeeps ==
    ASSUME CInv, IInv', ControllersTyped', NEW p \in Workers,
           \A q \in Workers : Up(q) => q = p,
           \A q \in Workers : q # p =>
               phase'[q] = phase[q] /\ job'[q] = job[q] /\ queue'[q] = queue[q] /\ seeds'[q] = seeds[q],
           Remembers(p)'
    PROVE  CInv'
<1>1. ASSUME NEW q \in Workers, q # p
      PROVE  Remembers(q)' /\ ~Up(q)'
  <2>1. ~Up(q) /\ Remembers(q)
    BY <1>1 DEF CInv
  <2>2. phase'[q] = "down" /\ job'[q] = Idle /\ queue'[q] = {} /\ seeds'[q] = {}
    BY <1>1, <2>1 DEF Remembers, Up
  <2> QED BY <2>2 DEF Remembers, Up, Answers, Sound, Idle, Outcomes
<1>2. OneUp'
  BY <1>1 DEF OneUp
<1> QED BY <1>1, <1>2 DEF CInv

(* Starting up and seeding.                                                 *)
LEMMA SeedInv ==
    ASSUME CInv, NEW p \in Workers,
           Start(p) \/ SeedNamespaces(p) \/ SeedSecrets(p) \/ SeedFails(p) \/ SeedQueue(p)
    PROVE  CInv'
<1>0. Remembers(p) /\ ControllersTyped /\ UNCHANGED vars
  BY DEF CInv, Start, SeedNamespaces, SeedSecrets, SeedFails, SeedQueue
<1>1. IInv'
  BY <1>0, StutterInv DEF CInv
<1>2. /\ WatchedNames' = WatchedNames /\ RecordedNames' = RecordedNames
      /\ WatchedNames \subseteq Namespaces /\ RecordedNames \subseteq Namespaces
      /\ job' = job
      /\ Answers(job[p])' <=> Answers(job[p])
  BY <1>0 DEF WatchedNames, Watched, RecordedNames, Recorded, vars, sources, worker, Answers, Sound
<1>3. \A q \in Workers : Up(q) => q = p
  BY DEF CInv, OneUp, Start, SeedNamespaces, SeedSecrets, SeedFails, SeedQueue, Up
<1>4. CASE Start(p)
  <2>1. ControllersTyped'
    BY <1>0, <1>2, <1>4 DEF ControllersTyped, Start, Phase
  <2>2. phase[p] = "down" /\ seeds[p] = {}
    BY <1>0, <1>4 DEF Start, Remembers, Up
  <2>3. phase'[p] = "seed-namespaces" /\ queue'[p] = WatchedNames /\ seeds'[p] = {}
    BY <1>0, <1>4, <2>2 DEF ControllersTyped, Start
  <2>4. Remembers(p)'
    BY <1>0, <1>2, <2>3 DEF Remembers, Up
  <2> QED BY <1>1, <1>3, <1>4, <2>1, <2>4, <1>2, <1>0, RunKeeps DEF Start, ControllersTyped
<1>5. CASE SeedNamespaces(p) \/ SeedFails(p)
  <2>1. ControllersTyped'
    BY <1>0, <1>2, <1>5, FaultsAssumption DEF ControllersTyped, SeedNamespaces, SeedFails, Failing, Phase
  <2>2. phase'[p] \in {"seed-namespaces", "seed-secrets"} /\ queue'[p] = queue[p] /\ Up(p)
    BY <1>0, <1>5 DEF ControllersTyped, SeedNamespaces, SeedFails, Up
  <2>3. Remembers(p)'
    BY <1>0, <1>2, <2>2 DEF Remembers, Up
  <2> QED BY <1>1, <1>3, <1>5, <2>1, <2>3, <1>2, <1>0, RunKeeps DEF SeedNamespaces, SeedFails, ControllersTyped
<1>6. CASE SeedSecrets(p)
  <2>1. ControllersTyped'
    BY <1>0, <1>2, <1>6 DEF ControllersTyped, SeedSecrets, SeedKeys, Phase
  <2>2. /\ phase'[p] = "seed-queue" /\ queue'[p] = queue[p] /\ Up(p)
        /\ seeds'[p] = seeds[p] \cup RecordedNames
    BY <1>0, <1>6 DEF ControllersTyped, SeedSecrets, SeedKeys, Up
  <2>3. Remembers(p)'
    BY <1>0, <1>2, <2>2 DEF Remembers, Up
  <2> QED BY <1>1, <1>3, <1>6, <2>1, <2>3, <1>2, <1>0, RunKeeps DEF SeedSecrets, ControllersTyped
<1>7. CASE SeedQueue(p)
  <2>1. ControllersTyped'
    BY <1>0, <1>2, <1>7 DEF ControllersTyped, SeedQueue, Phase
  <2>2. /\ phase'[p] = "seeded" /\ queue'[p] = queue[p] \cup seeds[p] /\ Up(p)
        /\ seeds'[p] = {} /\ phase[p] = "seed-queue"
    BY <1>0, <1>7 DEF ControllersTyped, SeedQueue, Up
  <2>3. Remembers(p)'
    BY <1>0, <1>2, <2>2 DEF Remembers, Up, Pending
  <2> QED BY <1>1, <1>3, <1>7, <2>1, <2>3, <1>2, <1>0, RunKeeps DEF SeedQueue, ControllersTyped
<1> QED BY <1>4, <1>5, <1>6, <1>7

-----------------------------------------------------------------------------
(* A process that dies is one whose pass ends between two calls, has just   *)
(* ended, or never began.                                                   *)
LEMMA StopsAsNext ==
    ASSUME IInv, NEW p \in Workers, job[p].pc = "idle" => job[p] = Idle, Turn(p, Idle, Nothing)
    PROVE  Progress(p) \/ Fault(p) \/ UNCHANGED vars
<1>0. job \in [Workers -> Job] /\ copies \in [Workers -> [Clusters -> Copy \cup {None}]]
  BY Unfold
<1>1. CASE job[p].pc \in Outcomes
  BY <1>1 DEF Progress, Return
<1>2. CASE job[p].pc \notin {"idle"} \cup Outcomes
  BY <1>2 DEF Fault, Crash
<1>3. CASE job[p].pc = "idle"
  <2>1. job[p] = Idle /\ copies[p] = Nothing
    BY <1>3, AtWork DEF WorkerOK, Resting
  <2>2. Held(Idle, Nothing) = Nothing
    BY DEF Held
  <2>3. job' = job /\ copies' = copies
    BY <1>0, <2>1, <2>2 DEF Turn
  <2> QED BY <2>3 DEF vars, worker, Turn
<1> QED BY <1>1, <1>2, <1>3

LEMMA RunsAsNext ==
    ASSUME IInv, NEW p \in Workers, job[p].pc = "idle" => job[p] = Idle, Runs(p)
    PROVE  Progress(p) \/ Fault(p) \/ UNCHANGED vars
<1>1. CASE Start(p) \/ SeedNamespaces(p) \/ SeedSecrets(p) \/ SeedFails(p) \/ SeedQueue(p)
  BY <1>1 DEF Start, SeedNamespaces, SeedSecrets, SeedFails, SeedQueue
<1>2. CASE \E n \in Namespaces : Take(p, n) \/ TakeFails(p, n)
  BY <1>2 DEF Take, TakeFails, Progress, Fault
<1>3. CASE Call(p) \/ CallFails(p)
  BY <1>3 DEF Call, CallFails, Progress, Fault
<1>4. CASE Done(p)
  BY <1>4 DEF Done, Progress
<1>5. CASE Die(p)
  BY <1>5, StopsAsNext DEF Die
<1> QED BY <1>1, <1>2, <1>3, <1>4, <1>5 DEF Runs

(* Every step of the controller is a step of Reconcile, or none to it.      *)
LEMMA ControllerSteps ==
    ASSUME CInv, [ControllerNext]_allVars
    PROVE  [Next]_vars
<1>1. \A p \in Workers : job[p].pc = "idle" => job[p] = Idle
  BY DEF CInv, Remembers, Answers, Sound
<1>2. CASE UNCHANGED allVars
  BY <1>2 DEF allVars
<1>3. CASE World
  BY <1>3 DEF World, Next
<1>4. ASSUME NEW p \in Workers, Runs(p)
      PROVE  [Next]_vars
  BY <1>1, <1>4, RunsAsNext DEF CInv, Next
<1> QED BY <1>2, <1>3, <1>4 DEF ControllerNext

(* The goroutine takes a key, and has its namespace in hand.                *)
LEMMA TakeInv ==
    ASSUME CInv, IInv', NEW p \in Workers, NEW n \in Namespaces, Take(p, n) \/ TakeFails(p, n)
    PROVE  CInv'
<1>0. /\ Remembers(p) /\ ControllersTyped /\ Up(p)
      /\ job \in [Workers -> Job] /\ job[p].pc = "idle"
      /\ UNCHANGED <<phase, seeds, namespaces, secrets>>
  BY Unfold DEF CInv, Take, TakeFails, GetNamespace, GetFails, Turn, sources
<1>1. job[p] = Idle /\ Idle.key = None /\ Idle.pc = "idle"
  BY <1>0 DEF Remembers, Answers, Sound, Idle
<1>2. PICK k : Begins(p, n, k)
  BY BeginsWith DEF Take, TakeFails
<1>3. /\ WatchedNames' = WatchedNames /\ RecordedNames' = RecordedNames
      /\ WatchedNames \subseteq Namespaces /\ RecordedNames \subseteq Namespaces
      /\ queue' = [queue EXCEPT ![p] = @ \ {n}]
  BY <1>0 DEF WatchedNames, Watched, RecordedNames, Recorded, Take, TakeFails
<1>4. ControllersTyped'
  BY <1>0, <1>3, FaultsAssumption DEF ControllersTyped, Take, TakeFails, Failing
<1>5. Answers(k)'
  BY <1>2 DEF Begins, Answers, Sound, Outcomes
<1>6. \A m \in Namespaces : m # None
  BY NamespacesAssumption, NoneAssumption
<1>7. job'[p] = k /\ queue'[p] = queue[p] \ {n} /\ phase'[p] = phase[p] /\ seeds'[p] = seeds[p]
  BY <1>0, <1>2, <1>3 DEF Begins, ControllersTyped
<1>8. Remembers(p)'
  <2>1. \A m \in WatchedNames : m \in queue'[p] \/ InHand(k, m)
    BY <1>0, <1>1, <1>2, <1>3, <1>6, <1>7 DEF Begins, Remembers, InHand
  <2>2. phase[p] \in {"seed-queue", "seeded"} =>
            \A m \in RecordedNames : m \in seeds[p] \/ m \in queue'[p] \/ (k.key = m /\ k.pc # "finished")
    BY <1>0, <1>1, <1>2, <1>3, <1>6, <1>7 DEF Begins, Remembers, Pending
  <2>3. Answers(job[p])'
    BY <1>5, <1>7 DEF Answers
  <2> QED BY <1>0, <1>3, <1>7, <2>1, <2>2, <2>3 DEF Remembers, Up, InHand, Pending
<1>9. \A q \in Workers : Up(q) => q = p
  BY <1>0 DEF CInv, OneUp
<1>10. \A q \in Workers : q # p =>
           phase'[q] = phase[q] /\ job'[q] = job[q] /\ queue'[q] = queue[q] /\ seeds'[q] = seeds[q]
  BY <1>0, <1>2, <1>3 DEF Begins, ControllersTyped
<1> QED BY <1>4, <1>8, <1>9, <1>10, RunKeeps

(* A call of the pass: its namespace stays in hand, and a registration it   *)
(* makes is one of that namespace.                                          *)
LEMMA CallInv ==
    ASSUME CInv, IInv', NEW p \in Workers, Call(p) \/ CallFails(p)
    PROVE  CInv'
<1>0. Remembers(p) /\ ControllersTyped /\ job \in [Workers -> Job]
  BY Unfold DEF CInv
<1>1. PICK j : j = job[p]
  OBVIOUS
<1>2. Answers(j) /\ j \in Job
  BY <1>0, <1>1 DEF Remembers
<1>3. Keeps(p, j)
  BY <1>1, <1>2, CallKeeps DEF CInv, Answers, Call, CallFails, Calls
<1>4. PICK k : /\ job' = [job EXCEPT ![p] = k]
               /\ Follows(j, k)
               /\ Answers(k)'
               /\ \A n \in Namespaces :
                      Recorded(n)' # {} => Recorded(n) # {} \/ (n = j.key /\ k.pc # "finished")
  BY <1>2, <1>3 DEF Keeps
<1>5. Working(j.pc) /\ UNCHANGED <<sources, phase, seeds, queue>>
  BY <1>3 DEF Keeps, Call, CallFails, controllers
<1>6. ControllersTyped'
  BY <1>0, <1>5, FaultsAssumption DEF ControllersTyped, Call, CallFails, controllers, Failing
<1>7. job'[p] = k /\ Up(p)
  BY <1>0, <1>1, <1>4, <1>5 DEF Remembers, Working, Idle
<1>8. Remembers(p)'
  <2>1. Answers(job[p])'
    BY <1>4, <1>7 DEF Answers
  <2>2. WatchedNames' = WatchedNames
    BY <1>5 DEF WatchedNames, Watched, sources
  <2>3. ASSUME NEW n \in WatchedNames
        PROVE  n \in queue[p] \/ InHand(k, n)
    <3>1. n \in queue[p] \/ InHand(j, n)
      BY <1>0, <1>1, <1>7, <2>3 DEF Remembers
    <3>2. InHand(j, n) => j.key = n /\ j.ns # None
      BY <1>5 DEF InHand, Working, Outcomes
    <3>3. j.ns # None => k.ns # None \/ k.pc \in {"requeue", "failed"}
      BY <1>4 DEF Follows, Outcomes
    <3> QED BY <1>4, <3>1, <3>2, <3>3 DEF Follows, InHand
  <2>4. ASSUME NEW n \in RecordedNames', phase[p] \in {"seed-queue", "seeded"}
        PROVE  n \in seeds[p] \/ n \in queue[p] \/ (k.key = n /\ k.pc # "finished")
    <3>1. n \in Namespaces /\ Recorded(n)' # {}
      BY <2>4 DEF RecordedNames
    <3>2. CASE Recorded(n) # {}
      <4>1. n \in seeds[p] \/ n \in queue[p] \/ j.key = n
        BY <1>0, <1>1, <2>4, <3>1, <3>2 DEF Remembers, RecordedNames, Pending
      <4>2. k.key = j.key
        BY <1>4 DEF Follows
      <4>3. k.key = n => k.pc # "finished"
        <5>1. k.pc = "finished" => Recorded(k.key)' = {}
          BY <1>4 DEF Answers
        <5> QED BY <3>1, <5>1 DEF Recorded
      <4> QED BY <4>1, <4>2, <4>3
    <3>3. CASE n = j.key /\ k.pc # "finished"
      BY <1>4, <3>3 DEF Follows
    <3> QED BY <1>4, <3>1, <3>2, <3>3
  <2> QED BY <1>0, <1>5, <1>7, <2>1, <2>2, <2>3, <2>4 DEF Remembers, Up, Pending
<1>9. /\ \A q \in Workers : Up(q) => q = p
      /\ \A q \in Workers : q # p =>
             phase'[q] = phase[q] /\ job'[q] = job[q] /\ queue'[q] = queue[q] /\ seeds'[q] = seeds[q]
  BY <1>0, <1>4, <1>5, <1>7 DEF CInv, OneUp
<1> QED BY <1>6, <1>8, <1>9, RunKeeps

(* The pass is over: its key goes back unless nothing is left.              *)
LEMMA DoneInv ==
    ASSUME CInv, IInv', NEW p \in Workers, Done(p)
    PROVE  CInv'
<1>0. /\ Remembers(p) /\ ControllersTyped /\ job \in [Workers -> Job]
      /\ job[p].pc \in Outcomes
      /\ UNCHANGED <<phase, seeds, faults, namespaces, secrets>>
      /\ job' = [job EXCEPT ![p] = Idle]
      /\ queue' = [queue EXCEPT ![p] = IF Requeues(job[p].pc) THEN @ \cup {job[p].key} ELSE @]
  BY Unfold DEF CInv, Done, Return, Turn, sources
<1>1. Up(p) /\ Idle.key = None /\ Answers(Idle)'
  BY <1>0 DEF Remembers, Idle, Outcomes, Answers, Sound
<1>2. /\ WatchedNames' = WatchedNames /\ RecordedNames' = RecordedNames
      /\ WatchedNames \subseteq Namespaces /\ RecordedNames \subseteq Namespaces
  BY <1>0 DEF WatchedNames, Watched, RecordedNames, Recorded
<1>4. /\ job'[p] = Idle /\ phase'[p] = phase[p] /\ seeds'[p] = seeds[p]
      /\ queue[p] \subseteq queue'[p]
      /\ job[p].pc # "finished" => queue'[p] = queue[p] \cup {job[p].key}
      /\ queue'[p] \subseteq queue[p] \cup {job[p].key}
  BY <1>0 DEF ControllersTyped, Requeues
<1>5. Remembers(p)'
  <2>1. \A n \in WatchedNames : n \in queue'[p]
    BY <1>0, <1>1, <1>4 DEF Remembers, Answers, Sound, InHand
  <2>2. phase[p] \in {"seed-queue", "seeded"} => \A n \in RecordedNames : n \in seeds[p] \/ n \in queue'[p]
    BY <1>0, <1>4 DEF Remembers, Pending
  <2>3. Answers(job[p])'
    BY <1>1, <1>4 DEF Answers
  <2> QED BY <1>0, <1>1, <1>2, <1>4, <2>1, <2>2, <2>3 DEF Remembers, Up, Pending
<1>6. ControllersTyped'
  <2>1. Requeues(job[p].pc) => job[p].key \in Namespaces
    BY <1>0 DEF Remembers, Answers, Sound, Outcomes
  <2> QED BY <1>0, <2>1 DEF ControllersTyped
<1>7. /\ \A q \in Workers : Up(q) => q = p
      /\ \A q \in Workers : q # p =>
             phase'[q] = phase[q] /\ job'[q] = job[q] /\ queue'[q] = queue[q] /\ seeds'[q] = seeds[q]
  BY <1>0, <1>1 DEF CInv, OneUp, ControllersTyped
<1> QED BY <1>5, <1>6, <1>7, RunKeeps

(* The process dies, and all it had in mind with it.                        *)
LEMMA DieInv ==
    ASSUME CInv, IInv', NEW p \in Workers, Die(p)
    PROVE  CInv'
<1>0. /\ ControllersTyped /\ job \in [Workers -> Job] /\ Up(p)
      /\ job' = [job EXCEPT ![p] = Idle]
      /\ phase' = [phase EXCEPT ![p] = "down"]
      /\ queue' = [queue EXCEPT ![p] = {}]
      /\ seeds' = [seeds EXCEPT ![p] = {}]
      /\ Failing
  BY Unfold DEF CInv, Die, Turn
<1>1. Remembers(p)'
  BY <1>0 DEF ControllersTyped, Remembers, Up, Answers, Sound, Idle, Outcomes
<1>2. ControllersTyped'
  BY <1>0, FaultsAssumption DEF ControllersTyped, Phase, Failing
<1>3. /\ \A q \in Workers : Up(q) => q = p
      /\ \A q \in Workers : q # p =>
             phase'[q] = phase[q] /\ job'[q] = job[q] /\ queue'[q] = queue[q] /\ seeds'[q] = seeds[q]
  BY <1>0 DEF CInv, OneUp, ControllersTyped
<1> QED BY <1>1, <1>2, <1>3, RunKeeps

(* The world moves on: whatever becomes, is or was managed and changes is   *)
(* told to the process that is up.                                          *)
LEMMA WorldInv ==
    ASSUME CInv, IInv', World
    PROVE  CInv'
<1>0. /\ ControllersTyped /\ UNCHANGED <<phase, seeds, faults>>
      /\ UNCHANGED job /\ \A n \in Namespaces : Recorded(n)' \subseteq Recorded(n)
      /\ queue' = [p \in Workers |-> IF Up(p) THEN queue[p] \cup Notified ELSE queue[p]]
  BY OutsideRecords DEF CInv, World
<1>1. ControllersTyped'
  BY <1>0 DEF ControllersTyped, Notified
<1>2. OneUp'
  BY <1>0 DEF CInv, OneUp, Up
<1>3. RecordedNames' \subseteq RecordedNames
  BY <1>0 DEF RecordedNames
<1>4. WatchedNames' \subseteq WatchedNames \cup Notified
  BY DEF WatchedNames, Notified
<1>5. ASSUME NEW p \in Workers
      PROVE  Remembers(p)'
  <2>0. Remembers(p)
    BY DEF CInv
  <2>1. queue'[p] = IF Up(p) THEN queue[p] \cup Notified ELSE queue[p]
    BY <1>0
  <2>2. Answers(job[p])'
    <3>1. Answers(job[p]) /\ job'[p] = job[p]
      BY <1>0, <2>0 DEF Remembers
    <3>2. job[p].pc # "idle" => Recorded(job[p].key)' \subseteq Recorded(job[p].key)
      BY <1>0, <3>1 DEF Answers, Sound, Recorded
    <3> QED BY <3>1, <3>2 DEF Answers, Sound, Recorded, Idle, Outcomes
  <2>3. Up(p)' <=> Up(p)
    BY <1>0 DEF Up
  <2>4. phase[p] \in {"seed-queue", "seeded"} => Up(p)
    BY DEF Up
  <2>5. Up(p) => \A n \in WatchedNames' : n \in queue'[p] \/ InHand(job[p], n)
    BY <1>4, <2>0, <2>1 DEF Remembers
  <2>6. phase[p] \in {"seed-queue", "seeded"} =>
            \A n \in RecordedNames' : n \in seeds[p] \/ n \in queue'[p] \/ (job[p].key = n /\ job[p].pc # "finished")
    BY <1>3, <2>0, <2>1, <2>4 DEF Remembers, Pending
  <2> QED BY <1>0, <2>0, <2>1, <2>2, <2>3, <2>5, <2>6 DEF Remembers, InHand, Pending
<1> QED BY <1>1, <1>2, <1>5 DEF CInv

LEMMA ControllerStepInv ==
    ASSUME CInv, [ControllerNext]_allVars
    PROVE  CInv'
<1>0. IInv'
  BY ControllerSteps, StepInv DEF CInv
<1>1. CASE UNCHANGED allVars
  BY <1>0, <1>1 DEF CInv, ControllersTyped, OneUp, Remembers, Up, Pending, WatchedNames, Watched,
                   RecordedNames, Recorded, Answers, Sound, InHand, allVars, vars, controllers,
                   sources, worker
<1>2. CASE World
  BY <1>0, <1>2, WorldInv
<1>3. ASSUME NEW p \in Workers, Runs(p)
      PROVE  CInv'
  BY <1>0, <1>3, SeedInv, TakeInv, CallInv, DoneInv, DieInv DEF Runs
<1> QED BY <1>1, <1>2, <1>3 DEF ControllerNext

LEMMA ControllerInitInv == ControllerInit => CInv
<1> SUFFICES ASSUME ControllerInit PROVE CInv
  OBVIOUS
<1>1. IInv /\ \A p \in Workers : job[p] = Idle
  BY InitInv DEF ControllerInit, Init
<1>2. ControllersTyped /\ OneUp
  BY FaultsAssumption DEF ControllerInit, ControllersTyped, Phase, OneUp, Up
<1>3. \A p \in Workers : Remembers(p)
  BY <1>1, DownRemembers DEF ControllerInit
<1> QED BY <1>1, <1>2, <1>3 DEF CInv

LEMMA Remembering == ControllerSpec => []CInv
BY ControllerInitInv, ControllerStepInv, PTL DEF ControllerSpec

-----------------------------------------------------------------------------
(* The queue, the watch and the seeding decide only which passes run and    *)
(* when: what is proved of Reconcile holds of the controller.               *)
THEOREM Composition == ControllerSpec => Spec
<1>1. ControllerInit => Init
  BY DEF ControllerInit
<1>2. CInv /\ [ControllerNext]_allVars => [Next]_vars
  BY ControllerSteps
<1> QED BY <1>1, <1>2, Remembering, PTL DEF ControllerSpec, Spec

(* A process that is down has nothing, whenever and however it went down.   *)
THEOREM ControllerTyped == ControllerSpec => []ControllerTypeOK
BY CInvImplies, Remembering, PTL

(* At any length of a life and for any number of restarts, a process that   *)
(* has seeded has every managed and every recorded namespace in its queue   *)
(* or in hand.                                                              *)
THEOREM Remembered == ControllerSpec => []NothingForgotten
BY CInvImplies, Remembering, PTL

(* A key is dropped only when nothing owned records its namespace any more, *)
(* at the moment it is dropped and not only when it was listed.             *)
THEOREM Dropping == ControllerSpec => []FinishedOwnsNothing
<1>1. CInv => FinishedOwnsNothing
  BY DEF CInv, Remembers, Answers, FinishedOwnsNothing
<1> QED BY <1>1, Remembering, PTL

-----------------------------------------------------------------------------
(* One pass at a time.  What a pass knows of its namespace, of the         *)
(* addresses and of its own registration is as old as its reads; that it   *)
(* still holds when a write or delete lands rests on UIDs that only grow,  *)
(* and on what nobody else does to registrations.                          *)

OneAtATime == \A v, w \in Workers : job[v].pc # "idle" /\ job[w].pc # "idle" => v = w

(* Secret c records namespace n, and which one of that name.                *)
Names(c, n) == secrets[c] # None /\ secrets[c].source = n /\ secrets[c].uid # None

(* No registration records a later namespace than there was.                *)
Dated ==
    /\ \A n \in Namespaces : namespaces[n] # None => namespaces[n].uid = uids[n]
    /\ \A c \in Clusters, n \in Namespaces : Names(c, n) => secrets[c].uid <= uids[n]

(* A pass that found its namespace gone is right about every registration   *)
(* of it, and one that found it there has the latest UID of those recorded. *)
Informed(j) ==
    j.pc \notin Resting =>
        IF j.ns = None
        THEN \A c \in Clusters : Names(c, j.key) => SourceGone(secrets[c])
        ELSE /\ j.ns.uid <= uids[j.key]
             /\ \A c \in Clusters : Names(c, j.key) => secrets[c].uid <= j.ns.uid

(* What is on the list for removal, unless it is another object by now, is  *)
(* still recorded as when it was listed, or not at all.                     *)
Listed(j, held) ==
    j.pc \in Loops =>
        \A c \in j.todo : held[c].version # "replaced" =>
            /\ secrets[c] # None
            /\ secrets[c].source \in {None, j.key}
            /\ j.pc = "stale-delete" => secrets[c].uid # j.ns.uid

Evidence ==
    /\ IInv
    /\ AllSound
    /\ Dated
    /\ \A w \in Workers : Informed(job[w]) /\ Listed(job[w], copies[w])

LEMMA EvidenceInit == Init => Evidence
<1> SUFFICES ASSUME Init PROVE Evidence
  OBVIOUS
<1>1. Idle.pc = "idle" /\ Sound(Idle)
  BY DEF Idle, Sound, Outcomes
<1>2. Dated
  BY DEF Init, Dated, Fresh, Names
<1> QED BY <1>1, <1>2, InitInv DEF Init, Evidence, AllSound, Informed, Listed, Resting, Loops

(* A step of the one worker that has a pass under way.                      *)
LEMMA OneSteps ==
    ASSUME Evidence, IInv', AllSound', Dated', OneAtATime, OneAtATime',
           NEW w \in Workers, NEW k, job' = [job EXCEPT ![w] = k],
           job[w].pc # "idle" \/ k.pc # "idle",
           Informed(k)', Listed(k, copies[w])'
    PROVE  Evidence'
<1>0. job \in [Workers -> Job]
  BY Unfold DEF Evidence
<1>1. ASSUME NEW v \in Workers, v # w
      PROVE  job'[v].pc = "idle"
  <2>1. job'[v] = job[v] /\ job'[w] = k
    BY <1>0, <1>1
  <2> QED BY <1>1, <2>1 DEF OneAtATime
<1>2. ASSUME NEW v \in Workers
      PROVE  Informed(job[v])' /\ Listed(job[v], copies[v])'
  <2>1. CASE v = w
    <3>1. job'[v] = k
      BY <1>0, <2>1
    <3> QED BY <2>1, <3>1 DEF Informed, Listed, Names, SourceGone
  <2>2. CASE v # w
    BY <1>1, <2>2 DEF Informed, Listed, Resting, Loops
  <2> QED BY <2>1, <2>2
<1> QED BY <1>2 DEF Evidence

(* A pass that begins: what it has read is true at this moment.             *)
LEMMA BeginEvidence ==
    ASSUME Evidence, IInv', AllSound', OneAtATime, OneAtATime', NEW w \in Workers, NEW n \in Namespaces,
           GetNamespace(w, n) \/ GetFails(w, n)
    PROVE  Evidence'
<1>0. SharedOK
  BY Unfold DEF Evidence
<1>1. PICK k : Begins(w, n, k)
  BY BeginsWith
<1>2. UNCHANGED <<sources, secrets>>
  BY DEF GetNamespace, GetFails, Turn
<1>3. Dated'
  BY <1>2 DEF Evidence, Dated, Names, sources
<1>4. k.pc # "idle" /\ k.pc \notin Loops
  BY <1>1 DEF Begins, Loops
<1>6. Informed(k)'
  BY <1>0, <1>1, <1>2 DEF Begins, Informed, Evidence, Dated, Names, SourceGone, Resting, sources, SharedOK, Namespace
<1> QED BY <1>1, <1>3, <1>4, <1>6, OneSteps DEF Begins, Listed

(* A pass writes only what names its own namespace, with the UID it read or *)
(* with the one that was there.                                             *)
LEMMA Written ==
    ASSUME IInv, NEW w \in Workers, NEW j, job[w] = j, Calls(w), NEW c \in Clusters,
           secrets'[c] # secrets[c], secrets'[c] # None
    PROVE  /\ secrets'[c].source = j.key
           /\ \/ j.pc = "write" /\ secrets'[c].uid = j.ns.uid
              \/ secrets[c] # None /\ secrets[c].source = j.key /\ secrets'[c].uid = secrets[c].uid
<1>0. /\ j \in Job /\ secrets \in [Clusters -> Registration \cup {None}]
      /\ copies[w] \in [Clusters -> Copy \cup {None}]
      /\ WorkerOK(j, copies[w]) /\ CopiesFaithful(copies[w], secrets)
  BY AtWork
<1>1. \A k, held : Turn(w, k, held) => secrets' = secrets
  BY DEF Turn
<1>2. \A d, v, how, k : Put(w, d, v, how, k) => secrets' = [secrets EXCEPT ![d] = v]
  BY DEF Put
<1>3. \/ Create(w) \/ Update(w)
      \/ \E d \in Clusters : DeleteOrphan(w, d) \/ DeleteExpired(w, d) \/ Demote(w, d)
  BY <1>1 DEF Calls, ListStale, Discover, DiscoverFails, GetSecret, ListClaimants, ListServers, CheckFails,
              Abort, ListOwned, CheckIncumbent, KeepDemoted, ItemError
<1>4. CASE Create(w) \/ Update(w)
  <2>1. /\ j.pc = "write"
        /\ \/ \E how, k : Put(w, j.ns.cluster, Want(j), how, k)
           \/ \E how, k : Put(w, j.ns.cluster, Merge(copies[w][j.ns.cluster].obj, Want(j)), how, k)
    BY <1>1, <1>4 DEF Create, Update
  <2>2. \A s : Merge(s, Want(j)).source = j.key /\ Merge(s, Want(j)).uid = j.ns.uid
    BY DEF Merge, Want
  <2>3. Want(j).source = j.key /\ Want(j).uid = j.ns.uid
    BY DEF Want
  <2>4. \/ secrets' = [secrets EXCEPT ![j.ns.cluster] = Want(j)]
        \/ secrets' = [secrets EXCEPT ![j.ns.cluster] = Merge(copies[w][j.ns.cluster].obj, Want(j))]
    BY <1>2, <2>1
  <2>5. secrets'[c] = Want(j) \/ secrets'[c] = Merge(copies[w][j.ns.cluster].obj, Want(j))
    BY <1>0, <2>4
  <2> QED BY <2>1, <2>2, <2>3, <2>5
<1>5. ASSUME NEW d \in Clusters, DeleteOrphan(w, d) \/ DeleteExpired(w, d)
      PROVE  FALSE
  <2>1. secrets' = [secrets EXCEPT ![d] = None]
    BY <1>1, <1>2, <1>5 DEF DeleteOrphan, DeleteExpired
  <2> QED BY <1>0, <2>1
<1>6. ASSUME NEW d \in Clusters, Demote(w, d)
      PROVE  /\ secrets'[c].source = j.key
             /\ secrets[c] # None /\ secrets[c].source = j.key /\ secrets'[c].uid = secrets[c].uid
  <2> DEFINE cp == copies[w][d]
             s == [cp.obj EXCEPT !.state = "demoted", !.since = now]
  <2>1. /\ secrets' = [secrets EXCEPT ![d] = s] /\ SameVersion(cp)
        /\ d \in j.todo /\ j.pc = "collect"
    BY <1>1, <1>2, <1>6 DEF Demote, At
  <2>2. cp # None /\ cp.obj \in Registration /\ cp.obj.source = j.key
    BY <1>0, <2>1 DEF WorkerOK, Loops, Copy
  <2>3. secrets[d] = cp.obj /\ d = c
    BY <1>0, <2>1, <2>2 DEF CopiesFaithful, SameVersion
  <2>4. s.source = cp.obj.source /\ s.uid = cp.obj.uid
    BY <2>2 DEF Registration
  <2> HIDE DEF s
  <2> QED BY <1>0, <2>1, <2>2, <2>3, <2>4, AbsentAssumption
<1> QED BY <1>3, <1>4, <1>5, <1>6

(* The calls that start no list.                                            *)
LEMMA NoList ==
    ASSUME IInv, NEW w \in Workers,
           \/ Discover(w) \/ DiscoverFails(w) \/ GetSecret(w)
           \/ ListClaimants(w) \/ ListServers(w) \/ CheckFails(w) \/ Abort(w)
           \/ Create(w) \/ Update(w) \/ \E n \in Namespaces : CheckIncumbent(w, n)
    PROVE  job'[w].pc \notin Loops
<1>0. job \in [Workers -> Job]
  BY Unfold
<1> DEFINE j == job[w]
<1>1. \A k, held : Turn(w, k, held) => job'[w] = k
  BY <1>0 DEF Turn
<1>2. \A c, v, how, k : Put(w, c, v, how, k) => job'[w] = k
  BY <1>0 DEF Put
<1>3. \A o \in Outcomes : Ended(j.key, o).pc = o /\ o \notin Loops
  BY DEF Ended, Idle, Outcomes, Loops
<1>4. Refused(j) = Ended(j.key, "requeue") /\ {"requeue", "failed"} \subseteq Outcomes
  BY DEF Refused, Outcomes
<1>5. \A pc \in {"get-secret", "claimants", "list", "servers", "write", "incumbents"} : pc \notin Loops
  BY DEF Loops
<1>6. CASE DiscoverFails(w) \/ CheckFails(w) \/ Abort(w)
  BY <1>1, <1>3, <1>4, <1>6 DEF DiscoverFails, CheckFails, Abort
<1>7. CASE Discover(w)
  <2>1. \/ job'[w] = Ended(j.key, "requeue")
        \/ job'[w] = [j EXCEPT !.pc = "get-secret", !.kube = kubeconfigs[j.key]]
    BY <1>1, <1>7 DEF Discover
  <2>2. [j EXCEPT !.pc = "get-secret", !.kube = kubeconfigs[j.key]].pc = "get-secret"
    BY <1>0 DEF Job
  <2> QED BY <1>3, <1>4, <1>5, <2>1, <2>2
<1>8. CASE GetSecret(w) \/ ListClaimants(w) \/ Create(w) \/ Update(w)
  <2>1. /\ \A pc : job'[w] = [j EXCEPT !.pc = pc] => job'[w].pc = pc
        /\ job'[w] = [j EXCEPT !.pc = "list", !.kube = None] => job'[w].pc = "list"
    BY <1>0 DEF Job
  <2>2. \/ \E o \in {"requeue", "failed"} : job'[w] = Ended(j.key, o)
        \/ \E pc \in {"claimants", "list", "servers", "write"} : job'[w] = [j EXCEPT !.pc = pc]
        \/ job'[w] = [j EXCEPT !.pc = "list", !.kube = None]
    BY <1>1, <1>2, <1>4, <1>8 DEF GetSecret, ListClaimants, Create, Update
  <2>3. \/ \E o \in {"requeue", "failed"} : job'[w].pc = o
        \/ job'[w].pc \in {"claimants", "list", "servers", "write"}
    BY <1>3, <1>4, <2>1, <2>2
  <2> QED BY <2>3 DEF Loops
<1>9. CASE ListServers(w)
  <2>1. \A pc, r : job'[w] = [j EXCEPT !.pc = pc, !.rivals = r] => job'[w].pc = pc
    BY <1>0 DEF Job
  <2>2. \/ job'[w] = Ended(j.key, "requeue")
        \/ \E pc \in {"write", "incumbents"} : \E r : job'[w] = [j EXCEPT !.pc = pc, !.rivals = r]
    <3>1. \A r : (IF r = {} THEN "write" ELSE "incumbents") \in {"write", "incumbents"}
      OBVIOUS
    <3> QED BY <1>1, <1>4, <1>9, <3>1 DEF ListServers
  <2> QED BY <1>3, <1>4, <1>5, <2>1, <2>2
<1>10. ASSUME NEW n \in Namespaces, CheckIncumbent(w, n)
       PROVE  job'[w].pc \notin Loops
  <2> DEFINE left == [j EXCEPT !.rivals = @ \ {n}]
  <2>1. /\ j.pc = "incumbents"
        /\ \/ job'[w] = Ended(j.key, "requeue")
           \/ job'[w] = left \/ job'[w] = [left EXCEPT !.pc = "write"]
    BY <1>1, <1>4, <1>10 DEF CheckIncumbent
  <2>2. left.pc = j.pc /\ [left EXCEPT !.pc = "write"].pc = "write"
    BY <1>0 DEF Job
  <2> HIDE DEF left
  <2> QED BY <1>3, <1>4, <1>5, <2>1, <2>2
<1> QED BY <1>6, <1>7, <1>8, <1>9, <1>10

(* The lists: what is put on them is recorded against the namespace now.    *)
LEMMA ListsListed ==
    ASSUME Evidence, NEW w \in Workers, NEW j, job[w] = j, ListStale(w) \/ ListOwned(w),
           NEW k, job' = [job EXCEPT ![w] = k]
    PROVE  Listed(k, copies[w])'
<1>0. /\ j \in Job /\ job \in [Workers -> Job] /\ secrets \in [Clusters -> Registration \cup {None}]
      /\ copies \in [Workers -> [Clusters -> Copy \cup {None}]]
  BY Unfold DEF Evidence, SharedOK
<1>1. job'[w] = k
  BY <1>0
<1>2. ASSUME NEW S, NEW i, Turn(w, i, Holding(S)),
             i.pc \in Loops =>
                 /\ i.todo = S
                 /\ \A c \in S : /\ secrets[c] # None /\ secrets[c].source = i.key
                                 /\ i.pc = "stale-delete" => secrets[c].uid # i.ns.uid
      PROVE  Listed(k, copies[w])'
  <2>1. i = k /\ UNCHANGED secrets
    BY <1>0, <1>1, <1>2 DEF Turn
  <2> QED BY <1>2, <2>1 DEF Listed
<1>3. CASE ListStale(w)
  <2> DEFINE stale == {c \in Predecessors(j) : ~secrets[c].pinned}
             i == [j EXCEPT !.pc = IF stale = {} THEN "discover" ELSE "stale-delete", !.todo = stale]
  <2>1. Turn(w, i, Holding(stale))
    BY <1>3 DEF ListStale
  <2>2. /\ i.pc \in Loops => i.todo = stale
        /\ i.key = j.key /\ i.ns = j.ns
    BY <1>0 DEF Job
  <2>3. \A c \in stale : secrets[c] # None /\ secrets[c].source = j.key /\ secrets[c].uid # j.ns.uid
    BY DEF Predecessors, Recorded
  <2> HIDE DEF stale, i
  <2> QED BY <1>2, <2>1, <2>2, <2>3
<1>4. CASE ListOwned(w)
  <2> DEFINE items == IF ProvenGone(j) \/ Applied(j) # None THEN Superseded(j) ELSE {}
             result == Result(j, Recorded(j.key))
             i == [j EXCEPT !.pc = "collect", !.todo = items, !.kube = None, !.outcome = result]
  <2>1. \/ Turn(w, Ended(j.key, result), Holding(items))
        \/ Turn(w, i, Holding(items))
    BY <1>4 DEF ListOwned
  <2>2. /\ i.pc = "collect" /\ i.todo = items /\ i.key = j.key
        /\ Ended(j.key, result).pc \notin Loops
    BY <1>0 DEF Job, Ended, Idle, Result, Loops
  <2>3. \A c \in items : secrets[c] # None /\ secrets[c].source = j.key
    BY DEF Superseded, Recorded
  <2> HIDE DEF items, result, i
  <2> QED BY <1>2, <2>1, <2>2, <2>3
<1> QED BY <1>3, <1>4

(* The items that are left are as they were.                                *)
LEMMA ItemListed ==
    ASSUME Evidence, NEW w \in Workers, NEW j, job[w] = j, NEW d \in Clusters,
           \/ DeleteOrphan(w, d) \/ KeepDemoted(w, d) \/ DeleteExpired(w, d)
           \/ Demote(w, d) \/ ItemError(w, d),
           NEW k, job' = [job EXCEPT ![w] = k]
    PROVE  Listed(k, copies[w])'
<1>0. /\ j \in Job /\ job \in [Workers -> Job] /\ secrets \in [Clusters -> Registration \cup {None}]
      /\ copies \in [Workers -> [Clusters -> Copy \cup {None}]]
      /\ Sound(j) /\ Listed(j, copies[w]) /\ job'[w] = k
  BY Unfold DEF Evidence, SharedOK, AllSound
<1>1. d \in j.todo /\ j.pc \in Loops
  BY DEF DeleteOrphan, KeepDemoted, DeleteExpired, Demote, ItemError, At, Loops
<1>2. \E i \in {ItemDone(j, d), ItemKept(j, d), ItemFailed(j, d)} :
          \/ Turn(w, i, [copies[w] EXCEPT ![d] = None])
          \/ \E v : \E how \in {"rewritten", "replaced"} : Put(w, d, v, how, i)
  <2> DEFINE Fits(i) == \/ Turn(w, i, [copies[w] EXCEPT ![d] = None])
                        \/ \E v : \E how \in {"rewritten", "replaced"} : Put(w, d, v, how, i)
  <2>1. \A i, v, how : how \in {"rewritten", "replaced"} /\ Put(w, d, v, how, i) => Fits(i)
    OBVIOUS
  <2>2. \A i : Turn(w, i, [copies[w] EXCEPT ![d] = None]) => Fits(i)
    OBVIOUS
  <2> HIDE DEF Fits
  <2>3. Fits(ItemDone(j, d)) \/ Fits(ItemKept(j, d)) \/ Fits(ItemFailed(j, d))
    BY <2>1, <2>2 DEF DeleteOrphan, KeepDemoted, DeleteExpired, Demote, ItemError
  <2> QED BY <2>3 DEF Fits
<1>3. k \in {ItemDone(j, d), ItemKept(j, d), ItemFailed(j, d)}
  BY <1>0, <1>2 DEF Turn, Put
<1>4. /\ Follows(j, k)
      /\ k.pc \in Loops => k.pc = j.pc /\ k.todo = j.todo \ {d}
  BY <1>0, <1>1, <1>3, ItemFollows
<1>5. k.pc \in Loops => \A c \in Clusters \ {d} : copies'[w][c] = copies[w][c] /\ secrets'[c] = secrets[c]
  <2>1. ASSUME k.pc \in Loops, Turn(w, k, [copies[w] EXCEPT ![d] = None])
        PROVE  \A c \in Clusters \ {d} : copies'[w][c] = copies[w][c] /\ secrets'[c] = secrets[c]
    <3>1. Held(k, [copies[w] EXCEPT ![d] = None]) = [copies[w] EXCEPT ![d] = None]
      BY <2>1 DEF Held, Loops, Outcomes
    <3> QED BY <1>0, <2>1, <3>1 DEF Turn
  <2>2. ASSUME k.pc \in Loops, NEW v, NEW how \in {"rewritten", "replaced"}, Put(w, d, v, how, k)
        PROVE  \A c \in Clusters \ {d} : copies'[w][c] = copies[w][c] /\ secrets'[c] = secrets[c]
    <3> DEFINE held == [copies[w] EXCEPT ![d] = None]
               cps == [copies EXCEPT ![w] = Held(k, held)]
    <3>1. Held(k, held) = held /\ held \in [Clusters -> Copy \cup {None}]
      BY <1>0, <2>2 DEF Held, Loops, Outcomes
    <3>2. cps \in [Workers -> [Clusters -> Copy \cup {None}]]
      BY <1>0, <3>1
    <3>3. copies' = Outdate(cps, d, how) /\ secrets' = [secrets EXCEPT ![d] = v]
      BY <2>2 DEF Put
    <3>4. \A c \in Clusters \ {d} : cps[w][c] = copies[w][c]
      BY <1>0, <3>1
    <3> HIDE DEF cps
    <3>5. \A c \in Clusters \ {d} : Outdate(cps, d, how)[w][c] = cps[w][c]
      BY <3>2, OutdateCopies
    <3> QED BY <1>0, <3>3, <3>4, <3>5
  <2>3. \/ Turn(w, k, [copies[w] EXCEPT ![d] = None])
        \/ \E v : \E how \in {"rewritten", "replaced"} : Put(w, d, v, how, k)
    <3>1. ASSUME NEW i, \/ Turn(w, i, [copies[w] EXCEPT ![d] = None])
                        \/ \E v : \E how \in {"rewritten", "replaced"} : Put(w, d, v, how, i)
          PROVE  i = k
      BY <1>0, <3>1 DEF Turn, Put
    <3> QED BY <1>2, <3>1
  <2> QED BY <2>1, <2>2, <2>3
<1>6. j.todo \subseteq Clusters
  BY <1>0 DEF Job
<1> QED BY <1>0, <1>1, <1>4, <1>5, <1>6 DEF Listed, Follows, Loops, Outcomes

LEMMA CallEvidence ==
    ASSUME Evidence, IInv', AllSound', OneAtATime, OneAtATime', NEW w \in Workers, Calls(w)
    PROVE  Evidence'
<1>0. /\ job \in [Workers -> Job] /\ secrets \in [Clusters -> Registration \cup {None}]
      /\ namespaces \in [Namespaces -> Namespace \cup {None}] /\ uids \in [Namespaces -> Nat]
  BY Unfold DEF Evidence, SharedOK
<1>1. PICK j : j = job[w]
  OBVIOUS
<1>2. /\ j \in Job /\ Sound(j) /\ Informed(j) /\ Listed(j, copies[w]) /\ WorkerOK(j, copies[w])
  BY <1>0, <1>1, AtWork DEF Evidence, AllSound
<1>3. Keeps(w, j)
  BY <1>1, <1>2, CallKeeps DEF Evidence
<1>4. PICK k : job' = [job EXCEPT ![w] = k] /\ Follows(j, k)
  BY <1>3 DEF Keeps
<1>5. Working(j.pc) /\ UNCHANGED sources
  BY <1>3 DEF Keeps
<1>6. j.pc \notin Resting /\ j.key \in Namespaces
  BY <1>2, <1>5 DEF Working, Resting, Sound
<1>7. job'[w] = k
  BY <1>0, <1>4
<1>8. ASSUME NEW c \in Clusters, secrets'[c] # secrets[c], secrets'[c] # None
      PROVE  /\ secrets'[c].source = j.key
             /\ \/ j.pc = "write" /\ secrets'[c].uid = j.ns.uid
                \/ secrets[c] # None /\ secrets[c].source = j.key /\ secrets'[c].uid = secrets[c].uid
  BY <1>1, <1>8, Written DEF Evidence
<1>9. j.pc = "write" => j.ns \in Namespace /\ j.ns # None
  BY <1>2, AbsentAssumption DEF WorkerOK, Applying
<1>10. \A n \in Namespaces : n # None
  BY NamespacesAssumption, NoneAssumption
<1>11. Dated'
  <2>1. ASSUME NEW c \in Clusters, NEW n \in Namespaces, Names(c, n)'
        PROVE  secrets'[c].uid <= uids[n]
    <3>1. CASE secrets'[c] = secrets[c]
      BY <2>1, <3>1 DEF Names, Evidence, Dated
    <3>2. CASE secrets'[c] # secrets[c]
      <4>1. n = j.key
        BY <1>8, <2>1, <3>2 DEF Names
      <4>2. CASE j.pc = "write" /\ secrets'[c].uid = j.ns.uid
        BY <1>2, <1>6, <1>9, <4>1, <4>2 DEF Informed
      <4>3. CASE secrets[c] # None /\ secrets[c].source = j.key /\ secrets'[c].uid = secrets[c].uid
        BY <2>1, <4>1, <4>3 DEF Names, Evidence, Dated
      <4> QED BY <1>8, <2>1, <3>2, <4>2, <4>3 DEF Names
    <3> QED BY <3>1, <3>2
  <2> QED BY <1>5, <2>1 DEF Evidence, Dated, sources
<1>12. Informed(k)'
  <2>1. SUFFICES ASSUME k.pc \notin Resting
                 PROVE  IF j.ns = None
                        THEN \A c \in Clusters : Names(c, j.key)' => SourceGone(secrets[c])'
                        ELSE /\ j.ns.uid <= uids[j.key]
                             /\ \A c \in Clusters : Names(c, j.key)' => secrets'[c].uid <= j.ns.uid
    BY <1>4, <1>5 DEF Informed, Follows, Resting, sources, Names
  <2>2. CASE j.ns = None
    <3>1. ASSUME NEW c \in Clusters, Names(c, j.key)'
          PROVE  SourceGone(secrets[c])'
      <4>1. /\ secrets[c] # None /\ secrets[c].source = j.key
            /\ secrets'[c].source = j.key /\ secrets'[c].uid = secrets[c].uid
        BY <1>8, <1>9, <2>2, <3>1 DEF Names
      <4>2. SourceGone(secrets[c])
        BY <1>2, <1>6, <2>2, <3>1, <4>1 DEF Informed, Names
      <4> QED BY <1>5, <4>1, <4>2 DEF SourceGone, sources
    <3> QED BY <2>2, <3>1
  <2>3. CASE j.ns # None
    <3>1. /\ j.ns.uid <= uids[j.key] /\ j.ns.uid \in Nat
          /\ \A c \in Clusters : Names(c, j.key) => secrets[c].uid <= j.ns.uid
      BY <1>2, <1>6, <2>3 DEF Informed, Job, Namespace
    <3>2. ASSUME NEW c \in Clusters, Names(c, j.key)'
          PROVE  secrets'[c].uid <= j.ns.uid
      BY <1>8, <3>1, <3>2 DEF Names
    <3> QED BY <2>3, <3>1, <3>2
  <2> QED BY <2>2, <2>3
<1>13. Listed(k, copies[w])'
  <2>1. CASE k.pc \notin Loops
    BY <2>1 DEF Listed
  <2>2. CASE k.pc \in Loops
    <3>1. \/ ListStale(w) \/ ListOwned(w)
          \/ \E d \in Clusters : \/ DeleteOrphan(w, d) \/ KeepDemoted(w, d) \/ DeleteExpired(w, d)
                                 \/ Demote(w, d) \/ ItemError(w, d)
      BY <1>7, <2>2, NoList DEF Calls, Evidence
    <3> QED BY <1>1, <1>4, <3>1, ListsListed, ItemListed
  <2> QED BY <2>1, <2>2
<1>14. job[w].pc # "idle"
  BY <1>1, <1>5 DEF Working
<1> QED BY <1>4, <1>11, <1>12, <1>13, <1>14, OneSteps

(* What happens to the namespaces outside.                                  *)
LEMMA OutsideSources ==
    ASSUME Evidence, Environment, NEW n \in Namespaces
    PROVE  /\ uids[n] <= uids'[n] /\ uids[n] \in Nat /\ uids'[n] \in Nat
           /\ namespaces'[n] # None => /\ namespaces'[n].uid = uids'[n]
                                       /\ namespaces[n] = None => uids[n] < uids'[n]
<1>0. /\ namespaces \in [Namespaces -> Namespace \cup {None}] /\ uids \in [Namespaces -> Nat]
      /\ \A m \in Namespaces : namespaces[m] # None => namespaces[m].uid = uids[m]
  BY Unfold DEF Evidence, SharedOK, Dated
<1>1. CASE UNCHANGED <<namespaces, uids>>
  BY <1>0, <1>1
<1>2. ASSUME NEW m \in Namespaces, NEW c \in Clusters \cup {None}, CreateNamespace(m, c)
      PROVE  /\ uids[n] <= uids'[n] /\ uids[n] \in Nat /\ uids'[n] \in Nat
             /\ namespaces'[n] # None => /\ namespaces'[n].uid = uids'[n]
                                         /\ namespaces[n] = None => uids[n] < uids'[n]
  BY <1>0, <1>2 DEF CreateNamespace, EditNamespace, Fresh
<1>3. ASSUME NEW m \in Namespaces, NEW c \in Clusters \cup {None},
             DeleteNamespace(m) \/ Relabel(m, c) \/ SetManaged(m)
      PROVE  /\ uids[n] <= uids'[n] /\ uids[n] \in Nat /\ uids'[n] \in Nat
             /\ namespaces'[n] # None => /\ namespaces'[n].uid = uids'[n]
                                         /\ namespaces[n] = None => uids[n] < uids'[n]
  <2>1. namespaces[m] \in Namespace /\ namespaces[m] # None
    BY <1>0, <1>3 DEF DeleteNamespace, Relabel, SetManaged
  <2>2. PICK ns : namespaces' = [namespaces EXCEPT ![m] = ns] /\ ns.uid = namespaces[m].uid
    BY <1>3, <2>1 DEF DeleteNamespace, Relabel, SetManaged, EditNamespace, Namespace
  <2>3. UNCHANGED uids
    BY <1>3 DEF DeleteNamespace, Relabel, SetManaged
  <2> QED BY <1>0, <2>1, <2>2, <2>3
<1>4. ASSUME NEW m \in Namespaces, Finalize(m)
      PROVE  /\ uids[n] <= uids'[n] /\ uids[n] \in Nat /\ uids'[n] \in Nat
             /\ namespaces'[n] # None => /\ namespaces'[n].uid = uids'[n]
                                         /\ namespaces[n] = None => uids[n] < uids'[n]
  BY <1>0, <1>4 DEF Finalize, EditNamespace
<1>5. \/ UNCHANGED <<namespaces, uids>>
      \/ \E m \in Namespaces : \/ \E c \in Clusters \cup {None} : CreateNamespace(m, c) \/ Relabel(m, c)
                               \/ DeleteNamespace(m) \/ SetManaged(m) \/ Finalize(m)
  BY DEF Environment, Provision, Reprovision, HandCreate, SetPin, Strip, HandRemove, HandReplace,
         Tick, EditSecret, sources
<1>6. None \in Clusters \cup {None}
  OBVIOUS
<1> QED BY <1>1, <1>2, <1>3, <1>4, <1>5, <1>6

(* What happens to the Secrets outside: nobody makes one that names a       *)
(* namespace, and one that was listed is rewritten with at most its source  *)
(* or UID taken off, or is known to be another.                             *)
LEMMA OutsideSecrets ==
    ASSUME Evidence, Environment, NEW c \in Clusters
    PROVE  /\ \A n \in Namespaces : Names(c, n)' =>
                  Names(c, n) /\ secrets'[c].uid = secrets[c].uid
           /\ \A w \in Workers :
                  copies[w][c] # None /\ copies'[w][c].version # "replaced" =>
                      /\ copies[w][c].version # "replaced"
                      /\ secrets[c] # None =>
                            /\ secrets'[c] # None
                            /\ secrets'[c].source \in {None, secrets[c].source}
                            /\ secrets'[c].uid \in {None, secrets[c].uid}
<1>0. /\ secrets \in [Clusters -> Registration \cup {None}]
      /\ copies \in [Workers -> [Clusters -> Copy \cup {None}]]
      /\ \A n \in Namespaces : n # None
  BY Unfold, NamespacesAssumption, NoneAssumption DEF Evidence, SharedOK
<1> DEFINE Fine ==
        /\ \A n \in Namespaces : Names(c, n)' =>
               Names(c, n) /\ secrets'[c].uid = secrets[c].uid
        /\ \A w \in Workers :
               copies[w][c] # None /\ copies'[w][c].version # "replaced" =>
                   /\ copies[w][c].version # "replaced"
                   /\ secrets[c] # None =>
                         /\ secrets'[c] # None
                         /\ secrets'[c].source \in {None, secrets[c].source}
                         /\ secrets'[c].uid \in {None, secrets[c].uid}
<1>1. CASE UNCHANGED <<secrets, copies>>
  BY <1>1 DEF Names
<1>2. ASSUME NEW d \in Clusters, NEW s, NEW how \in {"rewritten", "replaced"},
             secrets' = [secrets EXCEPT ![d] = s], copies' = Outdate(copies, d, how),
             \/ how = "replaced" /\ (s = None \/ s = secrets[d] \/ s.source = None)
             \/ /\ secrets[d] # None /\ s # None
                /\ s.source \in {None, secrets[d].source} /\ s.uid \in {None, secrets[d].uid}
      PROVE  Fine
  <2>1. \A w \in Workers : copies'[w][c] = IF c = d THEN Marked(copies[w][d], how) ELSE copies[w][c]
    BY <1>0, <1>2, OutdateCopies
  <2>2. secrets'[c] = IF c = d THEN s ELSE secrets[c]
    BY <1>0, <1>2
  <2>3. CASE c # d
    BY <2>1, <2>2, <2>3 DEF Names
  <2>4. CASE c = d
    <3>1. \A n \in Namespaces : Names(c, n)' => Names(c, n) /\ secrets'[c].uid = secrets[c].uid
      BY <1>0, <1>2, <2>2, <2>4 DEF Names
    <3>2. ASSUME NEW w \in Workers, copies[w][c] # None, copies'[w][c].version # "replaced"
          PROVE  copies[w][c].version # "replaced" /\ how = "rewritten"
      <4>1. copies'[w][c] = Marked(copies[w][c], how) /\ copies[w][c] \in Copy
        BY <1>0, <2>1, <2>4, <3>2
      <4> QED BY <3>2, <4>1 DEF Marked, Copy
    <3> QED BY <1>2, <2>2, <2>4, <3>1, <3>2
  <2> QED BY <2>3, <2>4
<1>3. ASSUME NEW d \in Clusters, NEW k \in Kubeconfigs, HandCreate(d, k)
      PROVE  Fine
  <2> DEFINE s == [owned |-> FALSE, source |-> None, uid |-> None, named |-> FALSE,
                   state |-> "active", since |-> None, pinned |-> FALSE, kube |-> k]
  <2>1. s.source = None
    OBVIOUS
  <2>2. secrets' = [secrets EXCEPT ![d] = s] /\ copies' = Outdate(copies, d, "replaced")
    BY <1>3 DEF HandCreate, EditSecret
  <2> HIDE DEF s, Fine
  <2> QED BY <1>2, <2>1, <2>2
<1>4. ASSUME NEW d \in Clusters, HandRemove(d) \/ HandReplace(d)
      PROVE  Fine
  <2>1. PICK s \in {None, secrets[d]} :
            secrets' = [secrets EXCEPT ![d] = s] /\ copies' = Outdate(copies, d, "replaced")
    BY <1>4 DEF HandRemove, HandReplace, EditSecret
  <2> HIDE DEF Fine
  <2> QED BY <1>2, <2>1
<1>5. ASSUME NEW d \in Clusters, SetPin(d) \/ Strip(d)
      PROVE  Fine
  <2> DEFINE s == secrets[d]
  <2>1. s \in Registration /\ s # None
    BY <1>0, <1>5 DEF SetPin, Strip
  <2> DEFINE edited == {[s EXCEPT !.pinned = ~@], [s EXCEPT !.source = None], [s EXCEPT !.uid = None],
                        [s EXCEPT !.named = FALSE], [s EXCEPT !.since = None]}
  <2>2. \A t \in edited : t \in Registration /\ t.source \in {None, s.source} /\ t.uid \in {None, s.uid}
    BY <2>1 DEF Registration
  <2>3. \E t \in edited : secrets' = [secrets EXCEPT ![d] = t] /\ copies' = Outdate(copies, d, "rewritten")
    BY <1>5 DEF SetPin, Strip, EditSecret
  <2> HIDE DEF edited, Fine
  <2> QED BY <1>2, <2>1, <2>2, <2>3, AbsentAssumption
<1>6. \/ UNCHANGED <<secrets, copies>>
      \/ \E d \in Clusters : \/ \E k \in Kubeconfigs : HandCreate(d, k)
                             \/ HandRemove(d) \/ SetPin(d) \/ Strip(d) \/ HandReplace(d)
  BY DEF Environment, Relabel, CreateNamespace, Provision, Reprovision, DeleteNamespace,
         Finalize, SetManaged, Tick, EditNamespace, worker
<1> QED BY <1>1, <1>3, <1>4, <1>5, <1>6

(* A source that is gone stays gone: a later namespace of its name has      *)
(* another UID.                                                             *)
LEMMA GoneStays ==
    ASSUME Evidence, Environment, NEW c \in Clusters, NEW n \in Namespaces, Names(c, n)',
           SourceGone(secrets[c])
    PROVE  SourceGone(secrets[c])'
<1>0. secrets \in [Clusters -> Registration \cup {None}]
  BY Unfold DEF Evidence, SharedOK
<1>1. Names(c, n) /\ secrets'[c].uid = secrets[c].uid /\ secrets'[c].source = n /\ secrets[c].source = n
  BY OutsideSecrets DEF Names
<1>2. secrets[c].uid <= uids[n] /\ secrets[c].uid \in Nat
  BY <1>0, <1>1 DEF Evidence, Dated, Names, Registration
<1>3. /\ uids[n] <= uids'[n] /\ uids[n] \in Nat /\ uids'[n] \in Nat
      /\ namespaces'[n] # None => /\ namespaces'[n].uid = uids'[n]
                                  /\ namespaces[n] = None => uids[n] < uids'[n]
  BY OutsideSources
<1>4. CASE namespaces'[n] = None
  BY <1>1, <1>4 DEF SourceGone
<1>5. CASE namespaces'[n] # None /\ namespaces[n] = None
  BY <1>1, <1>2, <1>3, <1>5 DEF SourceGone
<1>6. CASE namespaces'[n] # None /\ namespaces[n] # None
  <2>1. namespaces[n].uid = uids[n] /\ namespaces[n].uid # secrets[c].uid
    BY <1>1, <1>6 DEF SourceGone, Evidence, Dated
  <2>2. namespaces'[n].uid # secrets'[c].uid
    BY <1>1, <1>2, <1>3, <1>6, <2>1
  <2> QED BY <1>1, <2>2 DEF SourceGone
<1> QED BY <1>4, <1>5, <1>6

LEMMA OutsideEvidence ==
    ASSUME Evidence, IInv', AllSound', Environment
    PROVE  Evidence'
<1>0. /\ namespaces \in [Namespaces -> Namespace \cup {None}] /\ uids \in [Namespaces -> Nat]
      /\ secrets \in [Clusters -> Registration \cup {None}]
      /\ job \in [Workers -> Job]
      /\ UNCHANGED job
  BY Unfold, OutsideRecords DEF Evidence, SharedOK
<1>1. Dated'
  <2>1. \A n \in Namespaces : namespaces'[n] # None => namespaces'[n].uid = uids'[n]
    BY OutsideSources
  <2>2. ASSUME NEW c \in Clusters, NEW n \in Namespaces, Names(c, n)'
        PROVE  secrets'[c].uid <= uids'[n]
    <3>1. Names(c, n) /\ secrets'[c].uid = secrets[c].uid
      BY <2>2, OutsideSecrets
    <3>2. secrets[c].uid <= uids[n] /\ secrets[c].uid \in Nat
      BY <1>0, <3>1 DEF Evidence, Dated, Names, Registration
    <3>3. uids[n] <= uids'[n] /\ uids[n] \in Nat /\ uids'[n] \in Nat
      BY OutsideSources
    <3> QED BY <3>1, <3>2, <3>3
  <2> QED BY <2>1, <2>2 DEF Dated
<1>2. ASSUME NEW w \in Workers
      PROVE  Informed(job[w])'
  <2>1. SUFFICES ASSUME job[w].pc \notin Resting
                 PROVE  IF job[w].ns = None
                        THEN \A c \in Clusters : Names(c, job[w].key)' => SourceGone(secrets[c])'
                        ELSE /\ job[w].ns.uid <= uids'[job[w].key]
                             /\ \A c \in Clusters : Names(c, job[w].key)' => secrets'[c].uid <= job[w].ns.uid
    BY <1>0 DEF Informed, Names
  <2>2. PICK n \in Namespaces : n = job[w].key
    BY <2>1 DEF Evidence, AllSound, Sound, Resting
  <2>3. /\ uids[n] <= uids'[n] /\ uids[n] \in Nat /\ uids'[n] \in Nat
        /\ namespaces'[n] # None => /\ namespaces'[n].uid = uids'[n]
                                    /\ namespaces[n] = None => uids[n] < uids'[n]
    BY OutsideSources
  <2>4. Informed(job[w])
    BY DEF Evidence
  <2>5. CASE job[w].ns = None
    <3>1. ASSUME NEW c \in Clusters, Names(c, n)'
          PROVE  SourceGone(secrets[c])'
      <4>1. Names(c, n)
        BY <3>1, OutsideSecrets
      <4>2. SourceGone(secrets[c])
        BY <2>1, <2>2, <2>4, <2>5, <4>1 DEF Informed
      <4> QED BY <3>1, <4>2, GoneStays
    <3> QED BY <1>0, <2>2, <2>5, <3>1 DEF Names
  <2>6. CASE job[w].ns # None
    <3>1. /\ job[w].ns.uid <= uids[n] /\ job[w].ns.uid \in Nat
          /\ \A c \in Clusters : Names(c, n) => secrets[c].uid <= job[w].ns.uid
      BY <1>0, <2>1, <2>2, <2>4, <2>6 DEF Informed, Job, Namespace
    <3>2. \A c \in Clusters : Names(c, n)' => secrets'[c].uid <= job[w].ns.uid
      BY <3>1, OutsideSecrets
    <3> QED BY <1>0, <2>2, <2>3, <2>6, <3>1, <3>2 DEF Names
  <2> QED BY <2>5, <2>6
<1>3. ASSUME NEW w \in Workers
      PROVE  Listed(job[w], copies[w])'
  <2>1. SUFFICES ASSUME job[w].pc \in Loops, NEW c \in job[w].todo, copies'[w][c].version # "replaced"
                 PROVE  /\ secrets'[c] # None
                        /\ secrets'[c].source \in {None, job[w].key}
                        /\ job[w].pc = "stale-delete" => secrets'[c].uid # job[w].ns.uid
    BY <1>0 DEF Listed
  <2>2. c \in Clusters /\ copies[w][c] # None /\ Listed(job[w], copies[w])
        /\ WorkerOK(job[w], copies[w])
    BY <1>0, <2>1, AtWork DEF Evidence, WorkerOK, Job
  <2>3. /\ copies[w][c].version # "replaced"
        /\ secrets[c] # None =>
              /\ secrets'[c] # None
              /\ secrets'[c].source \in {None, secrets[c].source}
              /\ secrets'[c].uid \in {None, secrets[c].uid}
    BY <2>1, <2>2, OutsideSecrets
  <2>4. /\ secrets[c] # None /\ secrets[c].source \in {None, job[w].key}
        /\ job[w].pc = "stale-delete" => secrets[c].uid # job[w].ns.uid
    BY <2>1, <2>2, <2>3 DEF Listed
  <2>5. job[w].pc = "stale-delete" => job[w].ns \in Namespace /\ job[w].ns.uid # None
    BY <2>2, NoneAssumption DEF WorkerOK, Namespace
  <2> QED BY <2>3, <2>4, <2>5
<1> QED BY <1>1, <1>2, <1>3 DEF Evidence

LEMMA EvidenceStep ==
    ASSUME Evidence, [Next]_vars, OneAtATime, OneAtATime'
    PROVE  Evidence'
<1>0. IInv' /\ AllSound' /\ job \in [Workers -> Job]
  BY StepInv, SoundStep, Unfold DEF Evidence
<1>1. CASE UNCHANGED vars
  BY <1>0, <1>1 DEF Evidence, Dated, Informed, Listed, Names, SourceGone, vars, sources, worker
<1>2. CASE Environment
  BY <1>0, <1>2, OutsideEvidence
<1>3. ASSUME NEW w \in Workers, \E n \in Namespaces : GetNamespace(w, n) \/ GetFails(w, n)
      PROVE  Evidence'
  BY <1>0, <1>3, BeginEvidence
<1>4. ASSUME NEW w \in Workers, Calls(w)
      PROVE  Evidence'
  BY <1>0, <1>4, CallEvidence
<1>5. ASSUME NEW w \in Workers, Return(w) \/ Crash(w)
      PROVE  Evidence'
  <2>1. /\ job' = [job EXCEPT ![w] = Idle] /\ UNCHANGED <<sources, secrets>> /\ job[w].pc # "idle"
    BY <1>5 DEF Return, Crash, Turn, Outcomes
  <2>2. Dated'
    BY <2>1 DEF Evidence, Dated, Names, sources
  <2>3. Informed(Idle)' /\ Listed(Idle, copies[w])'
    BY DEF Informed, Listed, Idle, Resting, Loops
  <2> QED BY <1>0, <2>1, <2>2, <2>3, OneSteps
<1>6. ASSUME NEW w \in Workers, Progress(w) \/ Fault(w)
      PROVE  Evidence'
  BY <1>3, <1>4, <1>5, <1>6 DEF Progress, Fault, Calls
<1> QED BY <1>1, <1>2, <1>6 DEF Next

-----------------------------------------------------------------------------
(* What a pass that is alone removes, it has evidence against.              *)
LEMMA RemovalProven ==
    ASSUME Evidence, [Next]_vars, job' # job, NEW c \in Clusters,
           secrets[c] # None, secrets'[c] = None,
           secrets[c].source # None, secrets[c].uid # None
    PROVE  SourceGone(secrets[c]) \/ (secrets[c].state = "demoted" /\ Expired(secrets[c]))
<1>0. /\ job \in [Workers -> Job] /\ uids \in [Namespaces -> Nat]
      /\ namespaces \in [Namespaces -> Namespace \cup {None}]
      /\ secrets \in [Clusters -> Registration \cup {None}]
  BY Unfold DEF Evidence, SharedOK
<1>1. PICK w \in Workers : job'[w] # job[w]
  <2>1. job' \in [Workers -> Job]
    BY StepInv, Unfold DEF Evidence, IInv, TypeOK
  <2> QED BY <1>0, <2>1
<1>2. Writes(w, c)
  BY <1>1, OnlyWrites DEF Evidence
<1> DEFINE j == job[w]
           cp == copies[w][c]
<1>3. \/ cp # None /\ secrets[c] = cp.obj /\ cp.obj.state = "demoted" /\ Expired(cp.obj)
      \/ /\ SameObject(cp) /\ cp # None
         /\ j.pc = "collect" => ProvenGone(j)
  BY <1>2, WriteEffect DEF Evidence
<1>4. CASE ~DeleteOrphan(w, c)
  <2>1. \A v, how, k : Put(w, c, v, how, k) => secrets'[c] = v
    BY <1>0 DEF Put
  <2>2. \A k, held : ~Turn(w, k, held)
    BY DEF Turn
  <2>3. CASE DeleteExpired(w, c)
    <3>1. SameVersion(cp) /\ cp.obj.state = "demoted" /\ Expired(cp.obj)
      BY <2>2, <2>3 DEF DeleteExpired
    <3>2. secrets[c] = cp.obj
      BY <1>3, <3>1, AtWork DEF Evidence, CopiesFaithful, SameVersion
    <3> QED BY <3>1, <3>2
  <2>4. CASE Create(w) /\ c = j.ns.cluster
    BY <2>2, <2>4 DEF Create
  <2>5. CASE Update(w) /\ c = j.ns.cluster
    <3>1. j.pc = "write" /\ cp # None /\ secrets'[c] = Merge(cp.obj, Want(j))
      BY <2>1, <2>2, <2>5 DEF Update
    <3>2. /\ j.key \in Namespaces /\ j.kube \in Kubeconfigs /\ j.ns \in Namespace
          /\ cp.obj \in Registration
      BY <3>1, AtWork DEF Evidence, WorkerOK, Resting, Outcomes, Applying, Copy
    <3>3. Merge(cp.obj, Want(j)) \in Registration
      BY <3>2 DEF Merge, Want, Registration, Namespace
    <3> QED BY <3>1, <3>3, AbsentAssumption
  <2>6. CASE Demote(w, c)
    <3>1. /\ j.pc = "collect" /\ c \in j.todo
          /\ secrets'[c] = [cp.obj EXCEPT !.state = "demoted", !.since = now]
      BY <2>1, <2>2, <2>6 DEF Demote, At
    <3>2. cp.obj \in Registration /\ now \in Nat
      BY <3>1, AtWork, Unfold DEF Evidence, WorkerOK, Loops, Copy, SharedOK
    <3>3. [cp.obj EXCEPT !.state = "demoted", !.since = now] \in Registration
      BY <3>2 DEF Registration
    <3> QED BY <3>1, <3>3, AbsentAssumption
  <2> QED BY <1>2, <1>4, <2>3, <2>4, <2>5, <2>6 DEF Writes
<1>5. CASE DeleteOrphan(w, c)
  <2>1. /\ j.pc \in Loops /\ c \in j.todo /\ cp.version # "replaced"
        /\ j.pc = "collect" => j.ns = None
    BY <1>5 DEF DeleteOrphan, At, Loops, SameObject, ProvenGone, Turn
  <2>2. Informed(j) /\ Listed(j, copies[w]) /\ WorkerOK(j, copies[w]) /\ j \in Job
    BY AtWork DEF Evidence
  <2>3. /\ secrets[c].source = j.key /\ j.key \in Namespaces
        /\ j.pc = "stale-delete" => secrets[c].uid # j.ns.uid
    BY <2>1, <2>2 DEF Listed, WorkerOK, Loops, Resting, Outcomes
  <2>4. Names(c, j.key) /\ j.pc \notin Resting
    BY <2>1, <2>3 DEF Names, Loops, Resting, Outcomes
  <2>5. CASE j.ns = None
    BY <2>2, <2>4, <2>5 DEF Informed
  <2>6. CASE j.ns # None
    <3>1. j.pc = "stale-delete"
      BY <2>1, <2>6 DEF Loops
    <3>2. /\ j.ns.uid <= uids[j.key] /\ secrets[c].uid <= j.ns.uid /\ secrets[c].uid # j.ns.uid
          /\ j.ns.uid \in Nat /\ secrets[c].uid \in Nat /\ uids[j.key] \in Nat
      BY <1>0, <2>2, <2>3, <2>4, <2>6, <3>1 DEF Informed, Names, Registration, Job, Namespace
    <3>3. namespaces[j.key] # None => namespaces[j.key].uid = uids[j.key]
      BY <2>3 DEF Evidence, Dated
    <3>4. secrets[c].uid # uids[j.key]
      BY <3>2
    <3> QED BY <2>3, <3>3, <3>4 DEF SourceGone
  <2> QED BY <2>5, <2>6
<1> QED BY <1>4, <1>5

(* One pass at a time, whoever runs it, deletes a registration only while   *)
(* the namespace it records is gone or another of its name, or when it is   *)
(* demoted and older than the TTL.                                          *)
LEMMA RemovalKept == Spec /\ []OneAtATime => RemovalNeedsProof
<1>1. Evidence /\ [Next]_vars =>
        [WorkerStep =>
           \A c \in Clusters :
              LET s == secrets[c]
              IN  /\ s # None
                  /\ secrets'[c] = None
                  /\ s.source # None
                  /\ s.uid # None
                  => SourceGone(s) \/ (s.state = "demoted" /\ Expired(s))]_vars
  BY RemovalProven DEF WorkerStep
<1>2. Init => Evidence
  BY EvidenceInit
<1>3. Evidence /\ [Next]_vars /\ OneAtATime /\ OneAtATime' => Evidence'
  BY EvidenceStep
<1> QED BY <1>1, <1>2, <1>3, PTL DEF Spec, RemovalNeedsProof

-----------------------------------------------------------------------------
(* Addresses.  Registration d stands in the way of namespace n at the       *)
(* address of kubeconfig k.                                                 *)
Contests(d, n, k) ==
    /\ Rightful(d)
    /\ secrets[d].source # n
    /\ Address[secrets[d].kube] = Address[k]

(* The write to come takes its address, rather than keeps it.               *)
Takes(j, held) ==
    held[j.ns.cluster] = None \/ Moves(held[j.ns.cluster].obj, j.kube)

(* What claimServer has made sure of: whoever is left in the way is still   *)
(* to be looked up, and nobody is by the time of the write.                 *)
Cleared(j, held) ==
    /\ j.pc = "incumbents" =>
           \A d \in Clusters : Contests(d, j.key, j.kube) => secrets[d].source \in j.rivals
    /\ j.pc = "write" /\ Takes(j, held) =>
           \A d \in Clusters : ~Contests(d, j.key, j.kube)

AllCleared == \A w \in Workers : Cleared(job[w], copies[w])

(* A step of the only pass there is.                                        *)
LEMMA OneClears ==
    ASSUME IInv, OneAtATime, OneAtATime', NEW w \in Workers, NEW k,
           job' = [job EXCEPT ![w] = k], job[w].pc # "idle" \/ k.pc # "idle",
           Cleared(k, copies[w])'
    PROVE  AllCleared'
<1>0. job \in [Workers -> Job]
  BY Unfold
<1>1. ASSUME NEW v \in Workers
      PROVE  Cleared(job[v], copies[v])'
  <2>1. CASE v = w
    <3>1. job'[v] = k
      BY <1>0, <2>1
    <3> QED BY <2>1, <3>1 DEF Cleared, Contests, Takes, Rightful, SourceGone
  <2>2. CASE v # w
    <3>1. job'[v] = job[v] /\ job'[w] = k
      BY <1>0, <2>2
    <3>2. job'[v].pc = "idle"
      BY <2>2, <3>1 DEF OneAtATime
    <3> QED BY <3>2 DEF Cleared
  <2> QED BY <2>1, <2>2
<1> QED BY <1>1 DEF AllCleared

(* The list, and what is left to look up of it.                             *)
LEMMA ServersCleared ==
    ASSUME IInv, NEW w \in Workers, NEW j, job[w] = j, ListServers(w),
           NEW k, job' = [job EXCEPT ![w] = k]
    PROVE  Cleared(k, copies[w])'
<1>0. job \in [Workers -> Job] /\ j \in Job
  BY Unfold
<1> DEFINE rivals == {secrets[c].source : c \in Colliding(j)}
           next == [j EXCEPT !.pc = IF rivals = {} THEN "write" ELSE "incumbents", !.rivals = rivals]
           firm == \E c \in Colliding(j) : secrets[c].pinned \/ secrets[c].source = None
<1>1. job'[w] = k
  BY <1>0
<1>2. /\ UNCHANGED <<sources, secrets>>
      /\ k = IF firm THEN Refused(j) ELSE next
  BY <1>0, <1>1 DEF ListServers, Turn
<1>3. Refused(j).pc = "requeue"
  BY DEF Refused, Ended, Idle
<1>4. /\ next.pc = IF rivals = {} THEN "write" ELSE "incumbents"
      /\ next.rivals = rivals /\ next.key = j.key /\ next.kube = j.kube
  BY <1>0 DEF Job
<1>5. ASSUME NEW d \in Clusters, Contests(d, j.key, j.kube)
      PROVE  secrets[d].source \in rivals
  BY <1>5 DEF Contests, Rightful, Colliding
<1>6. \A d : Contests(d, j.key, j.kube)' => Contests(d, j.key, j.kube)
  BY <1>2 DEF Contests, Rightful, SourceGone, sources
<1> HIDE DEF rivals, next, firm
<1>7. CASE k = Refused(j)
  BY <1>3, <1>7 DEF Cleared
<1>8. CASE k = next
  <2>1. k.pc = "incumbents" => \A d \in Clusters : Contests(d, k.key, k.kube)' => secrets'[d].source \in k.rivals
    BY <1>2, <1>4, <1>5, <1>6, <1>8 DEF Contests
  <2>2. k.pc = "write" => rivals = {}
    BY <1>4, <1>8
  <2>3. k.pc = "write" => \A d \in Clusters : ~Contests(d, k.key, k.kube)'
    BY <1>4, <1>5, <1>6, <1>8, <2>2 DEF Contests
  <2> QED BY <2>1, <2>3 DEF Cleared, Contests, Rightful, SourceGone
<1> QED BY <1>2, <1>7, <1>8

LEMMA IncumbentCleared ==
    ASSUME IInv, NEW w \in Workers, NEW j, job[w] = j, Cleared(j, copies[w]),
           NEW n \in Namespaces, CheckIncumbent(w, n),
           NEW k, job' = [job EXCEPT ![w] = k]
    PROVE  Cleared(k, copies[w])'
<1>0. job \in [Workers -> Job] /\ j \in Job
  BY Unfold
<1> DEFINE left == [j EXCEPT !.rivals = @ \ {n}]
           next == IF left.rivals = {} THEN [left EXCEPT !.pc = "write"] ELSE left
<1>1. job'[w] = k
  BY <1>0
<1>2. /\ UNCHANGED <<sources, secrets>>
      /\ k \in {Refused(j), next}
      /\ k = next => namespaces[n] = None
      /\ j.pc = "incumbents"
  <2>1. /\ j.pc = "incumbents"
        /\ \/ Turn(w, Refused(j), Nothing)
           \/ namespaces[n] = None /\ Turn(w, next, copies[w])
    BY DEF CheckIncumbent
  <2> HIDE DEF next
  <2>2. Refused(j).pc = "requeue"
    BY DEF Refused, Ended, Idle
  <2>3. next.pc # "requeue"
    BY <1>0, <2>1 DEF next, Job
  <2> QED BY <1>0, <1>1, <2>1, <2>2, <2>3 DEF Turn
<1>3. Refused(j).pc = "requeue"
  BY DEF Refused, Ended, Idle
<1>4. /\ next.pc = IF j.rivals \ {n} = {} THEN "write" ELSE "incumbents"
      /\ next.rivals = j.rivals \ {n} /\ next.key = j.key /\ next.kube = j.kube
  BY <1>0, <1>2 DEF Job
<1> HIDE DEF next, left
<1>5. CASE k = Refused(j)
  BY <1>3, <1>5 DEF Cleared
<1>6. CASE k = next
  <2>1. ASSUME NEW d \in Clusters, Contests(d, k.key, k.kube)'
        PROVE  secrets'[d].source \in k.rivals
    <3>1. Contests(d, j.key, j.kube)
      BY <1>2, <1>4, <1>6, <2>1 DEF Contests, Rightful, SourceGone, sources
    <3>2. secrets[d].source # n
      BY <1>2, <1>6, <3>1 DEF Contests, Rightful, SourceGone
    <3>3. secrets[d].source \in j.rivals
      BY <1>2, <3>1 DEF Cleared
    <3> QED BY <1>2, <1>4, <1>6, <3>2, <3>3
  <2>2. k.pc = "write" => k.rivals = {}
    BY <1>4, <1>6
  <2> QED BY <2>1, <2>2 DEF Cleared, Contests, Rightful, SourceGone
<1> QED BY <1>2, <1>5, <1>6

(* A Secret that needs no new address is written at the one it has.         *)
LEMMA SecretCleared ==
    ASSUME IInv, NEW w \in Workers, NEW j, job[w] = j, GetSecret(w),
           NEW k, job' = [job EXCEPT ![w] = k]
    PROVE  Cleared(k, copies[w])'
<1>0. job \in [Workers -> Job] /\ j \in Job /\ job'[w] = k
      /\ copies \in [Workers -> [Clusters -> Copy \cup {None}]]
      /\ secrets \in [Clusters -> Registration \cup {None}]
      /\ WorkerOK(j, copies[w])
  BY Unfold DEF SharedOK
<1> DEFINE c == j.ns.cluster
           next == [j EXCEPT !.pc = IF Moves(secrets[c], j.kube) THEN "servers" ELSE "write"]
<1>1. /\ j.pc = "get-secret"
      /\ \/ k.pc \notin {"incumbents", "write"}
         \/ secrets[c] # None /\ Turn(w, next, Holding({c}))
  <2>1. /\ j.pc = "get-secret"
        /\ \/ \E pc \in {"claimants", "list"} : Turn(w, [j EXCEPT !.pc = pc], Nothing)
           \/ Turn(w, Refused(j), Nothing)
           \/ secrets[c] # None /\ Turn(w, next, Holding({c}))
    BY DEF GetSecret
  <2>2. \A pc : [j EXCEPT !.pc = pc].pc = pc
    BY <1>0 DEF Job
  <2>3. Refused(j).pc = "requeue"
    BY DEF Refused, Ended, Idle
  <2>4. \A i, held : Turn(w, i, held) => i = k
    BY <1>0 DEF Turn
  <2> HIDE DEF next
  <2> QED BY <2>1, <2>2, <2>3, <2>4
<1>2. CASE k.pc \notin {"incumbents", "write"}
  BY <1>2 DEF Cleared
<1>3. CASE secrets[c] # None /\ Turn(w, next, Holding({c}))
  <2>1. /\ next.pc = IF Moves(secrets[c], j.kube) THEN "servers" ELSE "write"
        /\ next.ns = j.ns /\ next.kube = j.kube
    BY <1>0 DEF Job
  <2>2. c \in Clusters
    BY <1>0, <1>1 DEF WorkerOK, Applying
  <2> HIDE DEF next
  <2>3. k = next /\ copies'[w] = Held(next, Holding({c}))
    BY <1>0, <1>3 DEF Turn
  <2>4. next.pc \notin Outcomes
    BY <2>1 DEF Outcomes
  <2>5. Holding({c})[c] = [obj |-> secrets[c], version |-> "current"]
    BY <2>2 DEF Holding
  <2>6. copies'[w][c] = [obj |-> secrets[c], version |-> "current"]
    BY <2>3, <2>4, <2>5 DEF Held
  <2>7. [obj |-> secrets[c], version |-> "current"] # None
    <3>1. [obj |-> secrets[c], version |-> "current"] \in Copy
      BY <1>0, <1>3, <2>2 DEF Copy
    <3> QED BY <3>1, AbsentAssumption
  <2>8. k.pc = "write" => ~Takes(k, copies[w])'
    <3>1. copies'[w][k.ns.cluster].obj = secrets[c] /\ k.kube = j.kube /\ copies'[w][k.ns.cluster] # None
      BY <2>1, <2>3, <2>6, <2>7
    <3> QED BY <2>1, <2>3, <3>1 DEF Takes, Moves
  <2> QED BY <2>1, <2>3, <2>8 DEF Cleared, Takes
<1> QED BY <1>1, <1>2, <1>3

(* An item dealt with, the loop goes on or is over.                         *)
LEMMA ItemGoes ==
    ASSUME NEW j \in Job, j.pc \in Loops, NEW c,
           NEW k \in {ItemDone(j, c), ItemKept(j, c), ItemFailed(j, c)}
    PROVE  k.pc \notin {"list", "incumbents", "write"}
<1>1. ASSUME NEW o \in Outcomes, NEW i, i = [j EXCEPT !.outcome = o]
      PROVE  ItemDone(i, c).pc \notin {"list", "incumbents", "write"}
  <2> DEFINE left == [i EXCEPT !.todo = @ \ {c}]
  <2>1. i \in Job /\ i.pc = j.pc /\ i.outcome = o
    BY <1>1 DEF Job
  <2>2. /\ left.pc = j.pc
        /\ [left EXCEPT !.pc = "discover"].pc = "discover"
        /\ Ended(i.key, i.outcome).pc = o
    BY <2>1 DEF Job, Ended, Idle
  <2>3. ItemDone(i, c) \in {left, [left EXCEPT !.pc = "discover"], Ended(i.key, i.outcome)}
    BY DEF ItemDone
  <2> HIDE DEF left
  <2> QED BY <2>2, <2>3 DEF Loops, Outcomes
<1>2. /\ j.outcome \in Outcomes /\ {"requeue", "failed"} \subseteq Outcomes
      /\ j = [j EXCEPT !.outcome = j.outcome]
  BY DEF Job, Outcomes
<1>3. \E o \in Outcomes : k = ItemDone([j EXCEPT !.outcome = o], c)
  BY <1>2 DEF ItemKept, ItemFailed
<1> QED BY <1>1, <1>3

(* The calls that come to no write of an address.                           *)
LEMMA OthersCleared ==
    ASSUME IInv, NEW w \in Workers, NEW j, job[w] = j, Sound(j),
           \/ ListStale(w) \/ Discover(w) \/ DiscoverFails(w) \/ ListClaimants(w)
           \/ CheckFails(w) \/ Abort(w) \/ Create(w) \/ Update(w) \/ ListOwned(w)
           \/ \E c \in Clusters : \/ DeleteOrphan(w, c) \/ KeepDemoted(w, c)
                                  \/ DeleteExpired(w, c) \/ Demote(w, c) \/ ItemError(w, c),
           NEW k, job' = [job EXCEPT ![w] = k]
    PROVE  Cleared(k, copies[w])'
<1>0. job \in [Workers -> Job] /\ j \in Job /\ job'[w] = k
  BY Unfold
<1>1. \A i, held : Turn(w, i, held) => k = i
  BY <1>0 DEF Turn
<1>2. \A c, v, how, i : Put(w, c, v, how, i) => k = i
  BY <1>0 DEF Put
<1>3. \A o \in Outcomes : Ended(j.key, o).pc = o /\ o \notin {"incumbents", "write"}
  BY DEF Ended, Idle, Outcomes
<1>4. Refused(j) = Ended(j.key, "requeue") /\ {"requeue", "failed", "finished"} \subseteq Outcomes
  BY DEF Refused, Outcomes
<1>5. CASE DiscoverFails(w) \/ CheckFails(w) \/ Abort(w)
  BY <1>1, <1>3, <1>4, <1>5 DEF DiscoverFails, CheckFails, Abort, Cleared
<1>6. CASE ListStale(w)
  <2> DEFINE next(pc, S) == [j EXCEPT !.pc = pc, !.todo = S]
  <2>1. \E pc \in {"discover", "stale-delete"} : \E S : k = next(pc, S)
    BY <1>1, <1>6 DEF ListStale
  <2>2. \A pc, S : next(pc, S).pc = pc
    BY <1>0 DEF Job
  <2> HIDE DEF next
  <2> QED BY <2>1, <2>2 DEF Cleared
<1>7. CASE Discover(w)
  <2> DEFINE next == [j EXCEPT !.pc = "get-secret", !.kube = kubeconfigs[j.key]]
  <2>1. k \in {Ended(j.key, "requeue"), next}
    BY <1>1, <1>7 DEF Discover
  <2>2. next.pc = "get-secret"
    BY <1>0 DEF Job
  <2> HIDE DEF next
  <2> QED BY <1>3, <1>4, <2>1, <2>2 DEF Cleared
<1>8. CASE ListClaimants(w) \/ Create(w) \/ Update(w)
  <2>1. \/ \E o \in {"requeue", "failed"} : k = Ended(j.key, o)
        \/ k = [j EXCEPT !.pc = "servers"]
        \/ k = [j EXCEPT !.pc = "list", !.kube = None]
    BY <1>1, <1>2, <1>4, <1>8 DEF ListClaimants, Create, Update
  <2>2. /\ [j EXCEPT !.pc = "servers"].pc = "servers"
        /\ [j EXCEPT !.pc = "list", !.kube = None].pc = "list"
    BY <1>0 DEF Job
  <2> QED BY <1>3, <1>4, <2>1, <2>2 DEF Cleared
<1>9. CASE ListOwned(w)
  <2> DEFINE next(S) == [j EXCEPT !.pc = "collect", !.todo = S, !.kube = None,
                                  !.outcome = Result(j, Recorded(j.key))]
  <2>1. k = Ended(j.key, Result(j, Recorded(j.key))) \/ \E S : k = next(S)
    BY <1>1, <1>9 DEF ListOwned
  <2>2. \A S : next(S).pc = "collect"
    BY <1>0 DEF Job
  <2>3. Result(j, Recorded(j.key)) \in Outcomes
    BY <1>4 DEF Result
  <2> HIDE DEF next
  <2> QED BY <1>3, <2>1, <2>2, <2>3 DEF Cleared
<1>10. ASSUME NEW c \in Clusters, \/ DeleteOrphan(w, c) \/ KeepDemoted(w, c)
                                  \/ DeleteExpired(w, c) \/ Demote(w, c) \/ ItemError(w, c)
       PROVE  Cleared(k, copies[w])'
  <2>1. c \in j.todo /\ j.pc \in Loops
    BY <1>10 DEF DeleteOrphan, KeepDemoted, DeleteExpired, Demote, ItemError, At, Loops
  <2>2. k \in {ItemDone(j, c), ItemKept(j, c), ItemFailed(j, c)}
    BY <1>1, <1>2, <1>10 DEF DeleteOrphan, KeepDemoted, DeleteExpired, Demote, ItemError
  <2> QED BY <1>0, <2>1, <2>2, ItemGoes DEF Cleared
<1> QED BY <1>5, <1>6, <1>7, <1>8, <1>9, <1>10

LEMMA CallCleared ==
    ASSUME Evidence, AllCleared, OneAtATime, OneAtATime', NEW w \in Workers, Calls(w)
    PROVE  AllCleared'
<1>1. PICK j : j = job[w]
  OBVIOUS
<1>2. IInv /\ Sound(j) /\ Cleared(j, copies[w])
  BY <1>1 DEF Evidence, AllSound, AllCleared
<1>3. Keeps(w, j)
  BY <1>1, <1>2, CallKeeps
<1>4. PICK k : job' = [job EXCEPT ![w] = k]
  BY <1>3 DEF Keeps
<1>5. job[w].pc # "idle"
  BY <1>1, <1>3 DEF Keeps, Working
<1>6. Cleared(k, copies[w])'
  BY <1>1, <1>2, <1>4, ServersCleared, IncumbentCleared, SecretCleared, OthersCleared DEF Calls
<1> QED BY <1>2, <1>4, <1>5, <1>6, OneClears

(* What a worker holds is what it read, outdated or not.                    *)
LEMMA OutsideCopies ==
    ASSUME IInv, Environment, NEW w \in Workers, NEW c \in Clusters
    PROVE  /\ copies'[w][c] = None <=> copies[w][c] = None
           /\ copies[w][c] # None => copies'[w][c].obj = copies[w][c].obj
<1>0. copies \in [Workers -> [Clusters -> Copy \cup {None}]]
  BY Unfold
<1>1. CASE UNCHANGED copies
  BY <1>1
<1>2. ASSUME NEW d \in Clusters, NEW how \in {"rewritten", "replaced"},
             copies' = Outdate(copies, d, how)
      PROVE  /\ copies'[w][c] = None <=> copies[w][c] = None
             /\ copies[w][c] # None => copies'[w][c].obj = copies[w][c].obj
  <2>1. copies'[w][c] = IF c = d THEN Marked(copies[w][d], how) ELSE copies[w][c]
    BY <1>0, <1>2, OutdateCopies
  <2>2. copies[w][d] \in Copy \cup {None}
    BY <1>0
  <2> QED BY <2>1, <2>2, MarkedCopy
<1>3. \/ UNCHANGED copies
      \/ \E d \in Clusters : \E how \in {"rewritten", "replaced"} : copies' = Outdate(copies, d, how)
  BY DEF Environment, Relabel, CreateNamespace, Provision, Reprovision, DeleteNamespace,
         Finalize, SetManaged, Tick, EditNamespace, worker, EditSecret,
         HandCreate, SetPin, Strip, HandRemove, HandReplace
<1> QED BY <1>1, <1>2, <1>3

LEMMA OutsideCleared ==
    ASSUME Evidence, AllCleared, Environment
    PROVE  AllCleared'
<1>1. UNCHANGED job
  BY OutsideRecords DEF Evidence
<1>2. ASSUME NEW d \in Clusters, NEW n, NEW k, Contests(d, n, k)'
      PROVE  Contests(d, n, k) /\ secrets'[d].source = secrets[d].source
  <2>1. secrets'[d] # None /\ secrets'[d].source # None
    BY <1>2 DEF Contests, Rightful
  <2>2. /\ secrets[d] # None
        /\ secrets'[d].source = secrets[d].source /\ secrets'[d].owned = secrets[d].owned
        /\ secrets'[d].state = secrets[d].state /\ secrets'[d].kube = secrets[d].kube
    BY <2>1, OutsideLive DEF Evidence
  <2>3. PICK m \in Namespaces : m = secrets[d].source
    BY <2>1, <2>2, Unfold DEF Evidence, SharedOK, Registration
  <2>4. Names(d, m)'
    BY <1>2, <2>2, <2>3 DEF Contests, Rightful, Names
  <2>5. Names(d, m)
    BY <2>4, OutsideSecrets
  <2>6. ~SourceGone(secrets[d])
    BY <1>2, <2>4, GoneStays DEF Contests, Rightful
  <2> QED BY <1>2, <2>2, <2>5, <2>6 DEF Contests, Rightful, Names
<1>3. ASSUME NEW w \in Workers
      PROVE  Cleared(job[w], copies[w])'
  <2>1. PICK j : j = job[w]
    OBVIOUS
  <2>2. j = job'[w] /\ Cleared(j, copies[w])
    BY <1>1, <2>1 DEF AllCleared
  <2>3. j.pc = "write" /\ Takes(j, copies[w])' => Takes(j, copies[w])
    <3>1. j.pc = "write" => j.ns.cluster \in Clusters
      BY <2>1, AtWork DEF Evidence, WorkerOK, Applying
    <3>2. j.pc = "write" => /\ copies'[w][j.ns.cluster] = None <=> copies[w][j.ns.cluster] = None
                            /\ copies[w][j.ns.cluster] # None =>
                                   copies'[w][j.ns.cluster].obj = copies[w][j.ns.cluster].obj
      BY <3>1, OutsideCopies DEF Evidence
    <3> QED BY <3>2 DEF Takes, Moves
  <2>4. Cleared(j, copies[w])'
    BY <1>2, <2>2, <2>3 DEF Cleared
  <2> QED BY <2>2, <2>4
<1> QED BY <1>3 DEF AllCleared

LEMMA ClearedStep ==
    ASSUME Evidence, AllCleared, [Next]_vars, OneAtATime, OneAtATime'
    PROVE  AllCleared'
<1>1. CASE UNCHANGED vars
  BY <1>1 DEF AllCleared, Cleared, Contests, Takes, Rightful, SourceGone, vars, sources, worker
<1>2. CASE Environment
  BY <1>2, OutsideCleared
<1>3. ASSUME NEW w \in Workers, NEW n \in Namespaces, GetNamespace(w, n) \/ GetFails(w, n)
      PROVE  AllCleared'
  <2>1. PICK k : Begins(w, n, k)
    BY <1>3, BeginsWith
  <2>2. job' = [job EXCEPT ![w] = k] /\ k.pc # "idle" /\ k.pc \notin {"incumbents", "write"}
    BY <1>3, <2>1 DEF Begins
  <2> QED BY <2>2, OneClears DEF Cleared, Evidence
<1>4. ASSUME NEW w \in Workers, Calls(w)
      PROVE  AllCleared'
  BY <1>4, CallCleared
<1>5. ASSUME NEW w \in Workers, Return(w) \/ Crash(w)
      PROVE  AllCleared'
  <2>1. job' = [job EXCEPT ![w] = Idle] /\ job[w].pc # "idle"
    BY <1>5 DEF Return, Crash, Turn, Outcomes
  <2>2. Cleared(Idle, copies[w])'
    BY DEF Cleared, Idle
  <2> QED BY <2>1, <2>2, OneClears DEF Evidence
<1>6. ASSUME NEW w \in Workers, Progress(w) \/ Fault(w)
      PROVE  AllCleared'
  BY <1>3, <1>4, <1>5, <1>6 DEF Progress, Fault, Calls
<1> QED BY <1>1, <1>2, <1>6 DEF Next

-----------------------------------------------------------------------------
(* What a pass that is alone writes, it has an address for.                 *)
LEMMA ClaimProven ==
    ASSUME Evidence, AllCleared, [Next]_vars, job' # job, NEW c \in Clusters,
           secrets'[c] # None, secrets'[c].state = "active",
           secrets[c] = None \/ Address[secrets[c].kube] # Address[secrets'[c].kube],
           NEW d \in Clusters, Rightful(d), secrets[d].source # secrets'[c].source
    PROVE  Address[secrets[d].kube] # Address[secrets'[c].kube]
<1>0. job \in [Workers -> Job] /\ secrets \in [Clusters -> Registration \cup {None}]
  BY Unfold DEF Evidence, SharedOK
<1>1. PICK w \in Workers : job'[w] # job[w]
  <2>1. job' \in [Workers -> Job]
    BY StepInv, Unfold DEF Evidence, IInv, TypeOK
  <2> QED BY <1>0, <2>1
<1>2. PICK j : j = job[w]
  OBVIOUS
<1>3. Writes(w, c) /\ secrets'[c] # secrets[c]
  BY <1>1, OnlyWrites DEF Evidence
<1>4. /\ WorkerOK(j, copies[w]) /\ CopiesFaithful(copies[w], secrets) /\ Cleared(j, copies[w])
      /\ j \in Job /\ copies[w] \in [Clusters -> Copy \cup {None}]
  BY <1>2, AtWork DEF Evidence, AllCleared
<1>5. \A k, held : ~Turn(w, k, held)
  BY <1>3 DEF Turn
<1>6. \A v, how, k : Put(w, c, v, how, k) => secrets'[c] = v
  BY <1>0 DEF Put
<1>7. CASE Create(w) /\ c = j.ns.cluster
  <2>1. j.pc = "write" /\ copies[w][c] = None /\ secrets'[c] = Want(j)
    BY <1>2, <1>5, <1>6, <1>7 DEF Create
  <2>2. Want(j).source = j.key /\ Want(j).kube = j.kube
    BY DEF Want
  <2>3. ~Contests(d, j.key, j.kube)
    BY <1>4, <1>7, <2>1 DEF Cleared, Takes
  <2> QED BY <2>1, <2>2, <2>3 DEF Contests
<1>8. CASE Update(w) /\ c = j.ns.cluster
  <2> DEFINE cp == copies[w][c]
  <2>1. /\ j.pc = "write" /\ cp # None /\ SameVersion(cp)
        /\ secrets'[c] = Merge(cp.obj, Want(j))
    BY <1>2, <1>5, <1>6, <1>8 DEF Update
  <2>2. Merge(cp.obj, Want(j)).source = j.key /\ Merge(cp.obj, Want(j)).kube = j.kube
    BY DEF Merge, Want
  <2>3. secrets[c] = cp.obj /\ cp.obj # None
    BY <1>4, <2>1, AbsentAssumption DEF CopiesFaithful, SameVersion, Copy
  <2>4. Moves(cp.obj, j.kube)
    BY <2>1, <2>2, <2>3 DEF Moves
  <2>5. ~Contests(d, j.key, j.kube)
    BY <1>4, <1>8, <2>1, <2>4 DEF Cleared, Takes
  <2> QED BY <2>1, <2>2, <2>5 DEF Contests
<1>9. CASE DeleteOrphan(w, c) \/ DeleteExpired(w, c)
  BY <1>5, <1>6, <1>9 DEF DeleteOrphan, DeleteExpired
<1>10. CASE Demote(w, c)
  <2>1. /\ j.pc = "collect" /\ c \in j.todo
        /\ secrets'[c] = [copies[w][c].obj EXCEPT !.state = "demoted", !.since = now]
    BY <1>2, <1>5, <1>6, <1>10 DEF Demote, At
  <2>2. copies[w][c].obj \in Registration
    BY <1>4, <2>1 DEF WorkerOK, Loops, Copy
  <2>3. secrets'[c].state = "demoted"
    BY <2>1, <2>2 DEF Registration
  <2> QED BY <2>3
<1> QED BY <1>2, <1>3, <1>7, <1>8, <1>9, <1>10 DEF Writes

LEMMA ClaimKept == Spec /\ []OneAtATime => ClaimsFreeAddress
<1>1. Evidence /\ AllCleared /\ [Next]_vars =>
        [WorkerStep =>
           \A c \in Clusters :
              LET s == secrets[c]
                  t == secrets'[c]
              IN  /\ t # None
                  /\ t.state = "active"
                  /\ s = None \/ Address[s.kube] # Address[t.kube]
                  => \A d \in Clusters :
                        Rightful(d) /\ secrets[d].source # t.source =>
                            Address[secrets[d].kube] # Address[t.kube]]_vars
  BY ClaimProven DEF WorkerStep
<1>2. Init => Evidence /\ AllCleared
  BY EvidenceInit DEF Init, Idle, AllCleared, Cleared
<1>3. Evidence /\ AllCleared /\ [Next]_vars /\ OneAtATime /\ OneAtATime' => Evidence' /\ AllCleared'
  BY EvidenceStep, ClearedStep
<1> QED BY <1>1, <1>2, <1>3, PTL DEF Spec, ClaimsFreeAddress

-----------------------------------------------------------------------------
(* Successors.  A pass that goes on to collect has registered its namespace *)
(* first: what it applied is recorded and live, and not on its list.        *)
Succeeded(j) ==
    /\ j.pc \in {"list", "collect"} /\ Applied(j) # None =>
           Applied(j) \in Recorded(j.key) /\ secrets[Applied(j)].state = "active"
    /\ j.pc = "collect" =>
           ProvenGone(j) \/ (Applied(j) # None /\ Applied(j) \notin j.todo)

AllSucceeded == \A w \in Workers : Succeeded(job[w])

LEMMA OneSucceeds ==
    ASSUME IInv, OneAtATime, OneAtATime', NEW w \in Workers, NEW k,
           job' = [job EXCEPT ![w] = k], job[w].pc # "idle" \/ k.pc # "idle",
           Succeeded(k)'
    PROVE  AllSucceeded'
<1>0. job \in [Workers -> Job]
  BY Unfold
<1>1. ASSUME NEW v \in Workers
      PROVE  Succeeded(job[v])'
  <2>1. CASE v = w
    <3>1. job'[v] = k
      BY <1>0, <2>1
    <3> QED BY <2>1, <3>1 DEF Succeeded, Applied, Recorded, ProvenGone
  <2>2. CASE v # w
    <3>1. job'[v] = job[v] /\ job'[w] = k
      BY <1>0, <2>2
    <3>2. job'[v].pc = "idle"
      BY <2>2, <3>1 DEF OneAtATime
    <3> QED BY <3>2 DEF Succeeded
  <2> QED BY <2>1, <2>2
<1> QED BY <1>1 DEF AllSucceeded

(* A namespace that is there and not being torn down is registered, or its  *)
(* registration found as it should be, before the pass goes on to collect.  *)
LEMMA ApplySucceeds ==
    ASSUME IInv, NEW w \in Workers, NEW j, job[w] = j, GetSecret(w) \/ Create(w) \/ Update(w),
           NEW k, job' = [job EXCEPT ![w] = k]
    PROVE  Succeeded(k)'
<1>0. /\ job \in [Workers -> Job] /\ j \in Job /\ job'[w] = k
      /\ secrets \in [Clusters -> Registration \cup {None}]
      /\ WorkerOK(j, copies[w])
  BY Unfold DEF SharedOK
<1> DEFINE c == j.ns.cluster
           listing == [j EXCEPT !.pc = "list"]
           done == [j EXCEPT !.pc = "list", !.kube = None]
<1>1. \A o \in {"requeue", "failed"} : Ended(j.key, o).pc = o
  BY DEF Ended, Idle
<1>2. Refused(j) = Ended(j.key, "requeue")
  BY DEF Refused
<1>3. \A pc : [j EXCEPT !.pc = pc].pc = pc
  BY <1>0 DEF Job
<1>4. /\ listing.pc = "list" /\ listing.key = j.key /\ listing.ns = j.ns
      /\ done.pc = "list" /\ done.key = j.key /\ done.ns = j.ns
  BY <1>0 DEF Job
<1>5. j.pc \in Applying /\ c \in Clusters
  BY <1>0 DEF WorkerOK, Applying, GetSecret, Create, Update
<1> HIDE DEF listing, done
<1>6. \A i, held : Turn(w, i, held) => i = k /\ secrets' = secrets
  BY <1>0 DEF Turn
<1>7. \A v, how, i : Put(w, c, v, how, i) => i = k /\ secrets'[c] = v
  BY <1>0, <1>5 DEF Put
<1>8. ASSUME k \in {listing, done}, secrets'[c] # None, secrets'[c].owned,
             secrets'[c].source = j.key, secrets'[c].state = "active"
      PROVE  Succeeded(k)'
  <2>1. Applied(k) \in {None, c}
    BY <1>4, <1>8 DEF Applied
  <2>2. c \in Recorded(k.key)'
    BY <1>4, <1>5, <1>8 DEF Recorded
  <2> QED BY <1>4, <1>8, <2>1, <2>2 DEF Succeeded, Applied, Recorded
<1>9. CASE k.pc \notin {"list", "collect"}
  BY <1>9 DEF Succeeded
<1>10. CASE GetSecret(w)
  <2>1. \/ k.pc \notin {"list", "collect"}
        \/ /\ k = listing /\ secrets' = secrets
           /\ secrets[c] # None /\ secrets[c] = Merge(secrets[c], Want(j))
    <3>1. \/ \E pc \in {"claimants", "servers", "write"} : \E held : Turn(w, [j EXCEPT !.pc = pc], held)
          \/ Turn(w, Refused(j), Nothing)
          \/ /\ Turn(w, listing, Nothing)
             /\ secrets[c] # None /\ secrets[c] = Merge(secrets[c], Want(j))
      BY <1>10 DEF GetSecret, listing
    <3> QED BY <1>1, <1>2, <1>3, <1>6, <3>1
  <2>2. Merge(secrets[c], Want(j)).owned /\ Merge(secrets[c], Want(j)).source = j.key
        /\ Merge(secrets[c], Want(j)).state = "active"
    BY DEF Merge, Want
  <2> QED BY <1>8, <1>9, <2>1, <2>2
<1>11. CASE Create(w) \/ Update(w)
  <2> DEFINE merged == Merge(copies[w][c].obj, Want(j))
  <2>1. \/ \E o \in {"requeue", "failed"} : Turn(w, Ended(j.key, o), Nothing)
        \/ \E how : Put(w, c, Want(j), how, done)
        \/ /\ copies[w][c] # None
           /\ \E how : Put(w, c, merged, how, done)
    BY <1>2, <1>11 DEF Create, Update, done
  <2>2. \/ k.pc \notin {"list", "collect"}
        \/ k = done /\ secrets'[c] = Want(j)
        \/ k = done /\ secrets'[c] = merged /\ copies[w][c] # None
    BY <1>1, <1>6, <1>7, <2>1
  <2>3. /\ Want(j).owned /\ Want(j).source = j.key /\ Want(j).state = "active"
        /\ merged.owned /\ merged.source = j.key /\ merged.state = "active"
    BY DEF Merge, Want
  <2>4. Want(j) # None /\ (copies[w][c] # None => merged # None)
    <3>1. j.key \in Namespaces /\ j.kube \in Kubeconfigs /\ j.ns \in Namespace
          /\ (copies[w][c] # None => copies[w][c].obj \in Registration)
      BY <1>0, <1>5, AtWork DEF WorkerOK, Applying, Resting, Outcomes, Copy
    <3>2. Want(j) \in Registration /\ (copies[w][c] # None => merged \in Registration)
      BY <3>1 DEF Merge, Want, Registration, Namespace
    <3> QED BY <3>2, AbsentAssumption
  <2> HIDE DEF merged
  <2> QED BY <1>8, <1>9, <2>2, <2>3, <2>4
<1> QED BY <1>10, <1>11

(* The list of what to collect, and each item of it.                        *)
LEMMA CollectSucceeds ==
    ASSUME IInv, NEW w \in Workers, NEW j, job[w] = j, Succeeded(j), ListOwned(w),
           NEW k, job' = [job EXCEPT ![w] = k]
    PROVE  Succeeded(k)'
<1>0. job \in [Workers -> Job] /\ j \in Job /\ job'[w] = k
  BY Unfold
<1> DEFINE items == IF ProvenGone(j) \/ Applied(j) # None THEN Superseded(j) ELSE {}
           result == Result(j, Recorded(j.key))
           i == [j EXCEPT !.pc = "collect", !.todo = items, !.kube = None, !.outcome = result]
<1>1. /\ j.pc = "list" /\ secrets' = secrets
      /\ \/ k = Ended(j.key, result)
         \/ items # {} /\ k = i
  BY <1>0 DEF ListOwned, Turn
<1>2. i.pc = "collect" /\ i.todo = items /\ i.key = j.key /\ i.ns = j.ns
  BY <1>0 DEF Job
<1>3. Ended(j.key, result).pc \in {"finished", "requeue"}
  BY DEF Ended, Idle, Result
<1>4. Applied(j) \notin items /\ (items # {} => ProvenGone(j) \/ Applied(j) # None)
  BY DEF Superseded
<1>5. Applied(i) = Applied(j) /\ ProvenGone(i) = ProvenGone(j)
  BY <1>2 DEF Applied, ProvenGone
<1> HIDE DEF i, items, result
<1> QED BY <1>1, <1>2, <1>3, <1>4, <1>5 DEF Succeeded, Recorded, Applied, ProvenGone

LEMMA ItemSucceeds ==
    ASSUME IInv, NEW w \in Workers, NEW j, job[w] = j, Sound(j), Succeeded(j), NEW d \in Clusters,
           \/ DeleteOrphan(w, d) \/ KeepDemoted(w, d) \/ DeleteExpired(w, d)
           \/ Demote(w, d) \/ ItemError(w, d),
           NEW k, job' = [job EXCEPT ![w] = k]
    PROVE  Succeeded(k)'
<1>0. /\ job \in [Workers -> Job] /\ j \in Job /\ job'[w] = k
      /\ secrets \in [Clusters -> Registration \cup {None}]
  BY Unfold DEF SharedOK
<1>1. d \in j.todo /\ j.pc \in Loops
  BY DEF DeleteOrphan, KeepDemoted, DeleteExpired, Demote, ItemError, At, Loops
<1>2. k \in {ItemDone(j, d), ItemKept(j, d), ItemFailed(j, d)}
  BY <1>0 DEF DeleteOrphan, KeepDemoted, DeleteExpired, Demote, ItemError, Turn, Put
<1>3. /\ Follows(j, k)
      /\ k.pc \in Loops => k.pc = j.pc /\ k.todo = j.todo \ {d}
  BY <1>0, <1>1, <1>2, ItemFollows
<1>4. \A c \in Clusters \ {d} : secrets'[c] = secrets[c]
  BY <1>0 DEF DeleteOrphan, KeepDemoted, DeleteExpired, Demote, ItemError, Turn, Put
<1>5. k.pc # "list"
  BY <1>0, <1>1, <1>2, ItemGoes
<1>6. CASE k.pc = "collect"
  <2>1. j.pc = "collect" /\ k.todo \subseteq j.todo /\ k.key = j.key /\ k.ns = j.ns
    BY <1>3, <1>6 DEF Follows, Loops, Outcomes
  <2>2. Applied(k) = Applied(j) /\ ProvenGone(k) = ProvenGone(j)
    BY <2>1 DEF Applied, ProvenGone
  <2>3. Applied(j) # None => /\ Applied(j) \in Recorded(j.key) /\ secrets[Applied(j)].state = "active"
                             /\ Applied(j) # d
    BY <1>1, <2>1 DEF Succeeded, Applied, ProvenGone
  <2>4. ProvenGone(j) \/ (Applied(j) # None /\ Applied(j) \notin j.todo)
    BY <2>1 DEF Succeeded
  <2>5. Applied(j) # None => Applied(j) \in Recorded(j.key)' /\ secrets'[Applied(j)].state = "active"
    BY <1>4, <2>3 DEF Recorded
  <2> QED BY <2>1, <2>2, <2>4, <2>5 DEF Succeeded, Recorded, Applied, ProvenGone
<1> QED BY <1>5, <1>6 DEF Succeeded

(* The reads that lead to neither list.                                     *)
LEMMA ReadsOn ==
    ASSUME IInv, NEW w \in Workers, NEW j, job[w] = j,
           \/ ListStale(w) \/ Discover(w) \/ DiscoverFails(w) \/ ListClaimants(w) \/ ListServers(w)
           \/ CheckFails(w) \/ Abort(w) \/ \E n \in Namespaces : CheckIncumbent(w, n),
           NEW k, job' = [job EXCEPT ![w] = k]
    PROVE  k.pc \notin {"list", "collect"}
<1>0. job \in [Workers -> Job] /\ j \in Job /\ job'[w] = k
  BY Unfold
<1>1. \A i, held : Turn(w, i, held) => k = i
  BY <1>0 DEF Turn
<1>2. \A o \in {"requeue", "failed"} : Ended(j.key, o).pc = o
  BY DEF Ended, Idle
<1>3. Refused(j) = Ended(j.key, "requeue")
  BY DEF Refused
<1>4. CASE DiscoverFails(w) \/ CheckFails(w) \/ Abort(w)
  BY <1>1, <1>2, <1>3, <1>4 DEF DiscoverFails, CheckFails, Abort
<1>5. CASE ListStale(w)
  <2> DEFINE next(pc, S) == [j EXCEPT !.pc = pc, !.todo = S]
  <2>1. \E pc \in {"discover", "stale-delete"} : \E S : k = next(pc, S)
    BY <1>1, <1>5 DEF ListStale
  <2>2. \A pc, S : next(pc, S).pc = pc
    BY <1>0 DEF Job
  <2> HIDE DEF next
  <2> QED BY <2>1, <2>2
<1>6. CASE Discover(w) \/ ListClaimants(w)
  <2>1. \/ k = Ended(j.key, "requeue")
        \/ k = [j EXCEPT !.pc = "get-secret", !.kube = kubeconfigs[j.key]]
        \/ k = [j EXCEPT !.pc = "servers"]
    BY <1>1, <1>3, <1>6 DEF Discover, ListClaimants
  <2>2. /\ [j EXCEPT !.pc = "get-secret", !.kube = kubeconfigs[j.key]].pc = "get-secret"
        /\ [j EXCEPT !.pc = "servers"].pc = "servers"
    BY <1>0 DEF Job
  <2> QED BY <1>2, <2>1, <2>2
<1>7. CASE ListServers(w)
  <2> DEFINE next(pc, S) == [j EXCEPT !.pc = pc, !.rivals = S]
  <2>1. k = Refused(j) \/ \E pc \in {"write", "incumbents"} : \E S : k = next(pc, S)
    BY <1>1, <1>7 DEF ListServers
  <2>2. \A pc, S : next(pc, S).pc = pc
    BY <1>0 DEF Job
  <2> HIDE DEF next
  <2> QED BY <1>2, <1>3, <2>1, <2>2
<1>8. ASSUME NEW n \in Namespaces, CheckIncumbent(w, n)
      PROVE  k.pc \notin {"list", "collect"}
  <2> DEFINE left == [j EXCEPT !.rivals = @ \ {n}]
  <2>1. j.pc = "incumbents" /\ k \in {Refused(j), left, [left EXCEPT !.pc = "write"]}
    BY <1>1, <1>8 DEF CheckIncumbent
  <2>2. left.pc = j.pc /\ [left EXCEPT !.pc = "write"].pc = "write"
    BY <1>0 DEF Job
  <2> HIDE DEF left
  <2> QED BY <1>2, <1>3, <2>1, <2>2
<1> QED BY <1>4, <1>5, <1>6, <1>7, <1>8

(* A pass that goes straight to collect registers nothing.                  *)
LEMMA BeginsToList ==
    ASSUME IInv, NEW w \in Workers, NEW n \in Namespaces, GetNamespace(w, n) \/ GetFails(w, n),
           NEW k, job' = [job EXCEPT ![w] = k], k.pc = "list"
    PROVE  Applied(k) = None
<1>0. job \in [Workers -> Job] /\ job'[w] = k
  BY Unfold
<1> DEFINE j(pc) == [[Idle EXCEPT !.key = n, !.ns = namespaces[n]] EXCEPT !.pc = pc]
<1>1. \A pc : j(pc).pc = pc /\ j(pc).ns = namespaces[n]
  BY DEF Idle
<1>2. \A o \in {"requeue", "failed"} : Ended(n, o).pc = o
  BY DEF Ended, Idle
<1>3. \/ \E o \in {"requeue", "failed"} : k = Ended(n, o)
      \/ k = j("list") /\ (namespaces[n] = None \/ namespaces[n].terminating)
      \/ k = j("stale-list")
  BY <1>0 DEF GetNamespace, GetFails, Turn
<1> HIDE DEF j
<1> QED BY <1>1, <1>2, <1>3 DEF Applied

LEMMA CallSucceeds ==
    ASSUME Evidence, AllSucceeded, OneAtATime, OneAtATime', NEW w \in Workers, Calls(w)
    PROVE  AllSucceeded'
<1>1. PICK j : j = job[w]
  OBVIOUS
<1>2. IInv /\ Sound(j) /\ Succeeded(j)
  BY <1>1 DEF Evidence, AllSound, AllSucceeded
<1>3. Keeps(w, j)
  BY <1>1, <1>2, CallKeeps
<1>4. PICK k : job' = [job EXCEPT ![w] = k]
  BY <1>3 DEF Keeps
<1>5. job[w].pc # "idle"
  BY <1>1, <1>3 DEF Keeps, Working
<1>6. CASE \/ ListStale(w) \/ Discover(w) \/ DiscoverFails(w) \/ ListClaimants(w) \/ ListServers(w)
           \/ CheckFails(w) \/ Abort(w) \/ \E n \in Namespaces : CheckIncumbent(w, n)
  <2>1. k.pc \notin {"list", "collect"}
    BY <1>1, <1>2, <1>4, <1>6, ReadsOn
  <2>2. Succeeded(k)'
    BY <2>1 DEF Succeeded
  <2> QED BY <1>2, <1>4, <1>5, <2>2, OneSucceeds
<1>7. CASE \/ GetSecret(w) \/ Create(w) \/ Update(w) \/ ListOwned(w)
           \/ \E c \in Clusters : \/ DeleteOrphan(w, c) \/ KeepDemoted(w, c)
                                  \/ DeleteExpired(w, c) \/ Demote(w, c) \/ ItemError(w, c)
  <2>1. Succeeded(k)'
    BY <1>1, <1>2, <1>4, <1>7, ApplySucceeds, CollectSucceeds, ItemSucceeds
  <2> QED BY <1>2, <1>4, <1>5, <2>1, OneSucceeds
<1> QED BY <1>6, <1>7 DEF Calls

(* Nobody takes a label off a registration, or a registration away.         *)
HandsOff == Edits \cap {"strip", "remove"} = {}

LEMMA OutsideSucceeds ==
    ASSUME HandsOff, Evidence, AllSucceeded, Environment
    PROVE  AllSucceeded'
<1>0. secrets \in [Clusters -> Registration \cup {None}] /\ UNCHANGED job
  BY Unfold, OutsideRecords DEF Evidence, SharedOK
<1>1. ASSUME NEW c \in Clusters, secrets[c] # None
      PROVE  /\ secrets'[c] # None
             /\ secrets'[c].source = secrets[c].source
             /\ secrets'[c].owned = secrets[c].owned
             /\ secrets'[c].state = secrets[c].state
  <2> DEFINE Kept == /\ secrets'[c] # None
                     /\ secrets'[c].source = secrets[c].source
                     /\ secrets'[c].owned = secrets[c].owned
                     /\ secrets'[c].state = secrets[c].state
  <2>1. CASE UNCHANGED secrets
    BY <1>1, <2>1
  <2>2. ASSUME NEW d \in Clusters, NEW k \in Kubeconfigs, HandCreate(d, k)
        PROVE  Kept
    BY <1>0, <1>1, <2>2 DEF HandCreate, EditSecret
  <2>3. ASSUME NEW d \in Clusters, HandReplace(d)
        PROVE  Kept
    BY <1>0, <1>1, <2>3 DEF HandReplace, EditSecret
  <2>4. ASSUME NEW d \in Clusters, SetPin(d)
        PROVE  Kept
    <3> DEFINE s == [secrets[d] EXCEPT !.pinned = ~@]
    <3>1. secrets' = [secrets EXCEPT ![d] = s] /\ secrets[d] \in Registration
      BY <1>0, <2>4 DEF SetPin, EditSecret
    <3>2. s.source = secrets[d].source /\ s.owned = secrets[d].owned /\ s.state = secrets[d].state
          /\ s \in Registration
      BY <3>1 DEF Registration
    <3> HIDE DEF s
    <3> QED BY <1>0, <1>1, <3>1, <3>2, AbsentAssumption
  <2>5. \A d \in Clusters : ~HandRemove(d) /\ ~Strip(d)
    BY DEF HandsOff, HandRemove, Strip, Edit
  <2>6. \/ UNCHANGED secrets
        \/ \E d \in Clusters : \/ \E k \in Kubeconfigs : HandCreate(d, k)
                               \/ SetPin(d) \/ HandReplace(d)
    BY <2>5 DEF Environment, Relabel, CreateNamespace, Provision, Reprovision, DeleteNamespace,
           Finalize, SetManaged, Tick, EditNamespace
  <2> QED BY <2>1, <2>2, <2>3, <2>4, <2>6
<1>2. ASSUME NEW w \in Workers
      PROVE  Succeeded(job[w])'
  BY <1>0, <1>1 DEF AllSucceeded, Succeeded, Recorded, Applied, ProvenGone
<1> QED BY <1>2 DEF AllSucceeded

LEMMA SucceededStep ==
    ASSUME HandsOff, Evidence, AllSucceeded, [Next]_vars, OneAtATime, OneAtATime'
    PROVE  AllSucceeded'
<1>1. CASE UNCHANGED vars
  BY <1>1 DEF AllSucceeded, Succeeded, Applied, Recorded, ProvenGone, vars, sources, worker
<1>2. CASE Environment
  BY <1>2, OutsideSucceeds
<1>3. ASSUME NEW w \in Workers, NEW n \in Namespaces, GetNamespace(w, n) \/ GetFails(w, n)
      PROVE  AllSucceeded'
  <2>1. PICK k : Begins(w, n, k)
    BY <1>3, BeginsWith
  <2>2. job' = [job EXCEPT ![w] = k] /\ k.pc \in {"list", "stale-list", "requeue", "failed"}
    BY <2>1 DEF Begins
  <2>3. k.pc = "list" => Applied(k) = None
    BY <1>3, <2>2, BeginsToList DEF Evidence
  <2> QED BY <2>2, <2>3, OneSucceeds DEF Succeeded, Applied, Evidence
<1>4. ASSUME NEW w \in Workers, Calls(w)
      PROVE  AllSucceeded'
  BY <1>4, CallSucceeds
<1>5. ASSUME NEW w \in Workers, Return(w) \/ Crash(w)
      PROVE  AllSucceeded'
  <2>1. job' = [job EXCEPT ![w] = Idle] /\ job[w].pc # "idle"
    BY <1>5 DEF Return, Crash, Turn, Outcomes
  <2>2. Succeeded(Idle)'
    BY DEF Succeeded, Idle
  <2> QED BY <2>1, <2>2, OneSucceeds DEF Evidence
<1>6. ASSUME NEW w \in Workers, Progress(w) \/ Fault(w)
      PROVE  AllSucceeded'
  BY <1>3, <1>4, <1>5, <1>6 DEF Progress, Fault, Calls
<1> QED BY <1>1, <1>2, <1>6 DEF Next

(* What is hidden has a successor.                                          *)
LEMMA HidingProven ==
    ASSUME Evidence, AllSucceeded, [Next]_vars
    PROVE  ~HidesTheOnlyOne
<1> SUFFICES ASSUME NEW c \in Clusters, job' # job,
                    secrets[c] # None, secrets'[c] # None,
                    secrets[c].state = "active", secrets'[c].state = "demoted"
             PROVE  \E d \in Recorded(secrets[c].source) \ {c} : secrets[d].state = "active"
  BY DEF HidesTheOnlyOne, WorkerStep
<1>0. job \in [Workers -> Job]
  BY Unfold DEF Evidence
<1>1. PICK w \in Workers : job'[w] # job[w]
  <2>1. job' \in [Workers -> Job]
    BY StepInv, Unfold DEF Evidence, IInv, TypeOK
  <2> QED BY <1>0, <2>1
<1>2. PICK j : j = job[w]
  OBVIOUS
<1>3. Writes(w, c)
  BY <1>1, OnlyWrites DEF Evidence
<1>4. \A s, t : Merge(s, Want(t)).state = "active"
  BY DEF Merge, Want
<1>5. secrets[c].source = j.key /\ j.pc = "collect"
  <2> DEFINE cp == copies[w][c]
  <2>1. secrets'[c] # secrets[c]
    OBVIOUS
  <2>2. \/ secrets'[c] = Merge(cp.obj, Want(j))
        \/ secrets[c] = cp.obj /\ cp.obj.source = j.key /\ j.pc = "collect"
    BY <1>2, <1>3, <2>1, WriteEffect DEF Evidence
  <2> QED BY <1>4, <2>2
<1>6. Demote(w, c)
  <2>1. \A v, how, k : Put(w, c, v, how, k) => secrets'[c] = v
    BY Unfold DEF Evidence, SharedOK, Put
  <2>2. \A k, held : ~Turn(w, k, held)
    BY DEF Turn
  <2> QED BY <1>2, <1>3, <1>5, <2>1, <2>2 DEF Writes, Create, Update, DeleteOrphan, DeleteExpired
<1>7. c \in j.todo /\ ~ProvenGone(j) /\ Succeeded(j)
  BY <1>2, <1>6 DEF Demote, At, AllSucceeded
<1> QED BY <1>5, <1>7 DEF Succeeded

LEMMA HidingKept == HandsOff /\ Spec /\ []OneAtATime => [][~HidesTheOnlyOne]_vars
<1>1. Evidence /\ AllSucceeded /\ [Next]_vars => [~HidesTheOnlyOne]_vars
  BY HidingProven
<1>2. Init => Evidence /\ AllSucceeded
  BY EvidenceInit DEF Init, Idle, AllSucceeded, Succeeded
<1>3. ASSUME HandsOff
      PROVE  Evidence /\ AllSucceeded /\ [Next]_vars /\ OneAtATime /\ OneAtATime' => Evidence' /\ AllSucceeded'
  BY <1>3, EvidenceStep, SucceededStep
<1>4. ASSUME HandsOff
      PROVE  Spec /\ []OneAtATime => [][~HidesTheOnlyOne]_vars
  BY <1>1, <1>2, <1>3, <1>4, PTL DEF Spec
<1> QED BY <1>4

-----------------------------------------------------------------------------
(* All of this holds of the controller: the holder of the lease runs one    *)
(* pass at a time.                                                          *)
LEMMA Alone == ControllerSpec => Spec /\ []OneAtATime
<1>1. CInv => OneAtATime
  <2> SUFFICES ASSUME CInv, NEW v \in Workers, NEW w \in Workers,
                      job[v].pc # "idle", job[w].pc # "idle"
               PROVE  v = w
    BY DEF OneAtATime
  <2>1. Up(v) /\ Up(w)
    BY DEF CInv, Remembers, Idle
  <2> QED BY <2>1 DEF CInv, OneUp
<1> QED BY <1>1, Remembering, Composition, PTL

(* "A registration is removed only on evidence that its source is gone".    *)
THEOREM Removal == ControllerSpec => RemovalNeedsProof
BY Alone, RemovalKept, PTL

(* claimServer: although its list and its namespace reads are older than    *)
(* the write, the controller never takes an address, for a new Secret or    *)
(* for one it moves, that a live registration of another existing namespace *)
(* has at that moment.                                                      *)
THEOREM Claiming == ControllerSpec => ClaimsFreeAddress
BY Alone, ClaimKept, PTL

(* "Demotion has a successor": unless people strip or remove registrations, *)
(* the controller never hides the only live registration of a namespace; a  *)
(* claimant that was refused keeps the one it had.                          *)
THEOREM Demotion == HandsOff /\ ControllerSpec => [][~HidesTheOnlyOne]_vars
BY Alone, HidingKept, PTL

-----------------------------------------------------------------------------
(* The third part: a sweep beside the controller.                          *)

Sweeps == [at: Stage, keys: SUBSET Namespaces, failed: SUBSET Namespaces,
           exit: {"none", "success", "error"}]

(* The sweeper never leads, and before it runs it has not been there.       *)
Apart ==
    /\ sweep \in Sweeps
    /\ phase \in [Workers -> Phase]
    /\ ~Up(Sweeper)

SInv ==
    /\ IInv
    /\ AllSound
    /\ Apart
    /\ sweep.at = "not-run" => CInv

LEMMA SweepInitInv == SweepInit => SInv
<1> SUFFICES ASSUME SweepInit PROVE SInv
  OBVIOUS
<1>1. Idle \in Job /\ Idle.pc = "idle" /\ Sound(Idle) /\ Answers(Idle)
  BY DEF Idle, Job, Phases, Outcomes, Sound, Answers
<1>2. WorkerOK(Idle, Nothing)
  BY <1>1 DEF WorkerOK, Resting, Outcomes, Applying, Loops
<1>3. \A c \in Clusters : Fresh(1, 0, c) \in Namespace
  BY DEF Fresh, Namespace
<1>4. namespaces \in [Namespaces -> Namespace \cup {None}]
  BY <1>3 DEF SweepInit
<1>5. secrets \in [Clusters -> Registration \cup {None}]
  <2>1. ASSUME NEW s \in Left, s # None
        PROVE  s \in Registration
    <3>1. /\ s = [owned |-> s.owned, source |-> s.source, uid |-> s.uid, named |-> s.named,
                  state |-> s.state, since |-> s.since, pinned |-> s.pinned, kube |-> s.kube]
          /\ s.owned \in BOOLEAN /\ s.source \in Namespaces \cup {None} /\ s.uid = 1 /\ s.named \in BOOLEAN
          /\ s.state = "active" /\ s.since = None /\ s.pinned \in BOOLEAN /\ s.kube \in Kubeconfigs
      BY <2>1 DEF Left
    <3> QED BY <3>1 DEF Registration
  <2> QED BY <2>1 DEF SweepInit
<1>6. SharedOK
  BY <1>4, <1>5 DEF SweepInit, SharedOK
<1>7. IInv
  BY <1>1, <1>2, <1>6, NothingHeld, Unfold DEF SweepInit
<1>8. ControllersTyped /\ OneUp /\ ~Up(Sweeper)
  BY FaultsAssumption, SweeperAssumption DEF SweepInit, ControllersTyped, Phase, OneUp, Up
<1>9. \A p \in Workers : Remembers(p)
  BY DownRemembers DEF SweepInit
<1>10. AllSound
  BY <1>1 DEF SweepInit, AllSound
<1>11. sweep \in Sweeps
  BY DEF SweepInit, NotRun, Sweeps, Stage
<1> QED BY <1>7, <1>8, <1>9, <1>10, <1>11 DEF SInv, CInv, Apart, ControllersTyped

(* Every step is a step of Reconcile, or none to it.                        *)
LEMMA SweepSteps ==
    ASSUME SInv, [SweepNext]_everything
    PROVE  [Next]_vars
<1>1. \A w \in Workers : job[w].pc = "idle" => job[w] = Idle
  BY DEF SInv, AllSound, Sound
<1>2. CASE UNCHANGED everything
  BY <1>2 DEF everything, sweptVars, allVars
<1>3. CASE Launch \/ ListNamespaces \/ ListSecrets \/ ListFails \/ Audit \/ AuditFails
  BY <1>3 DEF Launch, ListNamespaces, ListSecrets, ListFails, Audit, AuditFails, allVars
<1>4. CASE \E n \in Namespaces : Visit(n) \/ VisitFails(n)
  BY <1>4, SweeperAssumption DEF Visit, VisitFails, Next, Progress, Fault
<1>5. CASE SweepCall \/ SweepCallFails
  BY <1>5, SweeperAssumption DEF SweepCall, SweepCallFails, Call, CallFails, Next, Progress, Fault
<1>6. CASE PassDone
  BY <1>6, SweeperAssumption DEF PassDone, Next, Progress
<1>7. CASE Interrupt
  BY <1>1, <1>7, SweeperAssumption, StopsAsNext DEF SInv, Interrupt, Next
<1>8. CASE Beside
  <2>1. ASSUME NEW p \in Workers, Runs(p)
        PROVE  [Next]_vars
    BY <1>1, <2>1, RunsAsNext DEF SInv, Next
  <2>2. CASE World
    BY <2>2 DEF World, Next
  <2> QED BY <1>8, <2>1, <2>2 DEF Beside
<1> QED BY <1>2, <1>3, <1>4, <1>5, <1>6, <1>7, <1>8 DEF SweepNext, Steps

LEMMA SweepApart ==
    ASSUME SInv, [SweepNext]_everything
    PROVE  Apart'
<1>0. /\ sweep \in Sweeps /\ phase \in [Workers -> Phase] /\ ~Up(Sweeper)
      /\ job \in [Workers -> Job]
      /\ \A w \in Workers : job[w].pc # "idle" => job[w].key \in Namespaces
  BY Unfold DEF SInv, Apart, AllSound, Sound
<1>1. WatchedNames \subseteq Namespaces /\ RecordedNames \subseteq Namespaces
  BY DEF WatchedNames, RecordedNames
<1>2. CASE UNCHANGED everything
  BY <1>0, <1>2 DEF everything, sweptVars, allVars, controllers, Apart, Sweeps, Stage, Up
<1>3. CASE Steps
  <2>1. UNCHANGED phase
    BY <1>3 DEF Steps, Launch, ListNamespaces, ListSecrets, ListFails, Visit, VisitFails, SweepCall,
                SweepCallFails, PassDone, Audit, AuditFails, Interrupt, allVars, controllers,
                Call, CallFails
  <2>2. sweep' \in Sweeps
    <3>1. CASE Launch \/ ListNamespaces \/ ListSecrets \/ ListFails
      BY <1>0, <1>1, <3>1 DEF Launch, ListNamespaces, ListSecrets, ListFails, Keys, Sweeps, Stage
    <3>2. CASE \/ SweepCall \/ SweepCallFails \/ Audit \/ AuditFails \/ Interrupt
               \/ \E n \in Namespaces : Visit(n) \/ VisitFails(n)
      BY <1>0, <3>2 DEF SweepCall, SweepCallFails, Audit, AuditFails, Exit, Interrupt,
                        Visit, VisitFails, Sweeps, Stage
    <3>3. CASE PassDone
      <4>1. job[Sweeper].key \in Namespaces
        BY <1>0, <3>3, SweeperAssumption DEF PassDone, Return, Outcomes
      <4> QED BY <1>0, <3>3, <4>1 DEF PassDone, NextAfter, Sweeps, Stage
    <3> QED BY <1>3, <3>1, <3>2, <3>3 DEF Steps
  <2> QED BY <1>0, <2>1, <2>2 DEF Apart, Up
<1>4. CASE Beside
  <2>1. UNCHANGED sweep
    BY <1>4 DEF Beside
  <2>2. ASSUME NEW p \in Workers, p # Sweeper, Runs(p)
        PROVE  phase' \in [Workers -> Phase] /\ phase'[Sweeper] = phase[Sweeper]
    BY <1>0, <2>2, SweeperAssumption
    DEF Runs, Start, SeedNamespaces, SeedSecrets, SeedFails, SeedQueue, Take, TakeFails, Call, CallFails,
        Done, Die, controllers, Phase
  <2>3. CASE World
    BY <1>0, <2>1, <2>3 DEF World, Apart, Up
  <2> QED BY <1>0, <1>4, <2>1, <2>2, <2>3 DEF Beside, Apart, Up
<1> QED BY <1>2, <1>3, <1>4 DEF SweepNext

(* Before the sweep there is only the controller; and it never is before    *)
(* the sweep again.                                                         *)
LEMMA SweepStepInv ==
    ASSUME SInv, [SweepNext]_everything
    PROVE  SInv'
<1>1. IInv' /\ AllSound'
  BY SweepSteps, StepInv, SoundStep DEF SInv
<1>2. ASSUME sweep'.at = "not-run"
      PROVE  CInv'
  <2>0. sweep \in Sweeps
    BY DEF SInv, Apart
  <2>1. CASE UNCHANGED everything
    BY <1>2, <2>1, ControllerStepInv DEF SInv, everything, sweptVars
  <2>2. CASE Steps
    <3>1. SweepCall \/ SweepCallFails
      BY <1>2, <2>0, <2>2 DEF Steps, Launch, ListNamespaces, ListSecrets, ListFails, Visit, VisitFails,
                PassDone, NextAfter, Audit, AuditFails, Exit, Interrupt, Sweeps
    <3>2. CInv /\ Calls(Sweeper) /\ ~Up(Sweeper)
      BY <1>2, <3>1 DEF SInv, Apart, SweepCall, SweepCallFails, Call, CallFails, Calls
    <3>3. PICK j : j = job[Sweeper]
      OBVIOUS
    <3>4. Sound(j) /\ j = Idle
      BY <3>2, <3>3, SweeperAssumption DEF CInv, Remembers, Answers
    <3>5. Working(j.pc)
      BY <3>2, <3>3, <3>4, SweeperAssumption, CallKeeps DEF CInv, Keeps
    <3> QED BY <3>4, <3>5 DEF Working, Idle
  <2>3. CASE Beside
    <3>1. CInv /\ ControllerNext
      BY <1>2, <2>3 DEF SInv, Beside, ControllerNext
    <3> QED BY <3>1, ControllerStepInv
  <2> QED BY <2>1, <2>2, <2>3 DEF SweepNext
<1> QED BY <1>1, <1>2, SweepApart DEF SInv

LEMMA SweepInvariance == SweepSpec => []SInv
BY SweepInitInv, SweepStepInv, PTL DEF SweepSpec

-----------------------------------------------------------------------------
(* As long as nobody sweeps, a seeded process forgets no namespace that     *)
(* still matters, whatever earlier controllers left behind.                 *)
THEOREM Forgetting == SweepSpec => []ForgottenOnlyBeside
<1>1. SInv => ForgottenOnlyBeside
  BY CInvImplies DEF SInv, ForgottenOnlyBeside
<1> QED BY <1>1, SweepInvariance, PTL

(* --once takes no lease, and need not for this: with it beside the         *)
(* controller no pass takes a Secret over, touches a pinned one but in the  *)
(* one window there is, or deletes a successor for an expired one.          *)
THEOREM SafeBeside == SweepSpec => NoTakeover /\ PinSurvives /\ ExpiryRechecked
<1>1. SInv => IInv
  BY DEF SInv
<1>2. SInv /\ [SweepNext]_everything => [Next]_vars
  BY SweepSteps
<1>3. SweepSpec => []IInv /\ [][Next]_vars
  BY <1>1, <1>2, SweepInvariance, PTL DEF SweepSpec
<1> QED BY <1>3, IncumbencyKept, PinningKept, ExpiryKept, PTL

-----------------------------------------------------------------------------
(* What is owed.                                                           *)

(* The pass at j, holding held, is about namespace n, knows that it is      *)
(* gone, and has c before it, or has failed already.                        *)
Deals(j, held, n, c) ==
    /\ j.key = n
    /\ j.ns = None
    /\ \/ j.pc \in {"list", "failed"}
       \/ j.pc = "collect" /\ j.outcome = "failed"
       \/ j.pc = "collect" /\ c \in j.todo /\ SameObject(held[c])

Underway(c) == Deals(job[Sweeper], copies[Sweeper], secrets[c].source, c)

Covered(c) == secrets[c].source \in sweep.keys \cup sweep.failed \/ Underway(c)

(* Nothing owed is lost on the way: it is of a namespace whose turn is      *)
(* still to come, whose pass is under way, or whose pass has failed.        *)
Debts ==
    /\ owed \subseteq Clusters
    /\ \A c \in owed : Orphan(c)
    /\ sweep.at = "passes" => \A c \in owed : Covered(c)
    /\ OrphansSwept

(* What others do to a Secret that stays the same object, leaves the copy   *)
(* of it good enough for its deletion.                                      *)
LEMMA PutSpares ==
    ASSUME IInv, NEW x \in Workers, NEW d \in Clusters, NEW v, NEW how \in {"rewritten", "replaced"},
           NEW k, Put(x, d, v, how, k), how = "replaced" => secrets[d] = None \/ v = None,
           NEW w \in Workers, w # x, NEW c \in Clusters, secrets[c] # None, secrets'[c] # None,
           copies[w][c] # None, SameObject(copies[w][c])
    PROVE  job'[w] = job[w] /\ copies'[w][c] # None /\ SameObject(copies'[w][c])
<1> DEFINE kept == Held(k, [copies[x] EXCEPT ![d] = None])
           cps == [copies EXCEPT ![x] = kept]
<1>0. /\ job \in [Workers -> Job] /\ copies \in [Workers -> [Clusters -> Copy \cup {None}]]
      /\ secrets \in [Clusters -> Registration \cup {None}]
  BY Unfold DEF SharedOK
<1>1. kept \in [Clusters -> Copy \cup {None}]
  BY <1>0, NothingHeld DEF Held
<1>2. cps \in [Workers -> [Clusters -> Copy \cup {None}]] /\ cps[w] = copies[w]
  BY <1>0, <1>1
<1>3. /\ job'[w] = job[w] /\ copies' = Outdate(cps, d, how)
      /\ secrets' = [secrets EXCEPT ![d] = v]
  BY <1>0 DEF Put
<1> HIDE DEF kept, cps
<1>4. copies'[w][c] = IF c = d THEN Marked(copies[w][d], how) ELSE copies[w][c]
  BY <1>2, <1>3, OutdateCopies
<1>5. c = d => how = "rewritten"
  BY <1>0, <1>3
<1>6. copies[w][c] \in Copy
  BY <1>0
<1>7. Marked(copies[w][c], "rewritten") # None
  BY <1>6, MarkedCopy
<1>8. Marked(copies[w][c], "rewritten").version # "replaced"
  BY <1>6, AbsentAssumption DEF Marked, Copy, SameObject
<1> QED BY <1>3, <1>4, <1>5, <1>7, <1>8 DEF SameObject

LEMMA StepSpares ==
    ASSUME IInv, NEW x \in Workers, Progress(x) \/ Fault(x),
           NEW w \in Workers, w # x, NEW c \in Clusters, secrets[c] # None, secrets'[c] # None,
           copies[w][c] # None, SameObject(copies[w][c])
    PROVE  job'[w] = job[w] /\ copies'[w][c] # None /\ SameObject(copies'[w][c])
<1>0. job \in [Workers -> Job] /\ copies \in [Workers -> [Clusters -> Copy \cup {None}]]
  BY Unfold
<1>1. ASSUME NEW k, NEW held, Turn(x, k, held)
      PROVE  job'[w] = job[w] /\ copies'[w][c] # None /\ SameObject(copies'[w][c])
  BY <1>0, <1>1 DEF Turn
<1> DEFINE Removes(d, v, how) == how = "replaced" => secrets[d] = None \/ v = None
<1>2. CASE Create(x) \/ Update(x)
  <2>1. job[x].pc = "write" /\ job[x].ns.cluster \in Clusters
    BY <1>2, AtWork DEF Create, Update, WorkerOK, Applying
  <2>2. \/ \E k, held : Turn(x, k, held)
        \/ \E v, k : \E how \in {"rewritten", "replaced"} :
               Put(x, job[x].ns.cluster, v, how, k) /\ Removes(job[x].ns.cluster, v, how)
    BY <1>2 DEF Create, Update
  <2> QED BY <1>1, <2>1, <2>2, PutSpares
<1>3. ASSUME NEW d \in Clusters, DeleteOrphan(x, d) \/ DeleteExpired(x, d) \/ Demote(x, d)
      PROVE  job'[w] = job[w] /\ copies'[w][c] # None /\ SameObject(copies'[w][c])
  <2>1. \/ \E k, held : Turn(x, k, held)
        \/ \E v, k : \E how \in {"rewritten", "replaced"} : Put(x, d, v, how, k) /\ Removes(d, v, how)
    BY <1>3 DEF DeleteOrphan, DeleteExpired, Demote
  <2> QED BY <1>1, <2>1, PutSpares
<1>4. \/ \E k, held : Turn(x, k, held)
      \/ Create(x) \/ Update(x)
      \/ \E d \in Clusters : DeleteOrphan(x, d) \/ DeleteExpired(x, d) \/ Demote(x, d)
  BY DEF Progress, Fault, GetNamespace, GetFails, DiscoverFails, CheckFails,
         CheckIncumbent, ListStale, Discover, GetSecret,
         ListClaimants, ListServers, ListOwned, KeepDemoted, ItemError, Abort,
         Return, Crash
<1> QED BY <1>1, <1>2, <1>3, <1>4

LEMMA OutsideSpares ==
    ASSUME IInv, Environment, NEW w \in Workers, NEW c \in Clusters, ~HandReplace(c),
           secrets[c] # None, secrets'[c] # None, copies[w][c] # None, SameObject(copies[w][c])
    PROVE  copies'[w][c] # None /\ SameObject(copies'[w][c])
<1>0. /\ copies \in [Workers -> [Clusters -> Copy \cup {None}]]
      /\ secrets \in [Clusters -> Registration \cup {None}]
  BY Unfold DEF SharedOK
<1>1. CASE UNCHANGED copies
  BY <1>1
<1>2. ASSUME NEW d \in Clusters, NEW how \in {"rewritten", "replaced"},
             copies' = Outdate(copies, d, how), d # c \/ how = "rewritten"
      PROVE  copies'[w][c] # None /\ SameObject(copies'[w][c])
  <2>1. copies'[w][c] = IF c = d THEN Marked(copies[w][d], how) ELSE copies[w][c]
    BY <1>0, <1>2, OutdateCopies
  <2>2. copies[w][c] \in Copy
    BY <1>0
  <2>3. Marked(copies[w][c], "rewritten") # None
    BY <2>2, MarkedCopy
  <2>4. Marked(copies[w][c], "rewritten").version # "replaced"
    BY <2>2, AbsentAssumption DEF Marked, Copy, SameObject
  <2> QED BY <1>2, <2>1, <2>3, <2>4 DEF SameObject
<1>3. ASSUME NEW d \in Clusters, SetPin(d) \/ Strip(d)
      PROVE  copies' = Outdate(copies, d, "rewritten")
  BY <1>3 DEF SetPin, Strip, EditSecret
<1>4. ASSUME NEW d \in Clusters,
             HandRemove(d) \/ HandReplace(d) \/ \E k \in Kubeconfigs : HandCreate(d, k)
      PROVE  copies' = Outdate(copies, d, "replaced") /\ d # c
  <2>1. HandRemove(d) => secrets' = [secrets EXCEPT ![d] = None]
    BY DEF HandRemove, EditSecret
  <2>2. (\E k \in Kubeconfigs : HandCreate(d, k)) => secrets[d] = None
    BY DEF HandCreate
  <2>3. d # c
    BY <1>0, <1>4, <2>1, <2>2
  <2> QED BY <1>4, <2>3 DEF HandRemove, HandReplace, HandCreate, EditSecret
<1>5. \/ UNCHANGED copies
      \/ \E d \in Clusters : \/ \E k \in Kubeconfigs : HandCreate(d, k)
                             \/ HandRemove(d) \/ SetPin(d) \/ Strip(d) \/ HandReplace(d)
  BY DEF Environment, Relabel, CreateNamespace, Provision, Reprovision, DeleteNamespace,
         Finalize, SetManaged, Tick, EditNamespace, worker
<1> QED BY <1>1, <1>2, <1>3, <1>4, <1>5

(* An orphan stays an orphan of the same namespace, and the pass about it   *)
(* under way, whatever others do.                                           *)
LEMMA OthersSpare ==
    ASSUME IInv, NEW c \in Clusters, Orphan(c), Orphan(c)', ~HandReplace(c),
           \/ Environment
           \/ \E x \in Workers \ {Sweeper} : Progress(x) \/ Fault(x)
           \/ UNCHANGED vars
    PROVE  /\ secrets'[c].source = secrets[c].source
           /\ Underway(c) => Underway(c)'
<1>0. /\ secrets[c] # None /\ secrets'[c] # None /\ secrets[c].source # None /\ secrets'[c].source # None
      /\ job[Sweeper].pc = "collect" /\ c \in job[Sweeper].todo => copies[Sweeper][c] # None
  BY SweeperAssumption, AtWork DEF Orphan, WorkerOK, Loops
<1>1. CASE Environment
  <2>1. secrets'[c].source = secrets[c].source /\ UNCHANGED job
    BY <1>0, <1>1, OutsideLive, OutsideRecords
  <2> QED BY <1>0, <1>1, <2>1, OutsideSpares, SweeperAssumption DEF Underway, Deals
<1>2. ASSUME NEW x \in Workers, x # Sweeper, Progress(x) \/ Fault(x)
      PROVE  secrets'[c].source = secrets[c].source /\ (Underway(c) => Underway(c)')
  <2>1. secrets'[c].source = secrets[c].source
    BY <1>0, <1>2, SourceKept
  <2>2. job'[Sweeper] = job[Sweeper]
    <3>1. job \in [Workers -> Job]
      BY Unfold
    <3>2. \E k : job' = [job EXCEPT ![x] = k]
      BY <1>2 DEF Progress, Fault, GetNamespace, GetFails, DiscoverFails, CheckFails,
         CheckIncumbent, ListStale, Discover, GetSecret, Create, Update, DeleteOrphan, DeleteExpired, Demote,
         ListClaimants, ListServers, ListOwned, KeepDemoted, ItemError, Abort,
         Return, Crash, Turn, Put
    <3> QED BY <1>2, <3>1, <3>2, SweeperAssumption
  <2> QED BY <1>0, <1>2, <2>1, <2>2, StepSpares, SweeperAssumption DEF Underway, Deals
<1>3. CASE UNCHANGED vars
  BY <1>3 DEF vars, worker, Underway, Deals
<1> QED BY <1>1, <1>2, <1>3

(* A call of the sweeper's own pass leaves an orphan before it, or has      *)
(* failed.                                                                  *)
LEMMA ItemDeals ==
    ASSUME NEW j \in Job, NEW n, NEW held, NEW c \in Clusters, NEW d \in Clusters,
           j.pc = "collect", j.key = n, j.ns = None,
           c \in j.todo \ {d} \/ j.outcome = "failed", c # d => SameObject(held[c]) \/ j.outcome = "failed",
           NEW rest, rest[c] = held[c]
    PROVE  Deals(ItemDone(j, d), rest, n, c)
<1> DEFINE left == [j EXCEPT !.todo = @ \ {d}]
           over == Ended(j.key, j.outcome)
<1>1. /\ left.key = n /\ left.ns = None /\ left.pc = "collect" /\ left.outcome = j.outcome
      /\ left.todo = j.todo \ {d}
  BY DEF Job
<1>2. over.key = n /\ over.ns = None /\ over.pc = j.outcome
  BY DEF Ended, Idle
<1>3. ItemDone(j, d) = IF left.todo # {} THEN left ELSE over
  BY DEF ItemDone
<1> HIDE DEF left, over
<1> QED BY <1>1, <1>2, <1>3 DEF Deals

LEMMA ListDeals ==
    ASSUME IInv, NEW j, job[Sweeper] = j, NEW c \in Clusters, Orphan(c), ListOwned(Sweeper),
           j.key = secrets[c].source, j.ns = None
    PROVE  Underway(c)'
<1> DEFINE items == Superseded(j)
           started == [j EXCEPT !.pc = "collect", !.todo = items, !.kube = None,
                                !.outcome = Result(j, Recorded(j.key))]
<1>0. /\ j \in Job /\ c # None /\ job \in [Workers -> Job]
      /\ copies \in [Workers -> [Clusters -> Copy \cup {None}]]
  BY SweeperAssumption, Unfold, NoneAssumption
<1>1. c \in items
  BY <1>0 DEF Orphan, Superseded, Recorded, Applied
<1>2. Turn(Sweeper, started, Holding(items))
  BY <1>1 DEF ListOwned, ProvenGone
<1>3. /\ started.pc = "collect" /\ started.key = j.key /\ started.ns = None
      /\ started.todo = items
  BY <1>0 DEF Job
<1> HIDE DEF started
<1>4. /\ job'[Sweeper] = started /\ copies'[Sweeper] = Holding(items)
      /\ secrets' = secrets
  BY <1>0, <1>2, <1>3, SweeperAssumption DEF Turn, Held, Outcomes
<1>5. SameObject(Holding(items)[c])
  BY <1>1 DEF Holding, SameObject
<1> QED BY <1>1, <1>3, <1>4, <1>5 DEF Underway, Deals

LEMMA RemoveDeals ==
    ASSUME IInv, NEW j, job[Sweeper] = j, NEW c \in Clusters, Orphan(c), Orphan(c)', NEW d \in Clusters,
           DeleteOrphan(Sweeper, d), j.pc = "collect", Underway(c)
    PROVE  Underway(c)' /\ secrets'[c].source = secrets[c].source
<1> DEFINE n == secrets[c].source
           held == copies[Sweeper]
           rest == [held EXCEPT ![d] = None]
           kept == [j EXCEPT !.outcome = IF @ = "finished" THEN "requeue" ELSE @]
<1>0. /\ j \in Job /\ job \in [Workers -> Job] /\ held \in [Clusters -> Copy \cup {None}]
      /\ copies \in [Workers -> [Clusters -> Copy \cup {None}]]
      /\ secrets \in [Clusters -> Registration \cup {None}]
      /\ d \in j.todo
  BY SweeperAssumption, Unfold DEF SharedOK, DeleteOrphan, At
<1>1. /\ Deals(j, held, n, c) /\ j.key = n /\ j.ns = None
      /\ \/ c \in j.todo /\ SameObject(held[c])
         \/ j.outcome = "failed"
  BY DEF Underway, Deals
<1>2. /\ kept \in Job /\ kept.pc = "collect" /\ kept.key = n /\ kept.ns = None /\ kept.todo = j.todo
      /\ j.outcome = "failed" => kept.outcome = "failed"
      /\ ItemKept(j, d) = ItemDone(kept, d)
  BY <1>0, <1>1 DEF Job, Outcomes, ItemKept
<1> HIDE DEF kept
(* Its own turn, the orphan does not outlive, unless the copy of it is too old. *)
<1>3. CASE /\ secrets[d] # None
           /\ SameObject(held[d])
           /\ Put(Sweeper, d, None, "replaced", ItemDone(j, d))
  <2>1. c # d
    BY <1>0, <1>3 DEF Put, Orphan
  <2>2. rest[c] = held[c]
    BY <1>0, <2>1
  <2>3. Deals(ItemDone(j, d), rest, n, c)
    BY <1>0, <1>1, <2>1, <2>2, ItemDeals
  <2>4. job'[Sweeper] = ItemDone(j, d) /\ secrets'[c] = secrets[c]
    BY <1>0, <1>3, <2>1, SweeperAssumption DEF Put
  <2>5. ItemDone(j, d).pc = "collect" => copies'[Sweeper][c] = held[c]
    <3> DEFINE after == Held(ItemDone(j, d), rest)
               cps == [copies EXCEPT ![Sweeper] = after]
    <3>1. rest \in [Clusters -> Copy \cup {None}]
      BY <1>0
    <3>2. after \in [Clusters -> Copy \cup {None}]
      BY <3>1, NothingHeld DEF Held
    <3>3. copies' = Outdate(cps, d, "replaced")
      BY <1>3 DEF Put
    <3>4. cps \in [Workers -> [Clusters -> Copy \cup {None}]] /\ cps[Sweeper] = after
      BY <1>0, <3>2, SweeperAssumption
    <3>5. ItemDone(j, d).pc = "collect" => after = rest
      BY DEF Held, Outcomes
    <3> HIDE DEF after, cps, rest
    <3>6. copies'[Sweeper][c] = after[c]
      BY <2>1, <3>3, <3>4, OutdateCopies, SweeperAssumption
    <3> QED BY <2>2, <3>5, <3>6
  <2> HIDE DEF rest
  <2> QED BY <2>2, <2>3, <2>4, <2>5 DEF Underway, Deals
<1>4. ASSUME NEW i \in {j, kept}, Turn(Sweeper, ItemDone(i, d), rest),
             c # d \/ i.outcome = "failed"
      PROVE  Underway(c)' /\ secrets'[c].source = secrets[c].source
  <2>1. /\ i \in Job /\ i.pc = "collect" /\ i.key = n /\ i.ns = None /\ i.todo = j.todo
        /\ \/ c \in i.todo /\ SameObject(held[c])
           \/ i.outcome = "failed"
    BY <1>0, <1>1, <1>2
  <2>2. \E r : r[c] = held[c] /\ (c # d => r = rest)
    <3>1. c # d => rest[c] = held[c]
      BY <1>0
    <3>2. held[c] = held[c]
      OBVIOUS
    <3> QED BY <3>1, <3>2
  <2>3. PICK r : r[c] = held[c] /\ (c # d => r = rest)
    BY <2>2
  <2>4. Deals(ItemDone(i, d), r, n, c)
    BY <1>4, <2>1, <2>3, ItemDeals
  <2> DEFINE k == ItemDone(i, d)
  <2>5. job'[Sweeper] = k /\ copies'[Sweeper] = Held(k, rest) /\ secrets' = secrets
    BY <1>0, <1>4, SweeperAssumption DEF Turn
  <2>6. k.pc = "collect" => k.outcome = i.outcome /\ Held(k, rest) = rest
    <3>1. [i EXCEPT !.todo = @ \ {d}].outcome = i.outcome
      BY <2>1 DEF Job
    <3>2. k \in {[i EXCEPT !.todo = @ \ {d}], Ended(i.key, i.outcome)}
      BY <2>1 DEF ItemDone
    <3>3. Ended(i.key, i.outcome).pc = i.outcome /\ i.outcome # "collect"
      BY <2>1 DEF Ended, Idle, Job, Outcomes
    <3> QED BY <3>1, <3>2, <3>3 DEF Held, Outcomes
  <2> HIDE DEF k, rest
  <2> QED BY <1>4, <2>3, <2>4, <2>5, <2>6 DEF Underway, Deals, k
<1>5. CASE secrets[d] = None /\ Turn(Sweeper, ItemDone(j, d), rest)
  BY <1>4, <1>5 DEF Orphan
<1>6. CASE secrets[d] # None /\ ~SameObject(held[d]) /\ Turn(Sweeper, ItemKept(j, d), rest)
  <2>1. c # d \/ kept.outcome = "failed"
    BY <1>1, <1>2, <1>6
  <2> QED BY <1>2, <1>4, <1>6, <2>1
<1> QED BY <1>0, <1>3, <1>5, <1>6 DEF DeleteOrphan

LEMMA ErrorDeals ==
    ASSUME IInv, NEW j, job[Sweeper] = j, NEW c \in Clusters, NEW d \in Clusters,
           ItemError(Sweeper, d), j.pc = "collect", Underway(c)
    PROVE  Underway(c)'
<1> DEFINE n == secrets[c].source
           rest == [copies[Sweeper] EXCEPT ![d] = None]
           i == [j EXCEPT !.outcome = "failed"]
           k == ItemDone(i, d)
<1>0. /\ j \in Job /\ job \in [Workers -> Job]
      /\ copies[Sweeper] \in [Clusters -> Copy \cup {None}]
  BY SweeperAssumption, Unfold
<1>1. i \in Job /\ i.pc = "collect" /\ i.key = n /\ i.ns = None /\ i.outcome = "failed"
  BY <1>0 DEF Job, Outcomes, Underway, Deals
<1>2. job'[Sweeper] = k /\ secrets' = secrets
  BY <1>0, SweeperAssumption DEF ItemError, ItemFailed, Turn
<1>3. k \in {[i EXCEPT !.todo = @ \ {d}], Ended(i.key, i.outcome)}
  BY <1>1 DEF ItemDone
<1>4. /\ [i EXCEPT !.todo = @ \ {d}].outcome = "failed" /\ [i EXCEPT !.todo = @ \ {d}].pc = "collect"
      /\ [i EXCEPT !.todo = @ \ {d}].key = n /\ [i EXCEPT !.todo = @ \ {d}].ns = None
      /\ Ended(i.key, i.outcome).pc = "failed" /\ Ended(i.key, i.outcome).key = n
      /\ Ended(i.key, i.outcome).ns = None
  BY <1>1 DEF Job, Ended, Idle
<1> HIDE DEF i, k
<1> QED BY <1>2, <1>3, <1>4 DEF Underway, Deals

LEMMA CallDeals ==
    ASSUME IInv, NEW c \in Clusters, Orphan(c), Orphan(c)', Calls(Sweeper)
    PROVE  secrets'[c].source = secrets[c].source /\ (Underway(c) => Underway(c)')
<1>1. secrets'[c].source = secrets[c].source
  BY SourceKept, SweeperAssumption DEF Orphan, Calls, Progress, Fault
<1>2. ASSUME Underway(c)
      PROVE  Underway(c)'
  <2>1. PICK j : j = job[Sweeper]
    OBVIOUS
  <2>2. j.key = secrets[c].source /\ j.ns = None /\ j.pc \in {"list", "failed", "collect"}
    BY <1>2, <2>1 DEF Underway, Deals
  <2>3. CASE ListOwned(Sweeper)
    BY <2>1, <2>2, <2>3, ListDeals
  <2>4. CASE Abort(Sweeper)
    <3>1. job'[Sweeper] = Ended(j.key, "failed") /\ secrets' = secrets
      BY <2>1, <2>4, SweeperAssumption, Unfold DEF Abort, Turn
    <3>2. Ended(j.key, "failed").key = j.key /\ Ended(j.key, "failed").ns = None
          /\ Ended(j.key, "failed").pc = "failed"
      BY DEF Ended, Idle
    <3> QED BY <2>2, <3>1, <3>2 DEF Underway, Deals
  <2>5. ASSUME NEW d \in Clusters, DeleteOrphan(Sweeper, d) \/ ItemError(Sweeper, d)
        PROVE  Underway(c)'
    <3>1. j.pc = "collect"
      BY <2>1, <2>2, <2>5 DEF DeleteOrphan, ItemError, At
    <3> QED BY <1>2, <2>1, <2>5, <3>1, RemoveDeals, ErrorDeals
  <2>6. \/ ListOwned(Sweeper) \/ Abort(Sweeper)
        \/ \E d \in Clusters : DeleteOrphan(Sweeper, d) \/ ItemError(Sweeper, d)
    BY <2>1, <2>2 DEF Calls, ListStale, Discover, DiscoverFails, GetSecret, ListClaimants, ListServers,
                      CheckFails, Create, Update, CheckIncumbent, KeepDemoted, DeleteExpired, Demote, At,
                      ProvenGone
  <2> QED BY <2>3, <2>4, <2>5, <2>6
<1> QED BY <1>1, <1>2

LEMMA DebtsInit == SweepInit => Debts
BY DEF SweepInit, NotRun, Debts, OrphansSwept

(* What is owed after a step was owed before it, and is what it was.        *)
LEMMA StillOwed ==
    ASSUME SInv, Debts, [SweepNext]_everything, sweep.at # "not-run", NEW c \in owed'
    PROVE  /\ c \in owed /\ c \in Clusters /\ Orphan(c) /\ Orphan(c)'
           /\ secrets'[c].source = secrets[c].source
           /\ secrets[c].source \in Namespaces
           /\ Beside \/ SweepCall \/ SweepCallFails \/ UNCHANGED everything => (Underway(c) => Underway(c)')
<1>1. CASE UNCHANGED everything
  BY <1>1, Unfold DEF SInv, everything, sweptVars, allVars, vars, worker, sources, Debts, Orphan, Underway, Deals,
                      SharedOK, Registration
<1>2. CASE SweepNext
  <2>1. c \in owed /\ c \in Clusters /\ Orphan(c) /\ Orphan(c)' /\ ~HandReplace(c)
    BY <1>2 DEF SweepNext, Owing, Debts
  <2>2. secrets[c].source \in Namespaces
    BY <2>1, Unfold DEF SInv, SharedOK, Registration, Orphan
  <2>3. \A p \in Workers : job[p].pc = "idle" => job[p] = Idle
    BY DEF SInv, AllSound, Sound
  <2>4. CASE Beside
    <3>1. \/ Environment
          \/ \E p \in Workers \ {Sweeper} : Progress(p) \/ Fault(p)
          \/ UNCHANGED vars
      BY <2>3, <2>4, RunsAsNext DEF SInv, Beside, World
    <3> QED BY <2>1, <2>2, <3>1, OthersSpare DEF SInv
  <2>5. CASE SweepCall \/ SweepCallFails
    <3>1. Calls(Sweeper)
      BY <2>5 DEF SweepCall, SweepCallFails, Call, CallFails, Calls
    <3> QED BY <2>1, <2>2, <3>1, CallDeals DEF SInv
  <2>6. CASE Steps /\ ~SweepCall /\ ~SweepCallFails /\ ~Beside
    <3>1. UNCHANGED secrets
      BY <2>6 DEF Steps, Launch, ListNamespaces, ListSecrets, ListFails, Visit, VisitFails, PassDone,
                  Audit, AuditFails, Interrupt, allVars, vars, GetNamespace, GetFails, Return, Turn
    <3>2. UNCHANGED everything => (Underway(c) => Underway(c)')
      BY DEF everything, sweptVars, allVars, vars, worker, Underway, Deals
    <3> QED BY <2>1, <2>2, <2>6, <3>1, <3>2
  <2> QED BY <1>2, <2>4, <2>5, <2>6 DEF SweepNext
<1> QED BY <1>1, <1>2

LEMMA DebtsStep ==
    ASSUME SInv, Debts, [SweepNext]_everything
    PROVE  Debts'
<1>0. sweep \in Sweeps /\ job \in [Workers -> Job]
  BY Unfold DEF SInv, Apart
<1>1. owed' \subseteq Clusters /\ \A c \in owed' : Orphan(c)'
  <2>1. CASE UNCHANGED everything
    BY <2>1 DEF everything, sweptVars, allVars, vars, sources, Debts, Orphan
  <2>2. CASE SweepNext
    BY <2>2 DEF SweepNext, Owing, Debts
  <2> QED BY <2>1, <2>2
(* The keys come from what is recorded, and every key gets its pass.        *)
<1>2. ASSUME sweep'.at = "passes"
      PROVE  \A c \in owed' : Covered(c)'
  <2>1. CASE UNCHANGED everything \/ Beside \/ SweepCall \/ SweepCallFails
    <3>1. UNCHANGED sweep
      BY <2>1 DEF everything, sweptVars, Beside, SweepCall, SweepCallFails
    <3>2. ASSUME NEW c \in owed'
          PROVE  Covered(c)'
      <4>1. c \in owed /\ Covered(c)
        BY <1>2, <3>1, <3>2, StillOwed DEF Debts
      <4>2. secrets'[c].source = secrets[c].source /\ (Underway(c) => Underway(c)')
        BY <1>2, <2>1, <3>1, <3>2, StillOwed
      <4> QED BY <3>1, <4>1, <4>2 DEF Covered
    <3> QED BY <3>2
  <2>2. CASE ListSecrets
    <3>1. ASSUME NEW c \in owed'
          PROVE  secrets'[c].source \in sweep'.keys
      <4>1. /\ c \in Clusters /\ Orphan(c) /\ secrets'[c].source = secrets[c].source
            /\ secrets[c].source \in Namespaces
        BY <2>2, <3>1, StillOwed DEF ListSecrets
      <4>2. secrets[c].source \in RecordedNames
        BY <4>1 DEF Orphan, RecordedNames, Recorded
      <4>3. sweep'.keys = Keys(sweep.keys)
        BY <1>0, <2>2 DEF ListSecrets, Sweeps
      <4> QED BY <4>1, <4>2, <4>3 DEF Keys
    <3> QED BY <3>1 DEF Covered
  <2>3. ASSUME NEW n \in Namespaces, Visit(n) \/ VisitFails(n)
        PROVE  \A c \in owed' : Covered(c)'
    <3>1. /\ sweep.at = "passes" /\ sweep' = [sweep EXCEPT !.keys = @ \ {n}]
          /\ job[Sweeper].pc = "idle"
      BY <2>3 DEF Visit, VisitFails, GetNamespace, GetFails
    <3>2. sweep'.keys = sweep.keys \ {n} /\ sweep'.failed = sweep.failed
      BY <1>0, <3>1 DEF Sweeps
    <3>3. ASSUME NEW c \in owed'
          PROVE  Covered(c)'
      <4>1. /\ Covered(c) /\ Orphan(c) /\ secrets'[c].source = secrets[c].source
        BY <3>1, <3>3, StillOwed DEF Debts
      <4>2. ~Underway(c)
        BY <3>1 DEF Underway, Deals
      <4>3. CASE secrets[c].source = n
        <5>1. namespaces[n] = None
          BY <4>1, <4>3 DEF Orphan
        <5>2. \E k : /\ job' = [job EXCEPT ![Sweeper] = k]
                     /\ k.key = n /\ k.ns = None /\ k.pc \in {"list", "failed"}
          <6>1. CASE Visit(n)
            <7> DEFINE k == [[Idle EXCEPT !.key = n, !.ns = namespaces[n]] EXCEPT !.pc = "list"]
            <7>1. job' = [job EXCEPT ![Sweeper] = k]
              BY <5>1, <6>1 DEF Visit, GetNamespace, Turn
            <7>2. k.key = n /\ k.ns = None /\ k.pc = "list"
              BY <5>1 DEF Idle
            <7> HIDE DEF k
            <7> QED BY <7>1, <7>2
          <6>2. CASE VisitFails(n)
            <7>1. job' = [job EXCEPT ![Sweeper] = Ended(n, "failed")]
              BY <6>2 DEF VisitFails, GetFails, Turn
            <7>2. /\ Ended(n, "failed").key = n /\ Ended(n, "failed").ns = None
                  /\ Ended(n, "failed").pc = "failed"
              BY DEF Ended, Idle
            <7> QED BY <7>1, <7>2
          <6> QED BY <2>3, <6>1, <6>2
        <5> QED BY <1>0, <4>1, <4>3, <5>2, SweeperAssumption DEF Covered, Underway, Deals
      <4>4. CASE secrets[c].source # n
        BY <3>2, <4>1, <4>2, <4>4 DEF Covered
      <4> QED BY <4>3, <4>4
    <3> QED BY <3>3
  <2>4. CASE PassDone
    <3>1. /\ sweep.at = "passes" /\ job[Sweeper].pc \in Outcomes
          /\ sweep'.keys = sweep.keys
          /\ sweep'.failed = IF job[Sweeper].pc = "failed" THEN sweep.failed \cup {job[Sweeper].key}
                             ELSE sweep.failed
      BY <1>0, <2>4 DEF PassDone, NextAfter, Return, Sweeps
    <3>2. ASSUME NEW c \in owed'
          PROVE  Covered(c)'
      <4>1. Covered(c) /\ secrets'[c].source = secrets[c].source
        BY <3>1, <3>2, StillOwed DEF Debts
      <4>2. Underway(c) => job[Sweeper].pc = "failed" /\ job[Sweeper].key = secrets[c].source
        BY <3>1 DEF Underway, Deals, Outcomes
      <4> QED BY <3>1, <4>1, <4>2 DEF Covered
    <3> QED BY <3>2
  <2>5. ~(Launch \/ ListNamespaces \/ ListFails \/ Audit \/ AuditFails \/ Interrupt)
    BY <1>0, <1>2 DEF Launch, ListNamespaces, ListFails, Audit, AuditFails, Exit, Interrupt, Sweeps
  <2> QED BY <2>1, <2>2, <2>3, <2>4, <2>5 DEF SweepNext, Steps
(* When there is no key left and no pass, what is left has failed.          *)
<1>3. ASSUME sweep'.at = "ended", NEW c \in owed'
      PROVE  secrets'[c].source \in sweep'.failed /\ sweep'.exit = "error"
  <2>1. CASE sweep' = sweep
    BY <1>3, <2>1, StillOwed DEF Debts, OrphansSwept
  <2>2. ASSUME NEW errors, Exit(errors), errors \in {sweep.failed, {"audit"}}
        PROVE  secrets'[c].source \in sweep'.failed /\ sweep'.exit = "error"
    <3>1. /\ Covered(c) /\ secrets'[c].source = secrets[c].source
      BY <1>3, <2>2, StillOwed DEF Debts, Exit
    <3>2. secrets[c].source \in sweep.failed
      BY <2>2, <3>1 DEF Exit, Covered, Underway, Deals
    <3>3. errors # {}
      BY <2>2, <3>2
    <3> QED BY <1>0, <2>2, <3>1, <3>2, <3>3 DEF Exit, Sweeps
  <2>3. ~(Launch \/ ListNamespaces \/ ListSecrets \/ ListFails \/ PassDone \/ Interrupt
          \/ \E n \in Namespaces : Visit(n) \/ VisitFails(n))
    BY <1>0, <1>3 DEF Launch, ListNamespaces, ListSecrets, ListFails, Interrupt, Visit, VisitFails,
                      PassDone, NextAfter, Sweeps
  <2>4. CASE Audit \/ AuditFails
    BY <2>2, <2>4 DEF Audit, AuditFails
  <2>5. CASE UNCHANGED everything \/ Beside \/ SweepCall \/ SweepCallFails
    BY <2>1, <2>5 DEF everything, sweptVars, Beside, SweepCall, SweepCallFails
  <2> QED BY <2>3, <2>4, <2>5 DEF SweepNext, Steps
<1> QED BY <1>1, <1>2, <1>3 DEF Debts, OrphansSwept

(* A sweep that has gone through its keys leaves nothing behind that it     *)
(* owed, but what it failed over and says so; whatever else runs beside it, *)
(* however many processes there are, and whoever fails in between.          *)
THEOREM Swept == SweepSpec => []OrphansSwept
<1>1. Debts => OrphansSwept
  BY DEF Debts
<1> QED BY <1>1, DebtsInit, DebtsStep, SweepInvariance, PTL DEF SweepSpec

=============================================================================
