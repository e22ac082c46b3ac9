----------------------------- MODULE Controller -----------------------------
(***************************************************************************)
(* The controller around the reconcile pass (controller.go): a work queue  *)
(* of namespace names, filled by a watch on the managed namespaces and by  *)
(* one seeding at every start, drained by one reconcile goroutine.         *)
(*                                                                         *)
(* A worker of Reconcile is here a process: one goroutine and one queue    *)
(* each, and only the holder of the lease is up.  A process may die        *)
(* between any two calls; its queue dies with it, and the watch does not   *)
(* replay what happened while none was up.                                 *)
(*                                                                         *)
(* A key is in the queue from the moment it is added, or re-added after    *)
(* the interval or the back-off, until the goroutine takes it; how long it *)
(* waits there is left open.  Events are not delayed on top of that: the   *)
(* pass reads everything afresh, so an event only matters through the      *)
(* moment its key is taken.                                                *)
(***************************************************************************)
EXTENDS Reconcile

CONSTANT MaxFaults   \* bound: failing calls and dying processes

ASSUME FaultsAssumption == MaxFaults \in Nat

VARIABLES
    phase,   \* how far each process has come in starting up
    seeds,   \* the keys its seeder has listed so far
    queue,   \* its work queue
    faults   \* calls failed and processes died so far

controllers == <<phase, seeds, queue, faults>>
allVars == <<vars, controllers>>

Phase == {"down", "seed-namespaces", "seed-secrets", "seed-queue", "seeded"}

(* From its start on a process takes keys and hears events; it does not     *)
(* wait for the seeding.                                                    *)
Up(p) == phase[p] # "down"

(* What the label-filtered watch lets through.                              *)
Watched(ns) == ns # None /\ ns.managed

WatchedNames == {n \in Namespaces : Watched(namespaces[n])}
RecordedNames == {n \in Namespaces : Recorded(n) # {}}

(* A step that something going wrong brings about.                          *)
Failing == faults < MaxFaults /\ faults' = faults + 1

-----------------------------------------------------------------------------
(* Start-up.                                                               *)

(* The process gets the lease; the watch's initial list enqueues every      *)
(* managed namespace.                                                       *)
Start(p) ==
    /\ \A q \in Workers : ~Up(q)
    /\ phase' = [phase EXCEPT ![p] = "seed-namespaces"]
    /\ queue' = [queue EXCEPT ![p] = WatchedNames]
    /\ UNCHANGED <<vars, seeds, faults>>

(* The seeder, beside the goroutine: two lists, then the keys go into the   *)
(* queue.                                                                   *)
SeedNamespaces(p) ==
    /\ phase[p] = "seed-namespaces"
    /\ phase' = [phase EXCEPT ![p] = "seed-secrets"]
    /\ seeds' = [seeds EXCEPT ![p] = WatchedNames]
    /\ UNCHANGED <<vars, queue, faults>>

SeedKeysOfNamespaces(p) == seeds[p]
SeedKeys(p) == seeds[p] \cup RecordedNames

SeedSecrets(p) ==
    /\ phase[p] = "seed-secrets"
    /\ phase' = [phase EXCEPT ![p] = "seed-queue"]
    /\ seeds' = [seeds EXCEPT ![p] = SeedKeys(p)]
    /\ UNCHANGED <<vars, queue, faults>>

(* The second list fails: both are made again.  (A first list that fails is *)
(* made again, too, and changes nothing.)                                   *)
SeedFails(p) ==
    /\ phase[p] = "seed-secrets"
    /\ phase' = [phase EXCEPT ![p] = "seed-namespaces"]
    /\ seeds' = [seeds EXCEPT ![p] = {}]
    /\ Failing
    /\ UNCHANGED <<vars, queue>>

SeedQueue(p) ==
    /\ phase[p] = "seed-queue"
    /\ phase' = [phase EXCEPT ![p] = "seeded"]
    /\ queue' = [queue EXCEPT ![p] = @ \cup seeds[p]]
    /\ seeds' = [seeds EXCEPT ![p] = {}]
    /\ UNCHANGED <<vars, faults>>

-----------------------------------------------------------------------------
(* The reconcile goroutine.                                                *)

(* It takes a key; the namespace read is the first call of the pass.        *)
Take(p, n) ==
    /\ Up(p)
    /\ n \in queue[p]
    /\ GetNamespace(p, n)
    /\ queue' = [queue EXCEPT ![p] = @ \ {n}]
    /\ UNCHANGED <<phase, seeds, faults>>

TakeFails(p, n) ==
    /\ Up(p)
    /\ n \in queue[p]
    /\ GetFails(p, n)
    /\ queue' = [queue EXCEPT ![p] = @ \ {n}]
    /\ Failing
    /\ UNCHANGED <<phase, seeds>>

Call(p) ==
    /\ \/ ListStale(p) \/ Discover(p) \/ GetSecret(p)
       \/ ListClaimants(p) \/ ListServers(p) \/ Create(p) \/ Update(p)
       \/ ListOwned(p)
       \/ \E n \in Namespaces : CheckIncumbent(p, n)
       \/ \E c \in Clusters : \/ DeleteOrphan(p, c) \/ KeepDemoted(p, c)
                              \/ DeleteExpired(p, c) \/ Demote(p, c)
    /\ UNCHANGED controllers

CallFails(p) ==
    /\ \/ DiscoverFails(p) \/ CheckFails(p) \/ Abort(p)
       \/ \E c \in Clusters : ItemError(p, c)
    /\ Failing
    /\ UNCHANGED <<phase, seeds, queue>>

(* done: the key goes only when the pass finished with it.  An error        *)
(* re-adds it after the back-off, anything else after the interval.         *)
RequeuesOnErrorOnly(outcome) == outcome = "failed"
Requeues(outcome) == outcome # "finished"

Done(p) ==
    /\ Return(p)
    /\ queue' = [queue EXCEPT ![p] = IF Requeues(job[p].pc) THEN @ \cup {job[p].key} ELSE @]
    /\ UNCHANGED <<phase, seeds, faults>>

(* The process dies, or stops when it loses the lease: pass, queue and      *)
(* seeds are gone.                                                          *)
Die(p) ==
    /\ Up(p)
    /\ Turn(p, Idle, Nothing)
    /\ phase' = [phase EXCEPT ![p] = "down"]
    /\ queue' = [queue EXCEPT ![p] = {}]
    /\ seeds' = [seeds EXCEPT ![p] = {}]
    /\ Failing

-----------------------------------------------------------------------------
(* The world outside, and what the watch reports of it: a namespace that    *)
(* is, was or becomes managed, its removal and its unlabelling included.    *)
Notified == {n \in Namespaces : /\ namespaces'[n] # namespaces[n]
                                /\ Watched(namespaces[n]) \/ Watched(namespaces'[n])}

World ==
    /\ Environment
    /\ queue' = [p \in Workers |-> IF Up(p) THEN queue[p] \cup Notified ELSE queue[p]]
    /\ UNCHANGED <<phase, seeds, faults>>

-----------------------------------------------------------------------------
ControllerInit ==
    /\ Init
    /\ phase = [p \in Workers |-> "down"]
    /\ seeds = [p \in Workers |-> {}]
    /\ queue = [p \in Workers |-> {}]
    /\ faults = 0

Runs(p) ==
    \/ Start(p) \/ SeedNamespaces(p) \/ SeedSecrets(p) \/ SeedFails(p) \/ SeedQueue(p)
    \/ \E n \in Namespaces : Take(p, n) \/ TakeFails(p, n)
    \/ Call(p) \/ CallFails(p) \/ Done(p) \/ Die(p)

ControllerNext == (\E p \in Workers : Runs(p)) \/ World

ControllerSpec == ControllerInit /\ [][ControllerNext]_allVars

(* A dead process is restarted, a list that failed is retried, a call       *)
(* returns, and the queue is first in, first out: a key that is taken from  *)
(* it again and again is not passed over for ever.                          *)
FairTo(p) ==
    /\ WF_allVars(Start(p))
    /\ WF_allVars(SeedNamespaces(p))
    /\ WF_allVars(SeedSecrets(p))
    /\ WF_allVars(SeedQueue(p))
    /\ WF_allVars(Call(p))
    /\ WF_allVars(Done(p))
    /\ \A n \in Namespaces : SF_allVars(Take(p, n))

Fairness == \A p \in Workers : FairTo(p)

FairSpec == ControllerSpec /\ Fairness

-----------------------------------------------------------------------------
(* Properties.                                                             *)

(* Every variable has its type, and a process that is down has nothing: no  *)
(* queue, no seeds and no pass in progress.                                 *)
ControllerTypeOK ==
    /\ phase \in [Workers -> Phase]
    /\ seeds \in [Workers -> SUBSET Namespaces]
    /\ queue \in [Workers -> SUBSET Namespaces]
    /\ faults \in 0..MaxFaults
    /\ \A p \in Workers : ~Up(p) => job[p] = Idle /\ queue[p] = {} /\ seeds[p] = {}

(* Key n will be looked at again without any further event.                 *)
Pending(p, n) == n \in queue[p] \/ (job[p].key = n /\ job[p].pc # "finished")

(* Once a process has seeded its queue it forgets no namespace that still   *)
(* matters: not one that is managed, whose credentials must be refreshed,   *)
(* and not one a registration records, managed, unmanaged or gone.          *)
NothingForgotten ==
    \A p \in Workers : phase[p] = "seeded" =>
        \A n \in WatchedNames \cup RecordedNames : Pending(p, n)

(* Whatever happened while the controller was down: the registrations of a  *)
(* namespace that is gone and stays gone are removed in the end, but for    *)
(* the pinned ones.                                                         *)
OrphansCollected ==
    \A n \in Namespaces :
        namespaces[n] = None ~>
            \/ namespaces[n] # None
            \/ \A c \in Recorded(n) : secrets[c].pinned

(* Namespace n has the registration it should have, and no other live one   *)
(* but pinned ones.                                                         *)
InSync(n) ==
    LET ns == namespaces[n]
        s  == secrets[ns.cluster]
    IN  /\ s # None
        /\ s.state = "active"
        /\ s.source = n
        /\ s.uid = ns.uid
        /\ s.kube = kubeconfigs[n]
        /\ \A d \in Recorded(n) \ {ns.cluster} :
               secrets[d].pinned \/ secrets[d].state = "demoted"

Registrable(n) ==
    /\ n \in WatchedNames
    /\ ~namespaces[n].terminating
    /\ namespaces[n].cluster # None
    /\ kubeconfigs[n] # None

(* Once people stop editing, a namespace nobody contends with ends up       *)
(* registered under its current name, UID and kubeconfig, and stays so,     *)
(* although no event tells the controller of a kubeconfig.                  *)
Converges == \A n \in Namespaces : <>[](Registrable(n) => InSync(n))

=============================================================================
