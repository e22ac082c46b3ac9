# argocd-cluster-registrar: TLA+ models and proofs

The registrar turns the kubeconfigs that provisioners write into labelled
namespaces into ArgoCD cluster Secrets, and removes or hides the Secrets whose
source is gone. It keeps nothing in memory between two reconcile passes: its
state is the Secrets of the target namespace, and all it knows it reads afresh,
call by call, while people, provisioners, ArgoCD and sometimes a second instance
change the same objects. What is hard about it is that gap between a read and
the write it justifies, and never forgetting to come back.

Line numbers below are in `src/internal/registrar/`, `registrar.go` unless
another file is named.

## 1. Inventory

| Component | State it keeps | Operations | Hard behaviours | What makes it correct |
|---|---|---|---|---|
| **Reconcile pass** (590-654, 1223-1879) | cluster Secrets: ownership and source labels, source UID, parked secret-type and stale-since (demoted), `prune: disabled` (pinned), server and config | `ReconcileOne`: read the namespace, `collectStaleUID`, `discoverOne`, `apply` (`checkOwnership`, `claimContestedName`, `claimServer`), `collectOne` (`deleteOrphan`, `demote`, `deleteExpired`) | every API call may fail or be overtaken; two instances may run; names are reusable, UIDs are not | every write is one atomic decision on the live Secret; no takeover; removal only on proof; the pin; demotion only with a successor; no address claimed twice; a key dropped only when nothing is left |
| **Controller** (`controller.go`, `reconcileKeys` 730-761) | work queue (lost with the process) | watch on labelled namespaces, one seeding per start, `done` decides on requeueing | start, death and handover between any two calls; no event for kubeconfigs, nor for what happened while down | no namespace that matters leaves the queue; orphans are collected; registrations converge |
| **Sweep** (`Reconcile` 767-789, `--once`) | none | `ReconcileOne` over all keys, errors gathered, the audit last | runs beside a live instance without a lease; no queue behind it | one bad namespace neither stops nor hides behind the others |
| **Discovery** (858-975, 1004-1133, `provenance` 199-211) | none | candidates by provider, provenance, name, key; the first that parses wins | overlapping globs, several keys per Secret, half-written Secrets, two exec gates | the preferred usable kubeconfig is found whenever there is one |
| **Kubeconfig parsing** (`kubeconfig.go`) | none | `resolve`, `parseKubeconfig`, `parseProxyURL` | several contexts, repeated and dangling names, several credentials at once | ArgoCD connects to what kubectl would, with the credential copied or as itself; neither is shown to a cluster it is not for |
| **Exec translation** (`exec.go`) | none | `translateExec` and its three argument scanners | flags with and without `=`, switches, values that look like options | nothing that names an identity is forwarded; the scanners and the plugin agree |
| **Propagation** (1140-1206, `changed` 1588-1630, merge in `apply`, `demote` 1549-1584) | labels and annotations of a Secret | copy prefixed labels, annotations within limits, merge, park, stamp, restore | limits at their edge, a key compared but not written, a tenant naming reserved keys | a pass after a write finds no drift; reserved keys never copied; a revert restores everything |
| **Audit, expiry, metrics** (660-724, `expiry.go`, `metrics.go`) | gauges | count owned Secrets by state and remaining lifetime, report the unrouted | gauges must clear themselves, and are set one by one under scrapes that read one by one, with no lock | every owned Secret in exactly one bucket after an audit; a scrape during one loses none that did not move |
| **Configuration** (`Validate` 438-538, `ParseProvider` 298-348, `LeaderElectionID` 275, `cmd/root.go`) | none after start | refuse what would fail late; derive the lease | deprecated flags with defaults, prefixes reaching ArgoCD's keys, leases that must and must not coincide | what the other parts assume of it; one at work of those that would fight |
| **Process entry** (`main.go`, `RunE`) | lease | sweep or controller | | |
| **Chart, admission policy** (`deploy/`) | - | one replica, leader election | | |

Interaction: the watch and the seeder put namespace names into the queue; one
goroutine takes a name and runs `ReconcileOne`; that calls discovery once (which
parses kubeconfigs and translates plugins) and the API server up to a dozen
times; its result goes through `done` back into the queue. A sweep runs the same
passes without queue and lease. The audit is one more key of the queue. The parts
share no memory. They meet in the namespaces and Secrets of the API server, whose
optimistic concurrency (resourceVersion on updates, UID or resourceVersion
preconditions on deletes) is the only synchronisation there is, and in the lease.

`PROJECT.json` lists the hazards of this code line by line, with the property
that covers each.

## 2. Modules

| Module | Models |
|---|---|
| `Reconcile` | the pass call by call, any number of workers, the API server, people and provisioners |
| `Registry` | abstract: what the Secrets promise to someone who sees only the API server |
| `Refinement` | the mapping under which `Reconcile` implements `Registry` |
| `Controller` | EXTENDS `Reconcile`: processes, queue, watch, seeding, requeueing, faults |
| `Sweep` | EXTENDS `Controller`: `--once` as one more worker |
| `Discovery` | the search for one namespace's kubeconfig against a declarative definition |
| `Exec` | the translation of a credential plugin, against how the plugin reads its arguments |
| `Kubeconfig` | EXTENDS `Exec`: one kubeconfig to one cluster config, against the connection kubectl makes |
| `Propagation` | one Secret key by key: copy, merge, drift, demotion, restoration, expiry |
| `Audit` | the audit, credential buckets and gauges under scrapes, edits and restarts |
| `Options` | flags to options to lease, for several instances |
| `ReconcileProofs` | theorems about `Reconcile`, and that it implements `Registry` |
| `ControllerProofs` | theorems about `Controller`: what it remembers, what it owes to one pass at a time; and about `Sweep` beside it |
| `DiscoveryProofs`, `KubeconfigProofs`, `PropagationProofs`, `AuditProofs`, `OptionsProofs` | theorems about the module of that name, `KubeconfigProofs` also about `Exec` |
| `LoopFacts` | what they share: induction over the naturals, sums over sets, filters and scans of sequences |
| `MC...` | values and scenes for TLC |

### Reconcile

*State.* `namespaces`, `kubeconfigs` (the outcome of discovery per namespace:
what `Discovery` chooses, or nothing), `uids`, `secrets`, `now` are the cluster.
`job[w]` is the stack of worker w's pass: where it is (`pc`, the API call it
makes next), the namespace object it read, the kubeconfig found, what its loop
has left. `copies[w]` holds the Secrets it has read and may write, each with how
its live object has moved on since: *current*, *rewritten* (another
resourceVersion, same UID) or *replaced* (another UID, or gone). Every write to a
Secret updates the copies all workers hold of it, so a precondition is a test on
`version` and no version counter is needed.

*Actions.* One per API call with the computation up to the next call:
`GetNamespace` (590-622), `ListStale` and the `stale-delete` loop (1806-1836),
`Discover` (858-975), `GetSecret` (1410-1469: ownership, `changed`, whether the
address moved), `ListClaimants` (1279-1310), `ListServers` and `CheckIncumbent`
(1325-1381), `Create`, `Update` (1427-1538), `ListOwned` (1647-1700),
`DeleteOrphan`, `KeepDemoted`, `DeleteExpired`, `Demote` (the loop of
`collectOne`), `Return`. `GetFails`, `DiscoverFails`, `CheckFails`, `ItemError`
and `Abort` are the failing calls, one action per way the code treats a failure;
`Crash` is death between two calls. The loops take their items in any order, the
order of a list being the API server's.

A call that times out after taking effect (`clientTimeout`, 30 s) needs no
action of its own: it has the effect of the call followed by `Abort` or `Crash`.

*Environment.* Namespaces created, deleted (terminating first, finalized
later), relabelled, unmanaged; kubeconfigs written and rotated; Secrets pinned,
stripped of a label, deleted, replaced under a new UID, written by hand; the
clock. `Edits` selects the kinds a run allows, `MaxEdits` bounds their number.

*Abstraction.* A registration has the labels and data the decisions depend on.
`kube` stands for the server and config keys together; `Address` gives the server.
Left out: the other labels and annotations, which are in `Propagation`; a
secret-type label stripped by hand (`state` is active or demoted); a pin on a
Secret that is not ours; the abort of a namespace's termination, which Kubernetes
does not offer; `--dry-run`.

### Registry and Refinement

`Registry` knows no copies, no resourceVersions and no stale reads. A worker has
a *mandate*, a namespace it observed and then a kubeconfig; under it each
`Register`, `Refresh`, `Demote`, `Expire` is one step decided on the Secret as it
is at that step. The one weaker promise is spelled out: `Condemn` lists what a
namespace left behind, and `Remove` later looks only at whether each is still the
object condemned, since `deleteOrphan` carries the UID alone. `Refinement` maps a
job to its mandate, and the loop of a proven deletion to `condemned`.

### Controller and Sweep

In `Controller` a worker of `Reconcile` is a process with one goroutine and one
queue, and at most one process is up, as the lease has it. `Start` is the watch's
initial list (all managed namespaces); `SeedNamespaces`, `SeedSecrets`,
`SeedFails`, `SeedQueue` are the seeder running beside the goroutine
(`controller.go:239-270` over `reconcileKeys`); `Take` removes a key and makes the
first call of its pass; `Call` is any further call; `Done` is `done`
(`controller.go:93-102`); `World` is any environment step of `Reconcile` together
with what the label-filtered watch reports of it; `Die` loses the queue, the seeds
and the pass. A key waiting for its interval or back-off is in the queue, how long
it waits being left open. Faults are bounded by `MaxFaults`.

`Sweep` gives the worker `Sweeper` another life: `Launch`, the two lists of
`reconcileKeys`, `Visit` of the least key left, the same calls, `PassDone`
keeping the error, the audit, the exit; a list, a call, the audit may fail and it
may be interrupted. `owed` is a history variable: the unpinned orphans that were
there when the sweep started and have been ever since. It starts in a cluster an
earlier controller left behind (`Left`).

### Discovery, Exec, Kubeconfig

In `Discovery` the namespace's Secrets, the glob matches, types, owners and the
global exec gate are arbitrary but fixed while it is searched. `PassOver`, `Offer`
and `NextProvider` are the loops of `findKubeconfigCandidates` (1025-1089), `Skip`
and `Use` the loop of `discoverOne` (910-959). A kubeconfig is *static* (a usable
credential and no exec block), *both* (a usable credential beside one), *exec* (only a
translatable plugin), *alien* (an exec block in a document no provider can use) or
*broken* (of no use, and without one). `Parses` is `parseKubeconfig`; `CarriesExec` is
`carriesExec`, which looks for an exec block of any user and at nothing else. `KeysPresent` appends the keys a Secret has one by one,
as `keysPresent` does. `Usable` and `Preferred` say what is to be found
without saying how to search.

`Exec` models an argument as an option, an option with `=value`, or a word.
`ExecFlag`, `RefusedArgs` and `HasSubcommand` are the three scanners, each with
its own rule of what takes the next argument; `Visited` is where such a scan stops;
the `Translate...` operators are the translators. Against them stands `Heads`, how the plugin itself reads the list,
which knows switches. `Kubeconfig` is one step, `ParseKubeconfig`, over every
document in a range: `Resolve`, the refusals in `ServerRefused`, `ProxyRefused`,
`FilesRefused`, `Credential` and `Config`. A credential that is
copied is told by the user it belongs to. Of a plugin nothing is: what is written is
the `Translation` of `Exec`, with which ArgoCD authenticates as itself
(`exec.go:26-29`). `KubectlPairs`, `Endpoint` and `Shown` say what kubectl would connect
to and show there, `ArgoEndpoint` and `ArgoShows` what ArgoCD makes of what was
written: exactly `https://kubernetes.default.svc` is its own cluster, whatever else the
configuration says. An address is a host, a port or none, capitals or none, a path
or none and trailing slashes; `InClusterHosts` is the table of `kubeconfig.go:163-170`, and
what it does not list of ArgoCD's own cluster (a trailing dot, the service's address,
another cluster domain) is in `OwnNames` and is registered. Impersonation and basic
authentication, which `kubeconfigUser` has no field for, are `unread`: the code drops
them, and `SameConnection` excepts such users. YAML, base64 and the rest of URL syntax
are left out; a user's plugin is one and the same for all
users of a document. `SameConnection`, `UsableRegistered` are about documents
kubectl loads: no two entries of one name, no half key pair; `NeverMixed` is about
all. `WellFormed` excludes from the comparison with the plugin a repeated option
(plugins take the last, `execFlag` the first) and an option as another's value.

### Propagation

The Secret as key -> value: our prefix's keys (one the tenant's own, the computed,
the demotion's, `prune`), ArgoCD's `secret-type`, an operator's; annotations by the
length of their value; ArgoCD's data. `UpTo` is `propagate`'s loop under its three
limits (1181-1206), one annotation after the other, and `Admitted` its result; `LabelsDrift`/`NotesDrift` are `changed`, with Go's
reading of a missing key as empty, `Merge` is the merge of `apply`, `Parked` and
`Stamped` are `demote`. A pass is one step here, its interleavings being
`Reconcile`'s. Left out: contention for the name, a breadcrumb that is no valid
label value, more than one Secret per namespace.

### Audit, Options

`Audit`: `List`, then one `Set` per series in the code's order (660-724), passes,
people, the clock and restarts in between. `Bucket` and `CredentialExpiry` are
`expiry.go`. A scrape is no action. Prometheus reads the series one after the other and
nothing locks them meanwhile, so what a scrape can have read of each is a set
(`Readings`): what the gauge shows now, and what it showed when the audit began
(`stood`, a history variable). That is all of it as long as a scrape is over before a
second audit begins, which is assumed: an interval is minutes, a scrape a fraction
of a second. That the audit key comes back every interval (`controller.go:81`,`100`) is the fairness of
`List`, not a result. `Options`: `Run` is `RunE` up to the choice of mode, with
`ResolveProviders`, `ParseProvider`, `Validate` and `BuildOptions`; `Acquire` is
the manager's elector; `Stop` releases (`LeaderElectionReleaseOnCancel`), `Die` does
not, and `Lapse` frees what a process that died left behind. Neither client-go's
elector nor its clocks are modelled: that a lease has one holder, and that a holder which
cannot renew gives up before its lease lapses, is assumed. A label prefix is the list of parts between its slashes.

## 3. What is checked

Several runs play *scenes*: a scene is a set of kinds of change that can endanger
the same properties together, chosen in the initial state and kept. One run of
several scenes covers what a run over all kinds at once could not in reasonable
time.

| Run | Instance | Shows |
|---|---|---|
| `removal` | 1 worker, 2 namespaces, 2 clusters; scenes: sources that go and come back (4 edits), renames (4), renames with time and TTL 1 (3), contended names and addresses (3) | `TypeOK`; `FinishedOwnsNothing`: a key is dropped only when its namespace owns nothing; `RemovalNeedsProof`: a deleted registration's source was gone or replaced at that very moment, or it was demoted and expired; `DemotedOnlyWhenReplaced`: what is hidden has a live successor; `ClaimsFreeAddress`: an address is never taken while a live registration of another existing namespace has it |
| `instances` | 2 workers; scenes: 2 namespaces that contend, with pins and stripped labels; 1 that is renamed, replaced and expires; 2 edits each | `NoTakeover`, `PinSurvives`, `ExpiryRechecked`; `ImplementsRegistry`; `IInv`, the inductive invariant of the proofs |
| `restart` | scenes: controller alone, 2 namespaces, 2 edits; sweep alone over 2 namespaces and whatever was left behind; both over 1; 1 fault | `ForgottenOnlyBeside`: without a sweep, every managed and every recorded namespace is in the queue or in hand; `OrphansSwept`: an orphan outlives a whole sweep only if its own pass failed, and then the exit says so |
| `converge` | 1 process, 1 namespace, 2 clusters, 2 kubeconfigs, 3 edits, 1 fault, fairness | `OrphansCollected`, `Converges` |
| `discovery` | 2 Secrets x 2 keys, 5 kinds of content of which any two meet, 2 overlapping providers, one exec-capable | `ChoosesPreferred`, `WarnsOfMisorder` |
| `propagation` | 3 parties: people and a labelling tenant, a tenant that names reserved keys with TTL 1, annotations of lengths 0..3 under limits 2 (value), 3 (total), 2 (count) | `Settles`, `NothingMissed`, `NotesFit`, `NoSpoofing`, `OthersKept`, `RevertRestores`; `SupersededExpires` |
| `kubeconfig` | all documents of up to 2 clusters, users, contexts; all clusters, with 8 hosts x 3 ports x capitals x path x slashes; all users; all argument lists up to 5 for aws, 3 for the others | `SameConnection`: ArgoCD connects to what kubectl would, not to its own cluster by mistake, with the same user's credential or its own identity for what the plugin was translated to; `NeverMixed`, `UsableRegistered`, `IdentityNotForwarded`, `ReadAsThePluginReads`, `NothingUsefulRefused`, `TypeOK` |
| `audit` | 2 Secrets, one of them never written, 6 kinds of config with 1 change or 1 kind with 2, a lifetime across all limits, restarts | `Exact`: after an audit each sum an alert adds up is what was found; `ScrapeBounded`: a scrape that overlaps an audit shows of a series no fewer than both audits put there and no more than either did; `Reported` |
| `options` | any one flag, or pair that belongs together, off the usual; any two instances that differ in what decides about leases, stopping, dying and starting again | `TakenForGranted`, `Boundary`, `AsAskedFor`, `OneAtWork`, `PreFlightHoldsNothing`, `LeftAlone` |

*Bounds.* Two namespaces and two cluster names are the least at which names and
addresses are contended, swapped and renamed; two workers the least that
interleave. Three or four edits reach the chains the hazards name: delete,
recreate, delete again while a pass holds the first object; rename, take-over of
the address, revert; pin between list and delete. With two workers two edits
suffice, the other worker being the third actor. `TTL 1` over times 0..2 has the
clock before, at and after the boundary. `restart` and `converge` allow one
fault, a death or a failing call, at any point; the longest recoveries start from
there. In `audit` the limits are scaled to 2, 3 and 4 ticks and a new certificate
lasts 4, so that it passes every bucket; in `propagation` the limits are as small
as keeps the three of them apart. Five arguments hold `eks get-token`, an option
with its value and another one anywhere around them. Cluster and
worker names are interchangeable and used as symmetry sets, but not where a
liveness property is checked, since symmetry is unsound there. Deadlock is checked
where the system never stops; a controller with an empty queue and no edits left,
a search or a sweep that is over, a document that is parsed and instances at rest
do stop.

*Single-worker properties.* `RemovalNeedsProof`, `DemotedOnlyWhenReplaced`,
`ClaimsFreeAddress` and `FinishedOwnsNothing` are checked for the configuration
the chart deploys, one instance. The first is false with two (below). The
outside world interleaves with that instance all the same.
`DemotedOnlyWhenReplaced` is about the scenes in which nobody removes or strips
the successor by hand.

*Fairness.* `converge`: weak fairness of `Start` and the seeding steps (the pod is
restarted, and the seeder polls until its lists succeed) and of `Call` and `Done`
(every call returns or times out); strong fairness of `Take` per key: the goroutine
is busy in between, but the queue is first in, first out, and interval and
back-off are finite, so a key in it cannot be passed over for ever. Nothing is
assumed of people, provisioners and the clock, and faults are not fair: they are
finitely many, as convergence needs. `Sweep` adds weak fairness of a running
sweep's own steps, not of `Launch`. `Propagation`: weak fairness of `Pass`, which
the interval brings back, and of `Tick`. `Audit`: of `List` and `Set`, the audit key
being requeued every interval, and of `Tick`; restarts are finitely many. `Options`:
of `Run`, `Acquire` and `Lapse`, since what is not renewed lapses; nobody is obliged
to stop.

### Disagreements found

Each of these is a run expected to violate one property; `PROJECT.json` quotes the
lines.

* `pin_race` - `deleteOrphan` (1859) carries only the UID: a pin set between the
  list and the delete does not protect the Secret, though README.md:457 says
  deletion will not touch a pinned one. Demotion and expiry carry the
  resourceVersion and are safe (`PinSurvives`).
* `restored_address` - reverting a rename restores a demoted registration
  without claiming its address (1466), so two live registrations can share one. It
  takes a rename together with a move: the successor leaves the old address, another
  namespace takes it, and then both the move and the rename are reverted.
* `sweep_orphan` - a sweep whose pass read a namespace before its deletion
  registers it, or adopts a Secret without a source for it, after the controller found
  nothing and dropped the key; nothing
  removes that registration until the controller restarts.

Met while modelling, and visible in the models without a run of their own:

* With two active instances, one that read NotFound lists and deletes what the
  other has just registered for the recreated namespace (`RemovalNeedsProof` with
  two workers), although the chart (`deployment.yaml:33`) says two replicas would
  only do the work twice.
* The comment at 1055-1057 has a passed-over Secret recorded "only when this provider
  could actually have used the Secret and it really carries an exec block, or the
  warning fires forever on a namespace with nothing to fix". `carriesExec` (1126-1129)
  asks for an exec block of any user under any of the provider's keys and no more:
  a Secret whose plugin no provider can translate, or whose document has a usable
  static credential beside the plugin, is named on every pass as well. What does hold
  is `WarnsOfMisorder`: none that matters is left out, and one named has an exec block
  and would go to an exec-capable provider under another order.
* A user entry with impersonation or basic authentication beside a usable credential
  is registered without them (`kubeconfigUser`, `kubeconfig.go:32-41`), so ArgoCD connects
  as somebody else than kubectl; the README names only what is refused.
* `Validate` accepts the prefix `kubernetes.io/`, under which `propagate` would copy and
  sweep keys that are Kubernetes' own; it refuses ArgoCD's domain only (`Boundary`).
* `changed` (1595, 1615) reads a missing key as empty, so a prefixed label or
  annotation with an empty value, set after the registration, is written only when
  something else changes. `NothingMissed` therefore compares with `Read`.
* A registration whose `secret-type` a person removed is demoted without anything
  being parked (1560, 1574), so it counts as not demoted (1701), is stamped anew
  by every pass and never expires. No party of `propagation` has both that hand
  and a TTL.
* `--cluster-id=` with nothing after it is translated into a credential for the
  cluster "" (`exec.go:179`): the value is looked for, not looked at.

## 4. What is proved

Every invariant the runs check, and every property of single steps, is proved for
every value of the constants. Where a model takes its inputs from ranges, the ranges
are constants too: any documents, any argument lists, any annotations and limits,
any Secrets, any number of instances with any flags, any clock.

| Theorem | States |
|---|---|
| `ReconcileProofs!Invariance`, `TypeCorrect` | `Spec => []IInv`, `Spec => []TypeOK` |
| `ReconcileProofs!Incumbency`, `Pinning`, `Expiry` | `Spec => NoTakeover`, `PinSurvives`, `ExpiryRechecked` |
| `ReconcileProofs!Implementation` | `Spec => ImplementsRegistry` |
| `ControllerProofs!Composition` | `ControllerSpec => Spec` |
| `ControllerProofs!ControllerTyped`, `Remembered`, `Dropping` | `ControllerSpec =>` `[]ControllerTypeOK`, `[]NothingForgotten`, `[]FinishedOwnsNothing` |
| `ControllerProofs!Removal`, `Claiming` | `ControllerSpec => RemovalNeedsProof`, `ClaimsFreeAddress` |
| `ControllerProofs!Demotion` | `HandsOff /\ ControllerSpec => [][~HidesTheOnlyOne]_vars` |
| `ControllerProofs!Forgetting`, `Swept` | `SweepSpec =>` `[]ForgottenOnlyBeside`, `[]OrphansSwept` |
| `ControllerProofs!SafeBeside` | `SweepSpec => NoTakeover /\ PinSurvives /\ ExpiryRechecked` |
| `DiscoveryProofs!SearchTyped`, `Choice`, `Warning` | `Spec =>` `[]TypeOK`, `[]ChoosesPreferred`, `[]WarnsOfMisorder` |
| `KubeconfigProofs!KubeconfigTyped`, `Faithful`, `Unmixed`, `Registrable` | `Spec =>` `[]TypeOK`, `[]SameConnection`, `[]NeverMixed`, `[]UsableRegistered` |
| `KubeconfigProofs!ReadAlike`, `Translatable`, `IdentityIgnored` | `Spec =>` `[]ReadAsThePluginReads`, `[]NothingUsefulRefused`, `[]IdentityNotForwarded` |
| `PropagationProofs!PropagationTyped`, `TrustBoundary`, `ComparesEnough`, `LimitsKept` | `Spec =>` `[]TypeOK`, `[]NoSpoofing`, `[]NothingMissed`, `[]NotesFit` |
| `PropagationProofs!OnePassEnough`, `OthersLeftAlone`, `Reverting` | `Spec =>` `Settles`, `OthersKept`, `RevertRestores` |
| `AuditProofs!AuditTyped`, `ExactAudits`, `Throughout` | `Spec =>` `[]TypeOK`, `[]Exact`, `[]ScrapeBounded` |
| `OptionsProofs!OptionsTyped`, `AcceptedIsUsable`, `PrefixIsBounded`, `ProvidersAskedFor`, `OneLeads`, `PreFlight` | `Spec =>` `[]TypeOK`, `[]TakenForGranted`, `[]Boundary`, `[]AsAskedFor`, `[]OneAtWork`, `[]PreFlightHoldsNothing` |

*Assumptions.* `Reconcile`, `Controller`, `Sweep`: namespace names are numbers,
`None` is no other value, bounds are naturals, `Address` is a function on
kubeconfigs, the sweeper is a worker. `Discovery`: Secret names are numbers, and
every provider has keys and none of them twice, which `Validate` makes sure of and
`AcceptedIsUsable` proves. `Kubeconfig`, `Exec`, `Options`, `Propagation`:
`None`, or `Absent`, is not also a value, an option or a word; the ranges hold what
their names say. `Options`: a deployment gives every instance flags. `Propagation`:
the limits are positive. `Audit`: there are finitely many Secrets, and
24 hours, 7 and 30 days are in that order. TLC evaluates all of them in the runs.

*The pass.* None of the step properties is inductive by itself: a step that writes
is judged by what the worker read, possibly long ago. `IInv` therefore adds to
`TypeOK` two facts per worker. `CopiesFaithful`: a copy still counted as current
equals the live Secret, which is what a resourceVersion stands for. `WorkerOK`:
what the worker is about to update was its own to write when it read it, and
what it is about to remove was recorded against its namespace and unpinned when
listed. A guarded write then happens on the live object the decision was made
about; an unguarded one (`deleteOrphan`) only on the object of that UID, which
is exactly the gap `PinSurvives` admits. The proof is by the shape of steps: all
steps of workers are a `Turn` (nothing shared changes) or a `Put` (one Secret
changes, the copies are marked); `TurnInv` and `PutInv` reduce preservation to
`WorkerOK` of the new job, which `ReadInv`, `WriteInv` and `CollectInv` show action
by action. `OnlyWrites` says which actions change a Secret at all and
`WriteEffect` what each of them leaves.

*The refinement.* A step maps to one of `Registry` or to none. What `IInv` lacks
for that is `Standing`: a worker that applies or collects acts for a namespace it
saw alive, and does not collect the Secret that namespace names. With it each
action of a worker is one of `Registry`'s, a failing call or an early return is
`Waive`, and the environment is `Outside`.

*The controller.* Its actions are conjunctions with `Reconcile`'s, so `Composition`
holds step by step and carries everything above over. `NothingForgotten` needs two
facts more. `Remembers`: what the seeder has already passed and what it holds
together cover the recorded namespaces. `Answers`: a pass about to report
*finished* has every remaining registration of its namespace on its list. The
latter is true of one pass at a time only, which `CInv` gets from there being one
process up; `Sound` is the part that survives any interleaving, and all that
`Forgetting` has of a sweep that has not run.

*Removal.* The namespace was read at the beginning of the pass and the delete
lands at its end. It is still evidence then because UIDs only grow (`Dated`), so a
namespace seen gone, or seen under a later UID, is never again the one a
registration records (`Informed`), and because nobody else writes the UIDs
registrations record, so what is on a deletion list is still recorded as when it
was listed (`Listed`). The argument needs one pass at a time: with two, the other
pass writes registrations of the recreated namespace, and the property is false.

*Claims.* `claimServer` lists once and then reads one namespace per rival, so its
evidence is older than its write. `Cleared`: whoever is in the way is among the rivals
still to be looked at, and nobody is by the time of the write. With one pass at a
time no registration comes to have the address in between; a rival dismissed had no
namespace, and the one its registration records does not come back, UIDs only growing.

*Demotion.* A pass that hides another registration of its namespace has written or
refreshed the one it wants just before, and that one stays a live one of the same
namespace (`Succeeded`) until the pass ends, unless a person strips or removes it.
That is what `HandsOff`, a condition on the constant `Edits`, excludes. The run
states it of its scenes (`DemotedOnlyWhenReplaced`); the property proved is the same
step property.

*The sweep.* `Debts`: every orphan still owed is of a namespace whose turn is to
come, whose pass has failed, or whose pass is under way and has it on its list, as the
object it is, or has yet to list (`Deals`). What others do in the meantime spares it:
`StepSpares` and `OutsideSpares` show that a Secret which stays an orphan, and the same
object, remains one the sweeper's delete takes.

*Discovery.* `DInv` says of every moment of the loops what has been claimed, passed
over and offered so far, that the candidates are in order of preference, and that
whatever `Found` says is a candidate by now is among them or was skipped. When all
providers had their turn, `Found` says what `Usable` says. The keys of one Secret
come in the order they are declared (`KeysPresentIs`), by induction over their number.

*Kubeconfig.* The step reads a document that does not change, so the invariant
(`KInv`) is that what is written is what `Parse` and `Translation` say of it, and
the work is in the operators. `ResolveIs` finds the cluster and user `resolve`
returns in a document of any length, `KubectlResolves` shows them to be kubectl's
when the document loads, and `RegisteredIs` what was not refused of them.

*Exec.* A scan of the arguments is a set of stops with an equation (`Scans`):
it stops everywhere but after a stop that takes the next argument. There is one such
set for any takers (`ScanExists`, `ScansAgree`). Where the plugin's own reading and a
scanner differ in their takers they still stop at the same places as long as what
differs does not occur (`SameHeads`, `SameWords`), and after `RefusedIs` it does not.
With that, `FlagIs` says that `execFlag` looks up what the plugin reads. That
identity makes no difference takes more: the arguments without it are another
list, and a translation looks up the same in both. `Harmless` are the positions
left, a filter keeps the order of what it leaves (`FilterPoints`), and the stops of
one list are the stops of the other (`LeftAlike`).

*Propagation.* `PInv` is the type of every key of the Secret. The rest is what a
single step makes of any state of that type: nothing drifts only if every key
compared reads as it is wanted (`NoDrift`), and the merge brings exactly those
into line. What `propagate` admits is a recursive function on numbers; that there is
one, and that at each step what is admitted fits and what is not had no room
(`AdmitsOnto`), is shown by induction, and `NotesFit` says of the result that it is
a largest one.

*Audit.* `Shown`: each series counts what the running audit put in it, if it has
been set since, and what the one before put in it otherwise. `Stood`: at the list they all counted what the audit before had found. Of
a series, whatever a scrape reads is therefore the number of Secrets one of the two audits
puts in it, hence `ScrapeBounded`; that nothing better can be said of a Secret that
moves is why the property says no more. A sum of series is
at least the number of Secrets in any of them, and exactly that when none is in two
(`SumOfClasses`). Between audits the series are disjoint, and `ExpiryIs` says which
Secrets are in which, hence `Exact`.

*Options.* `OInv`: the options and the mode of an instance are those its flags give
it, who works under a lease holds it, and what is held is the lease of the flags of
an instance that elects, which works under it or has died. The properties of a
configuration follow from what `BuildOptions` let pass (`BuildIs`); `OneAtWork` because
instances that would fight derive the same lease. Its content is that derivation:
the exclusion of the elector, and that no lease lapses under a process at work, go into
`Acquire` and `Lapse` as assumptions.

*Induction.* The prover cannot instantiate the induction theorems of its library,
which take an operator. `LoopFacts` states induction of a set of numbers instead
(`NatSetInduction`, from the well-foundedness of `<`), and every argument over lengths
or cardinalities goes through it: first that a function satisfying the recursive
equation exists, then what it computes.

Only model-checked: liveness (`OrphansCollected`, `Converges`, `SupersededExpires`,
`Reported`, `LeftAlone`), which is beyond the prover, and the three disagreements
above, which are counterexamples.

## 5. Not modelled, and the plan

Not modelled: the Helm chart and admission policy (templates; `Controller` takes
one replica and the lease from them); `--dry-run` inside a pass, which reads
alike and writes nothing; the counters of conflicts and adoptions, which only go
up; log lines, apart from the misorder warning; YAML and base64; the elector of
client-go; the
API server beyond single-object atomicity; the construction of the manager and
client. In `Controller` at most one process is up: a leader that loses its lease
unnoticed is two workers of `Reconcile` in `instances`, and the sweeper in `Sweep`.

Three hazards have no property. With two instances, one that read NotFound deletes what
the other has just registered (595): `RemovalNeedsProof` is false then, and checked and
proved for one pass at a time. With two instances again, a pass that read an old namespace
object can set the UID a registration records back (1392), and the next pass
deletes and recreates a live registration. `RemovalNeedsProof` judges by the
recorded UID, which is then the wrong one; a property would have to carry which
namespace object each write was made for. And on which side of the TTL the comparison
of 1758 falls is in `Expired`, which the properties about expiry share with the model.

Next, in order:

1. The two-instance reading of `RemovalNeedsProof` and the hazard above: a history
   variable for the namespace object a registration was written for, and what still
   holds with two passes at a time.
2. `Propagation` as a step of `Reconcile`'s writes: the mapping under which one
   worker's `GetSecret` and `Update` are one `Pass`.
3. The safety parts of the liveness arguments: that a pass without outside steps
   ends, by a measure on its job.

## 6. Running

    tlc -config removal.cfg MCInstances.tla
    tlc -config instances.cfg MCInstances.tla
    tlc -config restart.cfg MCRestart.tla
    tlc -config converge.cfg MCController.tla
    tlc -config discovery.cfg MCDiscovery.tla
    tlc -config propagation.cfg MCPropagation.tla
    tlc -config kubeconfig.cfg MCKubeconfig.tla
    tlc -config audit.cfg MCAudit.tla
    tlc -config options.cfg MCOptions.tla
    tlc -config pin_race.cfg MCReconcile.tla
    tlc -config restored_address.cfg MCReconcile.tla
    tlc -config sweep_orphan.cfg MCSweep.tla
    tlapm LoopFacts.tla    # and ReconcileProofs, ControllerProofs (five minutes),
                           # DiscoveryProofs, KubeconfigProofs, PropagationProofs,
                           # AuditProofs, OptionsProofs
