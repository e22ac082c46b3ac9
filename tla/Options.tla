------------------------------- MODULE Options -------------------------------
(***************************************************************************)
(* From flags to a running instance: buildOptions and RunE of cmd/root.go, *)
(* ParseProvider, Validate and LeaderElectionID of registrar.go.  Several  *)
(* instances, each configured on its own, run against one cluster; what    *)
(* each accepted of its flags, and the lease it therefore takes, decides   *)
(* which of them work at a time.                                           *)
(***************************************************************************)
EXTENDS Integers, Sequences, FiniteSets

CONSTANTS
    Instances,
    Deployments,  \* what each instance may be started with
    None          \* a flag not given; no options

(* A label prefix is what stands between the slashes of it: "a/" is         *)
(* <<"a", "">>.  argo begins ArgoCD's domain, "a b" is no DNS name.         *)
ArgoDomain == "argocd.argoproj.io"
Parts == {"", "example.com", "argo", ArgoDomain, "a b"}
Glob == {"", "glob", "malformed"}
Names == {"", "k3k", "capi", "capa-eks", "custom", "mine", "other", "a b"}

(* A provider spec, split at "=": name, pattern, keys and "exec", or a name *)
(* alone.                                                                   *)
ProviderSpec == [name : Names, pattern : Glob \cup {None}, keys : Seq({"", "key", "more"}),
                 fourth : {None, "exec", "true"}]

Provider == [name : Names, pattern : Glob, keys : Seq({"", "key", "more"}), allowExec : BOOLEAN]

Flags == [providers : Seq(ProviderSpec),
          secretNamePattern : Glob \cup {None}, secretKey : {None, "", "key"},
          labelPrefix : Seq(Parts), managedBy : {"", "m", "n"}, targetNamespace : {"", "argocd"},
          interval : 0..2, demotedTTL : -1..2,
          execCredentials : BOOLEAN, dryRun : BOOLEAN, once : BOOLEAN,
          leaderElect : BOOLEAN, leaderElectionID : {None, "", "given"}]

ASSUME FlagsAssumption ==
    \A d \in Deployments, p \in Instances : d[p] \in Flags /\ d[p].labelPrefix # <<>>

VARIABLES
    flags,        \* what each instance is started with
    options,      \* what buildOptions made of them
    mode,         \* what each instance does
    holders       \* leases that are held, and by whom

vars == <<flags, options, mode, holders>>

Modes == {"down", "failed", "sweeping", "waiting", "working"}

-----------------------------------------------------------------------------
(* Providers.                                                              *)

Preset(name) ==
    [name |-> name, pattern |-> "glob", keys |-> <<"key">>, allowExec |-> name = "capa-eks"]

IsPreset(spec) == spec.pattern = None
PresetNames == {"k3k", "capi", "capa-eks"}

Malformed(spec) ==
    \/ IsPreset(spec) /\ spec.name \notin PresetNames
    \/ spec.fourth = "true"

(* The keys of a spec, the empty ones dropped.                              *)
Given(keys) ==
    LET upTo[n \in 0..Len(keys)] ==
            IF n = 0 THEN <<>>
            ELSE IF keys[n] = "" THEN upTo[n - 1]
            ELSE Append(upTo[n - 1], keys[n])
    IN  upTo[Len(keys)]

ParseProvider(spec) ==
    IF IsPreset(spec) THEN Preset(spec.name)
    ELSE [name |-> spec.name, pattern |-> spec.pattern,
          keys |-> Given(spec.keys), allowExec |-> spec.fourth = "exec"]

(* The gate of the deprecated flags is that they were given; their defaults *)
(* are not empty.                                                           *)
LegacyByValue(f) == f.secretNamePattern # "" \/ f.secretKey # ""
Legacy(f) == f.secretNamePattern # None \/ f.secretKey # None

LegacyProvider(f) ==
    [name |-> "custom", allowExec |-> FALSE,
     pattern |-> IF f.secretNamePattern = None THEN "glob" ELSE f.secretNamePattern,
     keys |-> <<IF f.secretKey = None THEN "key" ELSE f.secretKey>>]

ProvidersRefused(f) ==
    /\ f.providers # <<>>
    /\ Legacy(f) \/ \E i \in DOMAIN f.providers : Malformed(f.providers[i])

ResolveProviders(f) ==
    IF f.providers # <<>> THEN [i \in DOMAIN f.providers |-> ParseProvider(f.providers[i])]
    ELSE IF Legacy(f) THEN <<LegacyProvider(f)>>
    ELSE <<Preset("k3k")>>

NoRepeat(s) == \A i, j \in DOMAIN s : s[i] = s[j] => i = j

ProviderValidWithRepeats(p) ==
    /\ p.name \notin {"", "a b"}
    /\ p.pattern \notin {"", "malformed"}
    /\ p.keys # <<>>
    /\ "" \notin {p.keys[i] : i \in DOMAIN p.keys}

ProviderValid(p) == ProviderValidWithRepeats(p) /\ NoRepeat(p.keys)

-----------------------------------------------------------------------------
(* Validate.                                                               *)

(* strings.HasPrefix(argoDomain, prefix); the empty prefix is refused below. *)
CoversArgoDomain(prefix) ==
    prefix \in {<<ArgoDomain, "">>, <<ArgoDomain>>, <<"argo">>}

EndsInSlash(prefix) == Len(prefix) > 1 /\ prefix[Len(prefix)] = ""

(* IsQualifiedName of the prefix with a suffix.                             *)
Qualified(prefix) == Len(prefix) <= 2 /\ (Len(prefix) = 2 => prefix[1] \notin {"", "a b"})

PrefixValidForAnyDomain(prefix) ==
    prefix # <<"">> /\ EndsInSlash(prefix) /\ Qualified(prefix)

PrefixValid(prefix) ==
    /\ ~CoversArgoDomain(prefix)
    /\ prefix # <<"">>
    /\ EndsInSlash(prefix)
    /\ Qualified(prefix)

Validate(f, providers) ==
    /\ f.targetNamespace # ""
    /\ f.managedBy # ""
    /\ \A i \in DOMAIN providers : ProviderValid(providers[i])
    /\ NoRepeat([i \in DOMAIN providers |-> providers[i].name])
    /\ f.demotedTTL >= 0
    /\ PrefixValid(f.labelPrefix)

-----------------------------------------------------------------------------
(* buildOptions.                                                           *)

OfManagedByAlone(f) == <<f.managedBy>>
OfEverything(f) == <<f.labelPrefix, f.managedBy, f.interval>>
LeaderElectionID(f) == <<f.labelPrefix, f.managedBy>>

Lease(f) ==
    IF f.leaderElectionID = None THEN LeaderElectionID(f) ELSE <<f.leaderElectionID>>

ElectAlways(f) == f.leaderElect
Elect(f) == f.leaderElect /\ ~f.dryRun

AnyAllowsExec(providers) == \E i \in DOMAIN providers : providers[i].allowExec

Warnings(f, providers) ==
    {w \in {"dry-run", "no provider for exec", "exec is off", "ttl below interval"} :
        CASE w = "dry-run" -> f.leaderElect /\ f.dryRun
          [] w = "no provider for exec" -> f.execCredentials /\ ~AnyAllowsExec(providers)
          [] w = "exec is off" -> ~f.execCredentials /\ AnyAllowsExec(providers)
          [] w = "ttl below interval" -> f.demotedTTL > 0 /\ f.demotedTTL < f.interval}

Failed == [accepted |-> FALSE]

BuildOptions(f) ==
    LET providers == ResolveProviders(f)
    IN  IF \/ f.interval <= 0
           \/ ProvidersRefused(f)
           \/ ~Validate(f, providers)
           \/ f.leaderElectionID = ""
        THEN Failed
        ELSE [accepted |-> TRUE, providers |-> providers, prefix |-> f.labelPrefix,
              managedBy |-> f.managedBy, target |-> f.targetNamespace, dryRun |-> f.dryRun,
              interval |-> f.interval, demotedTTL |-> f.demotedTTL,
              execCredentials |-> f.execCredentials,
              elect |-> Elect(f), lease |-> Lease(f), warnings |-> Warnings(f, providers)]

ASSUME NoneAssumption ==
    \A d \in Deployments, p \in Instances : BuildOptions(d[p]) # None

-----------------------------------------------------------------------------
(* RunE.                                                                   *)

Holding(p) == {h \in holders : h.by = p}

Run(p) ==
    /\ mode[p] = "down"
    /\ options' = [options EXCEPT ![p] = BuildOptions(flags[p])]
    /\ mode' = [mode EXCEPT ![p] =
                    CASE ~options'[p].accepted                     -> "failed"
                      [] options'[p].accepted /\ flags[p].once     -> "sweeping"
                      [] options'[p].accepted /\ ~flags[p].once /\ options'[p].elect -> "waiting"
                      [] OTHER                                     -> "working"]
    /\ UNCHANGED <<flags, holders>>

(* The elector of the manager; the lease is in the target namespace.        *)
Acquire(p) ==
    LET lease == <<options[p].target, options[p].lease>> IN
    /\ mode[p] = "waiting"
    /\ lease \notin {h.lease : h \in holders}
    /\ holders' = holders \cup {[lease |-> lease, by |-> p]}
    /\ mode' = [mode EXCEPT ![p] = "working"]
    /\ UNCHANGED <<flags, options>>

Leave(p) ==
    /\ mode[p] \in {"sweeping", "waiting", "working"}
    /\ mode' = [mode EXCEPT ![p] = "down"]
    /\ options' = [options EXCEPT ![p] = None]
    /\ UNCHANGED flags

(* A sweep is done, or the process is told to stop: it releases its lease,  *)
(* but none that the process before it left behind.                         *)
Stop(p) ==
    /\ Leave(p)
    /\ holders' = IF mode[p] = "working" THEN holders \ Holding(p) ELSE holders

(* The process is killed, or can no longer renew its lease and exits: the   *)
(* lease remains in its name, and it is another process that starts again.  *)
Die(p) == Leave(p) /\ UNCHANGED holders

(* The lease lapses.  An elector that cannot renew gives up before its      *)
(* lease lapses (RenewDeadline < LeaseDuration, client-go's defaults), so   *)
(* none lapses under a process at work: that much is assumed here.          *)
Lapse(p) ==
    /\ mode[p] # "working"
    /\ Holding(p) # {}
    /\ holders' = holders \ Holding(p)
    /\ UNCHANGED <<flags, options, mode>>

Init ==
    /\ flags \in Deployments
    /\ options = [p \in Instances |-> None]
    /\ mode = [p \in Instances |-> "down"]
    /\ holders = {}

Next == \E p \in Instances : Run(p) \/ Acquire(p) \/ Stop(p) \/ Die(p) \/ Lapse(p)

Spec == Init /\ [][Next]_vars

(* What is started and may take its lease does in the end, and what nobody  *)
(* renews lapses; what stops or dies is nobody's obligation.                *)
FairSpec ==
    Spec /\ \A p \in Instances : WF_vars(Run(p)) /\ WF_vars(Acquire(p)) /\ WF_vars(Lapse(p))

-----------------------------------------------------------------------------
(* Properties.                                                             *)

Accepted(p) == options[p] # None /\ options[p].accepted

(* Every variable has its type, and who works under a lease holds it; who   *)
(* does not may have left one behind.                                       *)
TypeOK ==
    /\ mode \in [Instances -> Modes]
    /\ \A p \in Instances :
           /\ options[p] = None <=> mode[p] = "down"
           /\ Accepted(p) <=> mode[p] \in {"sweeping", "waiting", "working"}
           /\ Cardinality(Holding(p)) \in
                  IF mode[p] = "working" /\ options[p].elect THEN {1} ELSE {0, 1}

(* What is accepted is what the other modules take for granted: providers   *)
(* that Discovery can offer Secrets to, in a list whose names tell them     *)
(* apart, and an interval that makes RequeueAfter come back.                *)
TakenForGranted ==
    \A p \in Instances :
        Accepted(p) =>
            /\ options[p].interval > 0
            /\ options[p].demotedTTL >= 0
            /\ options[p].providers # <<>>
            /\ LET ps == options[p].providers IN
               \A i \in DOMAIN ps :
                   /\ ps[i].pattern = "glob"
                   /\ {ps[i].keys[k] : k \in DOMAIN ps[i].keys} \in (SUBSET {"key", "more"}) \ {{}}
                   /\ Cardinality({ps[i].keys[k] : k \in DOMAIN ps[i].keys}) = Len(ps[i].keys)
                   /\ Cardinality({ps[j].name : j \in DOMAIN ps}) = Len(ps)

(* A key, domain and name, that the label prefix makes one of ours: what    *)
(* precedes its name, or the beginning of its domain.                       *)
Reaches(prefix, domain, name) ==
    \/ prefix = <<"">>
    \/ prefix = <<domain, "">>
    \/ Len(prefix) = 1 /\ prefix[1] = domain
    \/ prefix = <<"argo">> /\ domain = ArgoDomain
    \/ prefix = <<domain, name>>

(* The trust boundary of Validate: with a prefix it accepts, a namespace    *)
(* can have no key of ArgoCD's domain copied, and all our own keys have a   *)
(* domain.  Kubernetes' own domains are not refused.                        *)
Boundary ==
    \A p \in Instances :
        Accepted(p) =>
            /\ \A name \in {"secret-type", "refresh"} : ~Reaches(options[p].prefix, ArgoDomain, name)
            /\ \E domain \in Parts \ {"", "a b"} : options[p].prefix = <<domain, "">>

(* The providers in force are those asked for: none of a flag's default     *)
(* beside --provider, and nothing parsed that was not wanted.               *)
AsAskedFor ==
    \A p \in Instances :
        Accepted(p) =>
            LET f == flags[p]
                ps == options[p].providers
                names == IF f.providers # <<>> THEN [i \in DOMAIN f.providers |-> f.providers[i].name]
                         ELSE IF {f.secretNamePattern, f.secretKey} # {None} THEN <<"custom">>
                         ELSE <<"k3k">>
            IN  /\ [i \in DOMAIN ps |-> ps[i].name] = names
                /\ f.providers # <<>> => {f.secretNamePattern, f.secretKey} = {None}

(* Two instances fight for the same Secrets if and only if they agree on    *)
(* where, under which prefix, and for whom.                                 *)
Fight(p, q) ==
    /\ options[p].target = options[q].target
    /\ options[p].prefix = options[q].prefix
    /\ options[p].managedBy = options[q].managedBy

Derives(p) == Accepted(p) /\ options[p].elect /\ flags[p].leaderElectionID = None

(* "Two releases that would fight for the same Secrets contend for the same *)
(* lease": those that elect and derive its name never work at once, through *)
(* stops, deaths and restarts, as long as a lease does not lapse under its  *)
(* holder.                                                                  *)
OneAtWork ==
    \A p, q \in Instances :
        (p # q /\ Derives(p) /\ Derives(q) /\ Fight(p, q)) =>
            ~(mode[p] = "working" /\ mode[q] = "working")

(* A pre-flight run never takes the running instance offline: neither       *)
(* --dry-run nor --once ever holds a lease, nor leaves one behind.          *)
PreFlightHoldsNothing ==
    \A p \in Instances : (flags[p].dryRun \/ flags[p].once) => Holding(p) = {}

(* "And two that never would are left alone": an instance that waits        *)
(* though no other is configured to fight it gets to work, whatever the     *)
(* others hold for ever and even if it died at work itself.                 *)
LeftAlone ==
    \A p \in Instances :
        (Derives(p) /\ mode[p] = "waiting" /\
            \A q \in Instances \ {p} : flags[q].labelPrefix # flags[p].labelPrefix
                                          \/ flags[q].managedBy # flags[p].managedBy)
        ~> mode[p] # "waiting"

=============================================================================
