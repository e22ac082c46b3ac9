----------------------------- MODULE OptionsProofs -----------------------------
(***************************************************************************)
(* What Options guarantees for any number of instances and whatever each   *)
(* is started with.                                                        *)
(*                                                                         *)
(* The first part is about buildOptions: what a configuration that is      *)
(* accepted is like.  The second part is about the instances: OInv says    *)
(* that the options of each are what buildOptions makes of its flags, and  *)
(* that a lease has one holder, who works under it.                        *)
(***************************************************************************)
EXTENDS Options, LoopFacts, FunctionTheorems

-----------------------------------------------------------------------------
(* Sequences without repetition.                                           *)

(* A list that repeats nothing is as long as there are things in it.        *)
LEMMA Distinct ==
    ASSUME NEW n \in Nat, NEW s, s = [i \in 1..n |-> s[i]], NoRepeat(s)
    PROVE  Cardinality({s[i] : i \in 1..n}) = n
<1> DEFINE T == {s[i] : i \in 1..n}
<1>1. DOMAIN s = 1..n
  OBVIOUS
<1>2. s \in [1..n -> T] /\ \A i, j \in 1..n : s[i] = s[j] => i = j
  BY <1>1 DEF NoRepeat
<1>3. \A t \in T : \E i \in 1..n : s[i] = t
  OBVIOUS
<1> HIDE DEF T
<1>4. s \in Bijection(1..n, T)
  BY <1>1, <1>2, <1>3, Fun_IsBij
<1>5. ExistsBijection(1..n, T)
  BY <1>4, Fun_ExistsBij
<1>6. IsFiniteSet(1..n) /\ Cardinality(1..n) = n
  BY FS_Interval
<1>7. Cardinality(T) = n
  BY <1>5, <1>6, FS_Bijection
<1> QED BY <1>7 DEF T

LEMMA Pair == ASSUME NEW S, NEW x \in Seq(S), Len(x) = 2 PROVE x = <<x[1], x[2]>>
OBVIOUS

-----------------------------------------------------------------------------
(* Providers.                                                              *)

KeyNames == {"", "key", "more"}

(* Dropping the empty keys, as it is written.                               *)
LEMMA GivenIs ==
    ASSUME NEW keys \in Seq(KeyNames)
    PROVE  Given(keys) \in Seq(KeyNames)
<1> DEFINE keep == {n \in 1..Len(keys) : keys[n] # ""}
           Eq(f) == f = [n \in 0..Len(keys) |-> IF n = 0 THEN <<>>
                                                ELSE IF keys[n] = "" THEN f[n - 1]
                                                ELSE Append(f[n - 1], keys[n])]
           it == CHOOSE f : Eq(f)
<1>1. PICK f : Filters(f, keys, keep, KeyNames)
  BY FilterExists
<1>2. \A n \in 1..Len(keys) : n \in keep <=> keys[n] # ""
  OBVIOUS
<1>3. \A n \in 0..Len(keys) : n # 0 => n \in 1..Len(keys)
  OBVIOUS
<1> HIDE DEF keep
<1>4. Eq(f)
  <2>1. \A n \in 0..Len(keys) : f[n] = IF n = 0 THEN <<>>
                                       ELSE IF keys[n] = "" THEN f[n - 1]
                                       ELSE Append(f[n - 1], keys[n])
    BY <1>1, <1>2, <1>3 DEF Filters
  <2> QED BY <1>1, <2>1 DEF Filters
<1>5. Given(keys) = it[Len(keys)]
  BY DEF Given
<1>6. Eq(it)
  <2> HIDE DEF Eq
  <2> QED BY <1>4
<1> HIDE DEF it
<1>7. /\ it = [n \in 0..Len(keys) |-> it[n]]
      /\ it[0] = <<>>
      /\ \A n \in 1..Len(keys) : it[n] = IF n \in keep THEN Append(it[n - 1], keys[n]) ELSE it[n - 1]
  <2>1. 0 \in 0..Len(keys) /\ \A n \in 1..Len(keys) : n \in 0..Len(keys) /\ n # 0
    OBVIOUS
  <2> QED BY <1>2, <1>6, <2>1
<1> HIDE DEF Eq
<1>8. it = f
  <2>1. keys \in Seq(KeyNames)
    OBVIOUS
  <2> HIDE DEF KeyNames
  <2>2. /\ it = [n \in 0..Len(keys) |-> it[n]]
        /\ it[0] = <<>>
        /\ \A n \in 1..Len(keys) : it[n] = IF n \in keep THEN Append(it[n - 1], keys[n]) ELSE it[n - 1]
    BY <1>7
  <2>3. Filters(f, keys, keep, KeyNames)
    BY <1>1
  <2> QED BY <2>1, <2>2, <2>3, FilterDetermined, SMTT(60)
<1>9. f[Len(keys)] \in Seq(KeyNames)
  <2>1. Len(keys) \in 0..Len(keys)
    OBVIOUS
  <2> QED BY <1>1, <2>1 DEF Filters
<1> QED BY <1>5, <1>8, <1>9

LEMMA PresetIs == \A name \in PresetNames : Preset(name) \in Provider
<1>1. <<"key">> \in Seq({"", "key", "more"})
  OBVIOUS
<1> QED BY <1>1 DEF Preset, PresetNames, Provider, Names, Glob

LEMMA ParseProviderIs ==
    ASSUME NEW spec \in ProviderSpec, ~Malformed(spec)
    PROVE  ParseProvider(spec) \in Provider /\ ParseProvider(spec).name = spec.name
<1>1. /\ spec.name \in Names /\ spec.pattern \in Glob \cup {None}
      /\ spec.keys \in Seq(KeyNames)
  BY DEF ProviderSpec, KeyNames
<1>2. CASE IsPreset(spec)
  <2>1. spec.name \in PresetNames
    BY <1>2 DEF Malformed
  <2>2. ParseProvider(spec) = Preset(spec.name) /\ Preset(spec.name).name = spec.name
    BY <1>2 DEF ParseProvider, Preset
  <2> QED BY <2>1, <2>2, PresetIs
<1>3. CASE ~IsPreset(spec)
  <2>1. spec.pattern \in Glob
    BY <1>1, <1>3 DEF IsPreset
  <2>2. Given(spec.keys) \in Seq(KeyNames)
    BY <1>1, GivenIs
  <2> QED BY <1>1, <1>3, <2>1, <2>2 DEF ParseProvider, Provider, KeyNames
<1> QED BY <1>2, <1>3

LEMMA LegacyIs ==
    ASSUME NEW f \in Flags
    PROVE  LegacyProvider(f) \in Provider /\ LegacyProvider(f).name = "custom"
<1>1. f.secretNamePattern \in Glob \cup {None} /\ f.secretKey \in {None, "", "key"}
  BY DEF Flags
<1>2. <<"">> \in Seq({"", "key", "more"}) /\ <<"key">> \in Seq({"", "key", "more"})
  OBVIOUS
<1>3. <<IF f.secretKey = None THEN "key" ELSE f.secretKey>> \in Seq({"", "key", "more"})
  BY <1>1, <1>2
<1> QED BY <1>1, <1>3 DEF LegacyProvider, Provider, Names, Glob

(* The providers in force, and the names that were asked for.               *)
AskedFor(f) ==
    IF f.providers # <<>> THEN [i \in DOMAIN f.providers |-> f.providers[i].name]
    ELSE IF {f.secretNamePattern, f.secretKey} # {None} THEN <<"custom">>
    ELSE <<"k3k">>

LEMMA ResolvedIs ==
    ASSUME NEW f \in Flags, ~ProvidersRefused(f), NEW ps, ps = ResolveProviders(f)
    PROVE  /\ ps \in Seq(Provider)
           /\ ps # <<>>
           /\ [i \in DOMAIN ps |-> ps[i].name] = AskedFor(f)
           /\ f.providers # <<>> => {f.secretNamePattern, f.secretKey} = {None}
<1>1. f.providers \in Seq(ProviderSpec)
  BY DEF Flags
<1>2. Legacy(f) <=> {f.secretNamePattern, f.secretKey} # {None}
  BY DEF Legacy
<1>3. CASE f.providers # <<>>
  <2> DEFINE n == Len(f.providers)
  <2>1. n \in Nat /\ n # 0 /\ DOMAIN f.providers = 1..n /\ \A i \in 1..n : f.providers[i] \in ProviderSpec
    BY <1>1, <1>3
  <2>2. ~Legacy(f) /\ \A i \in 1..n : ~Malformed(f.providers[i])
    BY <1>3, <2>1 DEF ProvidersRefused
  <2>3. ps = [i \in 1..n |-> ParseProvider(f.providers[i])]
    BY <1>3, <2>1 DEF ResolveProviders
  <2> HIDE DEF n
  <2>4. \A i \in 1..n : ps[i] \in Provider /\ ps[i].name = f.providers[i].name
    BY <2>1, <2>2, <2>3, ParseProviderIs
  <2>5. DOMAIN ps = 1..n /\ ps \in [1..n -> Provider]
    BY <2>3, <2>4
  <2>6. ps \in Seq(Provider) /\ ps # <<>>
    BY <2>1, <2>5
  <2>7. [i \in DOMAIN ps |-> ps[i].name] = [i \in 1..n |-> f.providers[i].name]
    BY <2>4, <2>5
  <2> QED BY <1>2, <1>3, <2>1, <2>2, <2>6, <2>7 DEF AskedFor
<1>4. CASE f.providers = <<>>
  <2> DEFINE q == IF Legacy(f) THEN LegacyProvider(f) ELSE Preset("k3k")
             name == IF Legacy(f) THEN "custom" ELSE "k3k"
  <2>1. ps = <<q>>
    BY <1>4 DEF ResolveProviders
  <2>2. q \in Provider /\ q.name = name
    BY LegacyIs, PresetIs DEF Preset, PresetNames
  <2>3. AskedFor(f) = <<name>>
    BY <1>2, <1>4 DEF AskedFor
  <2> HIDE DEF q, name
  <2>4. ps \in Seq(Provider) /\ ps # <<>> /\ DOMAIN ps = 1..1 /\ ps[1] = q
    BY <2>1, <2>2
  <2>5. [i \in DOMAIN ps |-> ps[i].name] = [i \in 1..1 |-> name]
    BY <2>2, <2>4
  <2>6. <<name>> = [i \in 1..1 |-> name]
    OBVIOUS
  <2> QED BY <1>4, <2>3, <2>4, <2>5, <2>6
<1> QED BY <1>3, <1>4

-----------------------------------------------------------------------------
(* buildOptions.                                                           *)

(* The options of those that are accepted, and what was checked.            *)
AcceptedAs(b, f) ==
    /\ b.accepted = TRUE
    /\ b.providers = ResolveProviders(f)
    /\ b.prefix = f.labelPrefix
    /\ b.managedBy = f.managedBy
    /\ b.target = f.targetNamespace
    /\ b.interval = f.interval
    /\ b.demotedTTL = f.demotedTTL
    /\ b.elect = Elect(f)
    /\ b.lease = Lease(f)
    /\ b.interval > 0
    /\ ~ProvidersRefused(f)
    /\ Validate(f, b.providers)

LEMMA BuildIs ==
    ASSUME NEW f \in Flags, NEW b, b = BuildOptions(f)
    PROVE  b.accepted \in BOOLEAN /\ (b.accepted => AcceptedAs(b, f))
<1> DEFINE ps == ResolveProviders(f)
           refused == f.interval <= 0 \/ ProvidersRefused(f) \/ ~Validate(f, ps) \/ f.leaderElectionID = ""
<1>1. f.interval \in 0..2
  BY DEF Flags
<1>2. CASE refused
  BY <1>2 DEF BuildOptions, Failed
<1>3. CASE ~refused
  <2>1. b = [accepted |-> TRUE, providers |-> ps, prefix |-> f.labelPrefix,
             managedBy |-> f.managedBy, target |-> f.targetNamespace, dryRun |-> f.dryRun,
             interval |-> f.interval, demotedTTL |-> f.demotedTTL,
             execCredentials |-> f.execCredentials,
             elect |-> Elect(f), lease |-> Lease(f), warnings |-> Warnings(f, ps)]
    BY <1>3 DEF BuildOptions
  <2>2. f.interval > 0 /\ ~ProvidersRefused(f) /\ Validate(f, ps)
    <3>1. ~(f.interval <= 0) /\ ~ProvidersRefused(f) /\ Validate(f, ps)
      BY <1>3, Zenon
    <3>2. f.interval > 0
      BY <1>1, <3>1
    <3> QED BY <3>1, <3>2
  <2> HIDE DEF refused
  <2>3. /\ b.accepted = TRUE /\ b.providers = ps /\ b.prefix = f.labelPrefix
        /\ b.managedBy = f.managedBy /\ b.target = f.targetNamespace
        /\ b.interval = f.interval /\ b.demotedTTL = f.demotedTTL
        /\ b.elect = Elect(f) /\ b.lease = Lease(f)
    BY <2>1
  <2> QED BY <2>2, <2>3 DEF AcceptedAs
<1> QED BY <1>2, <1>3

(* Providers accepted have keys to look for, none of them twice.            *)
LEMMA ProviderGranted ==
    ASSUME NEW p \in Provider, ProviderValid(p)
    PROVE  /\ p.pattern = "glob"
           /\ {p.keys[k] : k \in DOMAIN p.keys} \in (SUBSET {"key", "more"}) \ {{}}
           /\ Cardinality({p.keys[k] : k \in DOMAIN p.keys}) = Len(p.keys)
<1>0. PICK keys, n : keys = p.keys /\ n = Len(keys)
  OBVIOUS
<1>1. p.pattern \in Glob /\ keys \in Seq(KeyNames)
  BY <1>0 DEF Provider, KeyNames
<1>2. p.pattern = "glob" /\ keys # <<>> /\ "" \notin {keys[i] : i \in DOMAIN keys} /\ NoRepeat(keys)
  BY <1>0, <1>1 DEF ProviderValid, ProviderValidWithRepeats, Glob
<1>3. n \in Nat /\ n # 0 /\ DOMAIN keys = 1..n /\ keys = [i \in 1..n |-> keys[i]]
  <2>1. n \in Nat /\ DOMAIN keys = 1..n /\ keys = [i \in 1..n |-> keys[i]]
    BY <1>0, <1>1
  <2>2. n # 0
    <3>1. keys \in Seq(KeyNames) /\ keys # <<>>
      BY <1>1, <1>2
    <3> QED BY <1>0, <3>1
  <2> QED BY <2>1, <2>2
<1>4. \A i \in DOMAIN keys : keys[i] \in {"key", "more"}
  <2>1. \A i \in DOMAIN keys : keys[i] \in KeyNames
    BY <1>1
  <2>2. \A i \in DOMAIN keys : keys[i] # ""
    BY <1>2
  <2> QED BY <2>1, <2>2 DEF KeyNames
<1>5. 1 \in DOMAIN keys
  BY <1>3
<1>6. {keys[k] : k \in DOMAIN keys} \in (SUBSET {"key", "more"}) \ {{}}
  BY <1>4, <1>5
<1>7. Cardinality({keys[k] : k \in DOMAIN keys}) = n
  BY <1>2, <1>3, Distinct
<1> QED BY <1>0, <1>2, <1>6, <1>7

LEMMA Granted ==
    ASSUME NEW f \in Flags, NEW b, AcceptedAs(b, f)
    PROVE  /\ b.interval > 0
           /\ b.demotedTTL >= 0
           /\ b.providers # <<>>
           /\ \A i \in DOMAIN b.providers : b.providers[i] \in Provider /\ ProviderValid(b.providers[i])
           /\ Cardinality({b.providers[i].name : i \in DOMAIN b.providers}) = Len(b.providers)
<1> DEFINE ps == b.providers
           n == Len(ps)
           names == [i \in DOMAIN ps |-> ps[i].name]
<1>1. ps \in Seq(Provider) /\ ps # <<>>
  BY ResolvedIs DEF AcceptedAs
<1>2. Validate(f, ps) /\ b.interval > 0 /\ b.demotedTTL = f.demotedTTL
  BY DEF AcceptedAs
<1>3. /\ \A i \in DOMAIN ps : ProviderValid(ps[i])
      /\ NoRepeat(names)
      /\ f.demotedTTL >= 0
  BY <1>2 DEF Validate
<1> HIDE DEF ps
<1>4. n \in Nat /\ DOMAIN ps = 1..n /\ \A i \in DOMAIN ps : ps[i] \in Provider
  BY <1>1
<1> HIDE DEF n
<1>5. names = [i \in 1..n |-> names[i]]
  BY <1>4
<1>6. {names[i] : i \in 1..n} = {ps[i].name : i \in DOMAIN ps}
  BY <1>4
<1> HIDE DEF names
<1>7. Cardinality({names[i] : i \in 1..n}) = n
  BY <1>3, <1>4, <1>5, Distinct
<1> QED BY <1>1, <1>2, <1>3, <1>4, <1>6, <1>7 DEF ps, n

(* A label prefix accepted is a domain that is not ArgoCD's, and a slash.   *)
LEMMA Bounded ==
    ASSUME NEW f \in Flags, NEW b, AcceptedAs(b, f)
    PROVE  /\ \A name \in {"secret-type", "refresh"} : ~Reaches(b.prefix, ArgoDomain, name)
           /\ \E domain \in Parts \ {"", "a b"} : b.prefix = <<domain, "">>
<1>0. PICK x : x = f.labelPrefix
  OBVIOUS
<1>1. x \in Seq(Parts) /\ b.prefix = x
  BY <1>0 DEF Flags, AcceptedAs
<1>2. ~CoversArgoDomain(x) /\ EndsInSlash(x) /\ Qualified(x)
  BY <1>0 DEF AcceptedAs, Validate, PrefixValid
<1>3. Len(x) = 2 /\ x[2] = "" /\ x[1] \in Parts \ {"", "a b"}
  <2>1. Len(x) \in Nat /\ \A i \in 1..Len(x) : x[i] \in Parts
    BY <1>1
  <2>2. Len(x) = 2
    <3>1. PICK n \in Nat : n = Len(x)
      BY <2>1
    <3>2. n > 1 /\ n <= 2
      BY <1>2, <3>1 DEF EndsInSlash, Qualified
    <3>3. n = 2
      BY <3>2
    <3> QED BY <3>1, <3>3
  <2>3. x[2] = "" /\ x[1] \notin {"", "a b"}
    BY <1>2, <2>2 DEF EndsInSlash, Qualified
  <2>4. 1 \in 1..Len(x)
    BY <2>2
  <2> QED BY <2>1, <2>2, <2>3, <2>4
<1>4. PICK d \in Parts \ {"", "a b"} : d = x[1]
  BY <1>3
<1>5. x = <<d, "">>
  BY <1>1, <1>3, <1>4, Pair
<1>6. d # ArgoDomain
  BY <1>2, <1>5 DEF CoversArgoDomain
<1>7. ASSUME NEW name \in {"secret-type", "refresh"}
      PROVE  ~Reaches(x, ArgoDomain, name)
  <2>1. name # "" /\ <<d, "">> # <<"">> /\ <<d, "">> # <<"argo">> /\ Len(<<d, "">>) = 2
    OBVIOUS
  <2>2. \A e, g : <<d, "">> = <<e, g>> => e = d /\ g = ""
    OBVIOUS
  <2> QED BY <1>5, <1>6, <2>1, <2>2 DEF Reaches
<1> QED BY <1>1, <1>5, <1>7

-----------------------------------------------------------------------------
(* The instances.                                                          *)

Running == {"sweeping", "waiting", "working"}

(* The options are those of the flags, and the mode is theirs.              *)
Configured ==
    /\ flags \in Deployments
    /\ mode \in [Instances -> Modes]
    /\ options = [p \in Instances |-> IF mode[p] = "down" THEN None ELSE BuildOptions(flags[p])]
    /\ \A p \in Instances :
           /\ mode[p] \in Running => options[p].accepted
           /\ mode[p] = "failed" => ~options[p].accepted
           /\ mode[p] \in {"waiting", "working"} => ~flags[p].once
           /\ mode[p] = "waiting" => options[p].elect

Leads(p) == mode[p] = "working" /\ options[p].elect

(* What holders says of an instance that holds its lease.                   *)
Deed(p) == [lease |-> <<flags[p].targetNamespace, Lease(flags[p])>>, by |-> p]

(* Who works under a lease holds it.  What is held is the lease of an       *)
(* instance that may elect, which works under it or has died, and nobody    *)
(* else holds the same.                                                     *)
Held ==
    /\ \A p \in Instances : Leads(p) => Deed(p) \in holders
    /\ \A h \in holders : \E p \in Instances : h = Deed(p) /\ Elect(flags[p]) /\ ~flags[p].once
    /\ \A p, q \in Instances :
           Deed(p) \in holders /\ Deed(q) \in holders /\ Deed(p).lease = Deed(q).lease => p = q

OInv == Configured /\ Held

LEMMA FlagsAre == ASSUME Configured PROVE \A p \in Instances : flags[p] \in Flags
BY FlagsAssumption DEF Configured

LEMMA OInit == Init => OInv
<1> SUFFICES ASSUME Init PROVE OInv
  OBVIOUS
<1>1. \A p \in Instances : mode[p] = "down" /\ options[p] = None
  BY DEF Init
<1>2. Configured
  BY <1>1 DEF Init, Configured, Modes, Running
<1>3. Held
  BY <1>1 DEF Init, Held, Leads
<1> QED BY <1>2, <1>3 DEF OInv

LEMMA RunInv ==
    ASSUME OInv, NEW p \in Instances, Run(p)
    PROVE  OInv'
<1> DEFINE b == BuildOptions(flags[p])
<1>1. /\ mode[p] = "down" /\ flags' = flags /\ holders' = holders
      /\ options' = [options EXCEPT ![p] = b]
  BY DEF Run
<1>2. Configured /\ Held
  BY DEF OInv
<1>3. b.accepted \in BOOLEAN /\ (b.accepted => b.elect = Elect(flags[p]))
  BY <1>2, FlagsAre, BuildIs DEF AcceptedAs
<1> HIDE DEF b
<1>4. options'[p] = b /\ \A q \in Instances : q # p => options'[q] = options[q]
  BY <1>1, <1>2 DEF Configured
<1>5. PICK m \in {"failed", "sweeping", "waiting", "working"} :
          /\ mode' = [mode EXCEPT ![p] = m]
          /\ m = "failed" <=> ~b.accepted
          /\ m = "sweeping" <=> b.accepted /\ flags[p].once
          /\ m = "waiting" <=> b.accepted /\ ~flags[p].once /\ b.elect
  <2>1. mode' = [mode EXCEPT ![p] =
                    CASE ~b.accepted                                -> "failed"
                      [] b.accepted /\ flags[p].once                -> "sweeping"
                      [] b.accepted /\ ~flags[p].once /\ b.elect    -> "waiting"
                      [] OTHER                                      -> "working"]
    BY <1>4 DEF Run
  <2> QED BY <2>1
<1>6. mode'[p] = m /\ \A q \in Instances : q # p => mode'[q] = mode[q]
  BY <1>2, <1>5 DEF Configured
<1>7. Configured'
  <2>1. mode' \in [Instances -> Modes]
    BY <1>2, <1>5 DEF Configured, Modes
  <2>2. options' = [q \in Instances |-> IF mode'[q] = "down" THEN None ELSE BuildOptions(flags'[q])]
    <3>1. \A q \in Instances : options'[q] = IF mode'[q] = "down" THEN None ELSE BuildOptions(flags'[q])
      BY <1>1, <1>2, <1>4, <1>5, <1>6 DEF Configured, b
    <3>2. options' = [q \in Instances |-> options'[q]]
      BY <1>1, <1>2 DEF Configured
    <3> QED BY <3>1, <3>2
  <2>3. ASSUME NEW q \in Instances
        PROVE  /\ mode'[q] \in Running => options'[q].accepted
               /\ mode'[q] = "failed" => ~options'[q].accepted
               /\ mode'[q] \in {"waiting", "working"} => ~flags'[q].once
               /\ mode'[q] = "waiting" => options'[q].elect
    <3>1. CASE q = p
      BY <1>1, <1>3, <1>4, <1>5, <1>6, <3>1 DEF Running
    <3>2. CASE q # p
      BY <1>1, <1>2, <1>4, <1>6, <3>2 DEF Configured
    <3> QED BY <3>1, <3>2
  <2> QED BY <1>1, <1>2, <2>1, <2>2, <2>3 DEF Configured
<1>8. Held'
  <2>1. ~(m = "working" /\ b.elect)
    BY <1>5
  <2>2. \A q \in Instances : Leads(q)' <=> Leads(q)
    BY <1>1, <1>4, <1>6, <2>1 DEF Leads
  <2> QED BY <1>1, <1>2, <2>2 DEF Held, Deed
<1> QED BY <1>7, <1>8 DEF OInv

LEMMA AcquireInv ==
    ASSUME OInv, NEW p \in Instances, Acquire(p)
    PROVE  OInv'
<1>1. Configured /\ Held
  BY DEF OInv
<1>2. mode[p] = "waiting" /\ flags' = flags /\ options' = options
  BY DEF Acquire
<1>3. /\ options[p].elect /\ AcceptedAs(options[p], flags[p])
      /\ ~flags[p].once
  <2>1. options[p] = BuildOptions(flags[p]) /\ options[p].accepted /\ options[p].elect
    BY <1>1, <1>2 DEF Configured, Running
  <2>2. PICK b : b = BuildOptions(flags[p])
    OBVIOUS
  <2>3. b.accepted => AcceptedAs(b, flags[p])
    BY <1>1, <2>2, FlagsAre, BuildIs
  <2> QED BY <1>1, <1>2, <2>1, <2>2, <2>3 DEF Configured
<1>4. /\ Deed(p).lease \notin {h.lease : h \in holders}
      /\ holders' = holders \cup {Deed(p)}
      /\ mode' = [mode EXCEPT ![p] = "working"]
  <2>1. <<options[p].target, options[p].lease>> = <<flags[p].targetNamespace, Lease(flags[p])>>
    BY <1>3 DEF AcceptedAs
  <2> QED BY <2>1 DEF Acquire, Deed
<1>5. mode'[p] = "working" /\ \A q \in Instances : q # p => mode'[q] = mode[q]
  BY <1>1, <1>4 DEF Configured
<1>6. Configured'
  <2>1. mode' \in [Instances -> Modes]
    BY <1>1, <1>4 DEF Configured, Modes
  <2>2. options' = [q \in Instances |-> IF mode'[q] = "down" THEN None ELSE BuildOptions(flags'[q])]
    BY <1>1, <1>2, <1>5 DEF Configured
  <2>3. ASSUME NEW q \in Instances
        PROVE  /\ mode'[q] \in Running => options'[q].accepted
               /\ mode'[q] = "failed" => ~options'[q].accepted
               /\ mode'[q] \in {"waiting", "working"} => ~flags'[q].once
               /\ mode'[q] = "waiting" => options'[q].elect
    BY <1>1, <1>2, <1>5 DEF Configured, Running
  <2> QED BY <1>1, <1>2, <2>1, <2>2, <2>3 DEF Configured
<1>7. Held'
  <2>1. \A q \in Instances : Deed(q)' = Deed(q)
    BY <1>2 DEF Deed
  <2>2. \A q \in Instances : Leads(q)' => Leads(q) \/ q = p
    BY <1>2, <1>5 DEF Leads
  <2>3. Elect(flags[p])
    BY <1>3 DEF AcceptedAs
  <2>4. \A q \in Instances : Deed(q) \in holders => Deed(q).lease # Deed(p).lease
    BY <1>4
  <2>5. \A q \in Instances : Deed(q).by = q
    BY DEF Deed
  <2>6. \A q \in Instances : Leads(q)' => Deed(q)' \in holders'
    BY <1>1, <1>4, <2>1, <2>2 DEF Held
  <2>7. ASSUME NEW h \in holders'
        PROVE  \E q \in Instances : h = Deed(q)' /\ Elect(flags'[q]) /\ ~flags'[q].once
    BY <1>1, <1>2, <1>3, <1>4, <2>1, <2>3 DEF Held
  <2>8. ASSUME NEW q \in Instances, NEW r \in Instances,
               Deed(q) \in holders', Deed(r) \in holders', Deed(q).lease = Deed(r).lease
        PROVE  q = r
    <3>1. (Deed(q) \in holders \/ q = p) /\ (Deed(r) \in holders \/ r = p)
      BY <1>4, <2>5, <2>8
    <3> QED BY <1>1, <2>4, <2>8, <3>1 DEF Held
  <2> QED BY <2>1, <2>6, <2>7, <2>8 DEF Held
<1> QED BY <1>6, <1>7 DEF OInv

(* Who leaves a lease behind, or gives it up, does not work under it.       *)
LEMMA LeaseLeft ==
    ASSUME Held, NEW p \in Instances, flags' = flags,
           holders' = holders \/ holders' = holders \ Holding(p),
           \A q \in Instances : Leads(q)' => Leads(q) /\ q # p
    PROVE  Held'
<1>1. \A q \in Instances : Deed(q)' = Deed(q) /\ Deed(q).by = q
  BY DEF Deed
<1>2. \A q \in Instances : q # p => Deed(q) \notin Holding(p)
  BY <1>1 DEF Holding
<1>3. holders' \subseteq holders
  OBVIOUS
<1>4. \A q \in Instances : Leads(q)' => Deed(q)' \in holders'
  BY <1>1, <1>2 DEF Held
<1>5. \A h \in holders' : \E q \in Instances : h = Deed(q)' /\ Elect(flags'[q]) /\ ~flags'[q].once
  BY <1>1, <1>3 DEF Held
<1>6. \A q, r \in Instances :
          Deed(q)' \in holders' /\ Deed(r)' \in holders' /\ Deed(q)'.lease = Deed(r)'.lease => q = r
  BY <1>1, <1>3 DEF Held
<1> QED BY <1>4, <1>5, <1>6 DEF Held

LEMMA LeaveInv ==
    ASSUME OInv, NEW p \in Instances, Stop(p) \/ Die(p)
    PROVE  OInv'
<1>1. /\ mode[p] \in Running /\ flags' = flags
      /\ options' = [options EXCEPT ![p] = None]
      /\ holders' = holders \/ holders' = holders \ Holding(p)
      /\ mode' = [mode EXCEPT ![p] = "down"]
  BY DEF Stop, Die, Leave, Running
<1>2. Configured /\ Held
  BY DEF OInv
<1>3. /\ mode'[p] = "down" /\ options'[p] = None
      /\ \A q \in Instances : q # p => mode'[q] = mode[q] /\ options'[q] = options[q]
  BY <1>1, <1>2 DEF Configured
<1>4. Configured'
  <2>1. mode' \in [Instances -> Modes]
    BY <1>1, <1>2 DEF Configured, Modes
  <2>2. options' = [q \in Instances |-> IF mode'[q] = "down" THEN None ELSE BuildOptions(flags'[q])]
    <3>1. \A q \in Instances : options'[q] = IF mode'[q] = "down" THEN None ELSE BuildOptions(flags'[q])
      BY <1>1, <1>2, <1>3 DEF Configured
    <3>2. options' = [q \in Instances |-> options'[q]]
      BY <1>1, <1>2 DEF Configured
    <3> QED BY <3>1, <3>2
  <2>3. ASSUME NEW q \in Instances
        PROVE  /\ mode'[q] \in Running => options'[q].accepted
               /\ mode'[q] = "failed" => ~options'[q].accepted
               /\ mode'[q] \in {"waiting", "working"} => ~flags'[q].once
               /\ mode'[q] = "waiting" => options'[q].elect
    BY <1>1, <1>2, <1>3 DEF Configured, Running
  <2> QED BY <1>1, <1>2, <2>1, <2>2, <2>3 DEF Configured
<1>5. Held'
  <2>1. \A q \in Instances : Leads(q)' => Leads(q) /\ q # p
    BY <1>3 DEF Leads
  <2> QED BY <1>1, <1>2, <2>1, LeaseLeft
<1> QED BY <1>4, <1>5 DEF OInv

LEMMA LapseInv ==
    ASSUME OInv, NEW p \in Instances, Lapse(p)
    PROVE  OInv'
<1>1. /\ mode[p] # "working" /\ flags' = flags /\ options' = options /\ mode' = mode
      /\ holders' = holders \ Holding(p)
  BY DEF Lapse
<1>2. Held'
  <2>1. \A q \in Instances : Leads(q)' => Leads(q) /\ q # p
    BY <1>1 DEF Leads
  <2> QED BY <1>1, <2>1, LeaseLeft DEF OInv
<1> QED BY <1>1, <1>2 DEF OInv, Configured

LEMMA OStep == OInv /\ [Next]_vars => OInv'
<1> SUFFICES ASSUME OInv, [Next]_vars PROVE OInv'
  OBVIOUS
<1>1. CASE Next
  BY <1>1, RunInv, AcquireInv, LeaveInv, LapseInv DEF Next
<1>2. CASE UNCHANGED vars
  BY <1>2 DEF vars, OInv, Configured, Held, Leads, Deed
<1> QED BY <1>1, <1>2

LEMMA AcceptedMode ==
    ASSUME OInv
    PROVE  \A p \in Instances :
               /\ options[p] = None <=> mode[p] = "down"
               /\ Accepted(p) <=> mode[p] \in Running
               /\ Accepted(p) => AcceptedAs(options[p], flags[p])
<1>1. Configured
  BY DEF OInv
<1> SUFFICES ASSUME NEW p \in Instances
             PROVE  /\ options[p] = None <=> mode[p] = "down"
                    /\ Accepted(p) <=> mode[p] \in Running
                    /\ Accepted(p) => AcceptedAs(options[p], flags[p])
  OBVIOUS
<1>2. PICK b : b = BuildOptions(flags[p])
  OBVIOUS
<1>3. b # None /\ b.accepted \in BOOLEAN /\ (b.accepted => AcceptedAs(b, flags[p]))
  BY <1>1, <1>2, FlagsAre, BuildIs, NoneAssumption DEF Configured
<1>4. options[p] = IF mode[p] = "down" THEN None ELSE b
  BY <1>1, <1>2 DEF Configured
<1>5. /\ mode[p] \in {"down", "failed", "sweeping", "waiting", "working"}
      /\ mode[p] \in Running => options[p].accepted
      /\ mode[p] = "failed" => ~options[p].accepted
  BY <1>1 DEF Configured, Modes
<1> QED BY <1>3, <1>4, <1>5 DEF Accepted, Running

LEMMA HoldingIs ==
    ASSUME OInv, NEW p \in Instances
    PROVE  /\ Holding(p) = IF Deed(p) \in holders THEN {Deed(p)} ELSE {}
           /\ Holding(p) # {} => Elect(flags[p]) /\ ~flags[p].once
           /\ Leads(p) => Deed(p) \in holders
<1>1. \A h \in holders : \E q \in Instances : h = Deed(q) /\ Elect(flags[q]) /\ ~flags[q].once
  BY DEF OInv, Held
<1>2. \A q \in Instances : Deed(q).by = q
  BY DEF Deed
<1>3. \A h \in holders : h.by = p => h = Deed(p) /\ Elect(flags[p]) /\ ~flags[p].once
  BY <1>1, <1>2
<1> QED BY <1>2, <1>3 DEF Holding, OInv, Held

LEMMA OInvariance == Spec => []OInv
BY OInit, OStep, PTL DEF Spec

(* An instance is down exactly when it has no options, at work in some way  *)
(* exactly when they were accepted, and holds a lease when it works under   *)
(* one, never two (RunE, managerOptions).                                   *)
THEOREM OptionsTyped == Spec => []TypeOK
<1>1. OInv => TypeOK
  <2> SUFFICES ASSUME OInv PROVE TypeOK
    OBVIOUS
  <2>1. mode \in [Instances -> Modes]
    BY DEF OInv, Configured
  <2>2. ASSUME NEW p \in Instances
        PROVE  Cardinality(Holding(p)) \in
                   IF mode[p] = "working" /\ options[p].elect THEN {1} ELSE {0, 1}
    <3>1. Cardinality({Deed(p)}) = 1 /\ Cardinality({}) = 0
      BY FS_Singleton, FS_EmptySet
    <3> QED BY <3>1, HoldingIs DEF Leads
  <2> QED BY <2>1, <2>2, AcceptedMode DEF TypeOK, Running
<1> QED BY <1>1, OInvariance, PTL

(* Whatever an instance is started with, what buildOptions accepts of it is *)
(* what discovery, reconciliation and demotion take for granted.            *)
THEOREM AcceptedIsUsable == Spec => []TakenForGranted
<1> DEFINE Usable(q) == /\ q.pattern = "glob"
                        /\ {q.keys[k] : k \in DOMAIN q.keys} \in (SUBSET {"key", "more"}) \ {{}}
                        /\ Cardinality({q.keys[k] : k \in DOMAIN q.keys}) = Len(q.keys)
<1>1. OInv => TakenForGranted
  <2> SUFFICES ASSUME OInv
               PROVE  \A p \in Instances : Accepted(p) =>
                          /\ options[p].interval > 0
                          /\ options[p].demotedTTL >= 0
                          /\ options[p].providers # <<>>
                          /\ \A i \in DOMAIN options[p].providers :
                                 /\ Usable(options[p].providers[i])
                                 /\ Cardinality({options[p].providers[j].name : j \in DOMAIN options[p].providers})
                                       = Len(options[p].providers)
    BY Zenon DEF TakenForGranted
  <2> TAKE p \in Instances
  <2> HAVE Accepted(p)
  <2>1. flags[p] \in Flags /\ AcceptedAs(options[p], flags[p])
    BY AcceptedMode, FlagsAre DEF OInv
  <2>2. PICK b : b = options[p]
    OBVIOUS
  <2>3. /\ b.interval > 0 /\ b.demotedTTL >= 0 /\ b.providers # <<>>
        /\ \A i \in DOMAIN b.providers : b.providers[i] \in Provider /\ ProviderValid(b.providers[i])
        /\ Cardinality({b.providers[i].name : i \in DOMAIN b.providers}) = Len(b.providers)
    BY <2>1, <2>2, Granted
  <2>4. \A i \in DOMAIN b.providers : Usable(b.providers[i])
    BY <2>3, ProviderGranted
  <2> HIDE DEF Usable
  <2> QED BY <2>2, <2>3, <2>4
<1> QED BY <1>1, OInvariance, PTL

(* With a label prefix that Validate accepts, no key of ArgoCD's domain is  *)
(* one of ours, and all of ours have a domain.                              *)
THEOREM PrefixIsBounded == Spec => []Boundary
<1>1. OInv => Boundary
  <2> SUFFICES ASSUME OInv, NEW p \in Instances, Accepted(p)
               PROVE  /\ \A name \in {"secret-type", "refresh"} :
                             ~Reaches(options[p].prefix, ArgoDomain, name)
                      /\ \E domain \in Parts \ {"", "a b"} : options[p].prefix = <<domain, "">>
    BY DEF Boundary
  <2>1. flags[p] \in Flags /\ AcceptedAs(options[p], flags[p])
    BY AcceptedMode, FlagsAre DEF OInv
  <2> QED BY <2>1, Bounded
<1> QED BY <1>1, OInvariance, PTL

(* The providers in force have the names that were asked for, in order, and *)
(* --provider is never mixed with the deprecated flags (resolveProviders).  *)
THEOREM ProvidersAskedFor == Spec => []AsAskedFor
<1>1. OInv => AsAskedFor
  <2> SUFFICES ASSUME OInv, NEW p \in Instances, Accepted(p), NEW f, f = flags[p],
                      NEW ps, ps = options[p].providers
               PROVE  /\ [i \in DOMAIN ps |-> ps[i].name] = AskedFor(f)
                      /\ f.providers # <<>> => {f.secretNamePattern, f.secretKey} = {None}
    BY DEF AsAskedFor, AskedFor
  <2>1. f \in Flags /\ AcceptedAs(options[p], f)
    BY AcceptedMode, FlagsAre DEF OInv
  <2>2. ps = ResolveProviders(f) /\ ~ProvidersRefused(f)
    BY <2>1 DEF AcceptedAs
  <2> QED BY <2>1, <2>2, ResolvedIs
<1> QED BY <1>1, OInvariance, PTL

(* However many instances there are and however they stop, die and start    *)
(* again, two that would fight for the same Secrets derive one lease, so if *)
(* that lease does not lapse under its holder they never work at once       *)
(* (LeaderElectionID).                                                      *)
THEOREM OneLeads == Spec => []OneAtWork
<1>1. OInv => OneAtWork
  <2> SUFFICES ASSUME OInv, NEW p \in Instances, NEW q \in Instances,
                      p # q, Derives(p), Derives(q), Fight(p, q),
                      mode[p] = "working", mode[q] = "working"
               PROVE  FALSE
    BY DEF OneAtWork
  <2>1. /\ Leads(p) /\ Leads(q) /\ Accepted(p) /\ Accepted(q)
        /\ flags[p].leaderElectionID = None /\ flags[q].leaderElectionID = None
    BY DEF Derives, Leads
  <2>2. /\ options[p].target = flags[p].targetNamespace /\ options[q].target = flags[q].targetNamespace
        /\ options[p].prefix = flags[p].labelPrefix /\ options[q].prefix = flags[q].labelPrefix
        /\ options[p].managedBy = flags[p].managedBy /\ options[q].managedBy = flags[q].managedBy
    BY <2>1, AcceptedMode DEF AcceptedAs
  <2>3. Deed(p).lease = Deed(q).lease
    BY <2>1, <2>2 DEF Fight, Deed, Lease, LeaderElectionID
  <2>4. Deed(p) \in holders /\ Deed(q) \in holders
    BY <2>1, HoldingIs
  <2> QED BY <2>3, <2>4 DEF OInv, Held
<1> QED BY <1>1, OInvariance, PTL

(* Neither --dry-run nor --once ever holds a lease or leaves one behind, so *)
(* none of them keeps the running instance from its work (buildOptions,     *)
(* RunE).                                                                   *)
THEOREM PreFlight == Spec => []PreFlightHoldsNothing
<1>1. OInv => PreFlightHoldsNothing
  <2> SUFFICES ASSUME OInv, NEW p \in Instances, flags[p].dryRun \/ flags[p].once
               PROVE  Holding(p) = {}
    BY DEF PreFlightHoldsNothing
  <2> QED BY HoldingIs DEF Elect
<1> QED BY <1>1, OInvariance, PTL

=============================================================================
