-------------------------------- MODULE Audit --------------------------------
(***************************************************************************)
(* The audit (registrar.go, AuditUnrouted; expiry.go; metrics.go): every   *)
(* interval one list of the owned Secrets is classified by what ArgoCD     *)
(* holds, and every series of the gauge is set, one after the other, while *)
(* passes rewrite the Secrets, people edit them, certificates run out and  *)
(* Prometheus scrapes, reading the series one after the other as well,     *)
(* with no lock between the two.                                           *)
(***************************************************************************)
EXTENDS Naturals, Sequences, FiniteSets, FiniteSetsExt

CONSTANTS
    Secrets,           \* names of owned cluster Secrets
    Written,           \* those of them that change, but for time going by
    Configs,           \* what their config key can hold
    Kinds,             \* which of it occurs in a behaviour, and how many changes
    Lifetime,          \* a certificate written now runs out so much later
    Day, Week, Month,  \* 24 hours, 7 and 30 days
    MaxTime,           \* bound on the clock
    None               \* no config, no certificate, no audit yet

(* A config that does not parse, or one with or without a plugin, a token,  *)
(* and a certificate; the token stands for all that is no certificate.      *)
Config == [readable : BOOLEAN, exec : BOOLEAN, cert : {None, "dated", "corrupt"}]

ASSUME ConfigsAssumption ==
    /\ Configs \subseteq Config
    /\ [readable |-> TRUE, exec |-> FALSE, cert |-> "dated"] \in Configs
    /\ \A k \in Kinds : k.configs \subseteq Configs /\ k.changes \in Nat
ASSUME TimesAssumption == /\ Lifetime \in Nat \ {0} /\ MaxTime \in Nat
                          /\ Day \in Nat \ {0} /\ Week \in Nat /\ Month \in Nat
                          /\ Day < Week /\ Week < Month
ASSUME SecretsAssumption == IsFiniteSet(Secrets) /\ Written \subseteq Secrets

VARIABLES
    secrets,      \* name -> Secret
    now,
    gauge,        \* series -> its value; unrouted is the series of its own gauge
    stood,        \* history: what stood in the gauges at the last list
    list,         \* what the running audit, or the last one, has listed, and when
    before,       \* what the one before it had
    at,           \* the series the running audit sets next; 0 between audits
    configs,      \* what of Configs occurs
    changes       \* changes and restarts there may still be

vars == <<secrets, now, gauge, stood, list, before, at, configs, changes>>

(* The series in the order in which they are set.                           *)
States == <<"active", "demoted">>
Buckets == <<"expired", "lt_24h", "lt_7d", "lt_30d", "ok",
             "token", "exec", "unreadable", "absent">>
Unrouted == <<"unrouted", "">>
Order ==
    [n \in 1..(2 * Len(Buckets) + 1) |->
        IF n > 2 * Len(Buckets) THEN Unrouted
        ELSE <<States[1 + ((n - 1) \div Len(Buckets))], Buckets[1 + ((n - 1) % Len(Buckets))]>>]
Series == {Order[n] : n \in DOMAIN Order}

NoSecret == [there |-> FALSE]
Secret == [there : {TRUE}, source : BOOLEAN, demoted : BOOLEAN,
           config : Configs \cup {None}, notAfter : 0..MaxTime + Lifetime]

-----------------------------------------------------------------------------
(* credentialExpiry.                                                       *)

(* The bucket of a certificate that has so much, or nothing, left.          *)
BucketRounded(notAfter, time) ==
    CASE notAfter < time                              -> "expired"
      [] time <= notAfter /\ notAfter < time + Day    -> "lt_24h"
      [] time + Day <= notAfter /\ notAfter < time + Week -> "lt_7d"
      [] time + Week <= notAfter /\ notAfter < time + Month -> "lt_30d"
      [] OTHER                                        -> "ok"

Bucket(notAfter, time) ==
    CASE notAfter <= time                             -> "expired"
      [] time < notAfter /\ notAfter < time + Day     -> "lt_24h"
      [] time + Day <= notAfter /\ notAfter < time + Week -> "lt_7d"
      [] time + Week <= notAfter /\ notAfter < time + Month -> "lt_30d"
      [] OTHER                                        -> "ok"

CredentialExpiryOfCert(s, time) ==
    CASE s.config = None                              -> "absent"
      [] s.config # None /\ ~s.config.readable        -> "unreadable"
      [] OTHER ->
            IF s.config.cert = "dated" THEN Bucket(s.notAfter, time)
            ELSE IF s.config.cert = "corrupt" THEN "unreadable"
            ELSE IF s.config.exec THEN "exec" ELSE "token"

CredentialExpiry(s, time) ==
    CASE s.config = None                              -> "absent"
      [] s.config # None /\ ~s.config.readable        -> "unreadable"
      [] OTHER ->
            IF s.config.exec THEN "exec"
            ELSE IF s.config.cert = None THEN "token"
            ELSE IF s.config.cert = "corrupt" THEN "unreadable"
            ELSE Bucket(s.notAfter, time)

StateOf(s) == IF s.demoted THEN "demoted" ELSE "active"

-----------------------------------------------------------------------------
(* AuditUnrouted, the list and every Set a step.                            *)

NoAudit == [secrets |-> [s \in Secrets |-> NoSecret], time |-> 0]

Listed(audit) == {s \in Secrets : audit.secrets[s].there}

(* The Secrets an audit puts in a series.                                   *)
InSeries(audit, series) ==
    {s \in Listed(audit) :
        LET secret == audit.secrets[s]
        IN  IF series = Unrouted THEN ~secret.source
            ELSE series = <<StateOf(secret), CredentialExpiry(secret, audit.time)>>}

Count(series) == Cardinality(InSeries(list, series))

ListResetting ==
    /\ at = 0
    /\ list' = [secrets |-> secrets, time |-> now]
    /\ before' = list
    /\ stood' = gauge
    /\ gauge' = [series \in Series |-> 0]
    /\ at' = 1
    /\ UNCHANGED <<secrets, now, configs, changes>>

ListOnce ==
    /\ at = 0
    /\ list = NoAudit
    /\ list' = [secrets |-> secrets, time |-> now]
    /\ before' = list
    /\ stood' = gauge
    /\ at' = 1
    /\ UNCHANGED <<secrets, now, gauge, configs, changes>>

List ==
    /\ at = 0
    /\ list' = [secrets |-> secrets, time |-> now]
    /\ before' = list
    /\ stood' = gauge
    /\ at' = 1
    /\ UNCHANGED <<secrets, now, gauge, configs, changes>>

ValueOfNonEmpty(series) == IF Count(series) = 0 THEN gauge[series] ELSE Count(series)
ValueOf(series) == Count(series)

Set ==
    /\ at > 0
    /\ gauge' = [gauge EXCEPT ![Order[at]] = ValueOf(Order[at])]
    /\ at' = (at + 1) % (Len(Order) + 1)
    /\ UNCHANGED <<secrets, now, stood, list, before, configs, changes>>

(* init of metrics.go: every series is there from the start, at zero.       *)
Restart ==
    /\ changes > 0
    /\ changes' = changes - 1
    /\ gauge' = [series \in Series |-> 0]
    /\ stood' = gauge'
    /\ list' = NoAudit
    /\ before' = NoAudit
    /\ at' = 0
    /\ UNCHANGED <<secrets, now, configs>>

-----------------------------------------------------------------------------
(* What happens to the Secrets meanwhile.                                  *)

Write(s, secret) ==
    /\ s \in Written
    /\ changes > 0
    /\ secret # secrets[s]
    /\ secrets' = [secrets EXCEPT ![s] = secret]
    /\ changes' = changes - 1
    /\ UNCHANGED <<now, gauge, stood, list, before, at, configs>>

(* A pass registers it, or refreshes its credential.                        *)
Register(s) ==
    \E config \in configs :
        /\ config.readable
        /\ config.cert # "corrupt"
        /\ ~(config.exec /\ config.cert # None)
        /\ Write(s, [there |-> TRUE, source |-> TRUE, demoted |-> FALSE,
                     config |-> config, notAfter |-> now + Lifetime])

Demote(s) == secrets[s].there /\ Write(s, [secrets[s] EXCEPT !.demoted = TRUE])
Remove(s) == secrets[s].there /\ Write(s, NoSecret)

(* A person strips its source-namespace label, or edits its config.         *)
HandEdit(s) ==
    /\ secrets[s].there
    /\ \/ Write(s, [secrets[s] EXCEPT !.source = FALSE])
       \/ \E config \in configs \cup {None} : Write(s, [secrets[s] EXCEPT !.config = config])

Tick ==
    /\ now < MaxTime
    /\ now' = now + 1
    /\ UNCHANGED <<secrets, gauge, stood, list, before, at, configs, changes>>

-----------------------------------------------------------------------------
(* Certificates in place before the start, some of them for a while.        *)
Init ==
    /\ \E end \in [Secrets -> {Lifetime, Lifetime - 1}] :
           /\ \A s \in Written : end[s] = Lifetime
           /\ secrets = [s \in Secrets |->
                  [there |-> TRUE, source |-> TRUE, demoted |-> FALSE,
                   config |-> [readable |-> TRUE, exec |-> FALSE, cert |-> "dated"],
                   notAfter |-> end[s]]]
    /\ now = 0
    /\ gauge = [series \in Series |-> 0]
    /\ stood = gauge
    /\ list = NoAudit
    /\ before = NoAudit
    /\ at = 0
    /\ \E k \in Kinds : configs = k.configs /\ changes = k.changes

Next ==
    \/ List \/ Set \/ Restart \/ Tick
    \/ \E s \in Secrets : Register(s) \/ Demote(s) \/ Remove(s) \/ HandEdit(s)

(* The audit key comes back every interval, and an audit that failed before *)
(* it listed anything is tried again; nobody restarts for ever.             *)
Spec == Init /\ [][Next]_vars
FairSpec == Spec /\ WF_vars(List) /\ WF_vars(Set) /\ WF_vars(Tick)

-----------------------------------------------------------------------------
(* Properties.                                                             *)

TypeOK ==
    /\ secrets \in [Secrets -> Secret \cup {NoSecret}]
    /\ now \in 0..MaxTime
    /\ gauge \in [Series -> 0..Cardinality(Secrets)]
    /\ stood \in [Series -> 0..Cardinality(Secrets)]
    /\ list.secrets \in [Secrets -> Secret \cup {NoSecret}]
    /\ before.secrets \in [Secrets -> Secret \cup {NoSecret}]
    /\ before.time <= list.time \/ list = NoAudit
    /\ at \in 0..Len(Order)
    /\ \E k \in Kinds : configs = k.configs /\ changes \in 0..k.changes

AllStates == {"active", "demoted"}
Dated == <<"expired", "lt_24h", "lt_7d", "lt_30d">>
AtMost(k) == {Dated[n] : n \in 1..k}
Undated == {"ok", "token", "exec", "unreadable", "absent"}

Total(states, buckets) ==
    MapThenSumSet(LAMBDA series : gauge[series], states \X buckets)

(* How ArgoCD authenticates with a config: a plugin goes before everything  *)
(* else in it.                                                              *)
Parses(s) == s.config # None /\ s.config.readable
UsesCert(s) == Parses(s) /\ ~s.config.exec /\ s.config.cert # None

(* Has a certificate that ArgoCD uses less than the k-th limit left?        *)
RunsOut(s, k) ==
    /\ UsesCert(s)
    /\ s.config.cert = "dated"
    /\ CASE k = 1 -> s.notAfter <= list.time
         [] k = 2 -> s.notAfter < list.time + Day
         [] k = 3 -> s.notAfter < list.time + Week
         [] k = 4 -> s.notAfter < list.time + Month

Number(P(_)) == Cardinality({s \in Listed(list) : P(list.secrets[s])})

(* What stands in the gauges after an audit is what it found, nothing of an *)
(* earlier one: every Secret in one series; of each state, by how long the  *)
(* credential that ArgoCD uses still lasts, every sum an alert adds up; and *)
(* the Secrets no key of the controller leads to.                           *)
Exact ==
    (at = 0 /\ list # NoAudit) =>
        /\ Total(AllStates, AtMost(4) \cup Undated) = Cardinality(Listed(list))
        /\ \A st \in AllStates, k \in 1..4 :
               Total({st}, AtMost(k)) =
                   Number(LAMBDA s : s.demoted = (st = "demoted") /\ RunsOut(s, k))
        /\ Total(AllStates, {"exec"}) = Number(LAMBDA s : Parses(s) /\ s.config.exec)
        /\ Total(AllStates, {"absent"}) = Number(LAMBDA s : s.config = None)
        /\ Total(AllStates, {"unreadable"}) =
               Number(LAMBDA s : s.config # None /\
                                 (Parses(s) => UsesCert(s) /\ s.config.cert = "corrupt"))
        /\ gauge[Unrouted] = Number(LAMBDA s : ~s.source)

(* What a scrape can have read of a series that has been read at any moment *)
(* since the last list, or just before it.  A scrape is much shorter than   *)
(* the interval, so it overlaps one audit at most.                          *)
Readings(series) == {stood[series], gauge[series]}

(* However the readings of a scrape fall between the steps of an audit, it  *)
(* shows of each series, and so of each sum an alert adds up, no fewer than *)
(* the Secrets that this audit and the one before it both put there, and no *)
(* more than those that either did: none that stayed where it was is        *)
(* missing, and no bucket shows what neither audit found.  A Secret that    *)
(* moves to another series can be missing from both in that one scrape.     *)
ScrapeBounded ==
    \A series \in Series : \A reading \in Readings(series) :
        /\ reading >= Cardinality(InSeries(before, series) \cap InSeries(list, series))
        /\ reading <= Cardinality(InSeries(before, series) \cup InSeries(list, series))

(* A registration that is no longer refreshed shows in the metrics when its *)
(* certificate has run out, and stays there, whatever happens to the others *)
(* and however often the process restarts.                                  *)
Reported == <>[](gauge[<<"active", "expired">>] >= Cardinality(Secrets \ Written))

=============================================================================
