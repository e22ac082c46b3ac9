------------------------------ MODULE MCOptions ------------------------------
(* Values for model checking Options.                                      *)
EXTENDS Options

Usual == [providers |-> <<>>, secretNamePattern |-> None, secretKey |-> None,
          labelPrefix |-> <<"example.com", "">>, managedBy |-> "m",
          targetNamespace |-> "argocd", interval |-> 1, demotedTTL |-> 0,
          execCredentials |-> FALSE, dryRun |-> FALSE, once |-> FALSE,
          leaderElect |-> TRUE, leaderElectionID |-> None]

(* Any single flag, or a pair that has to be seen together, off the usual.  *)
Custom(names, patterns, keys) ==
    [name : names, pattern : patterns, keys : keys, fourth : {None, "exec", "true"}]

Specs == Custom({"", "mine", "a b"}, Glob, {<<>>, <<"key">>, <<"key", "">>, <<"key", "key">>,
                                            <<"key", "more">>})
           \cup Custom({"k3k", "capa-eks", "mine"}, {None}, {<<>>})

Legacies == {[Usual EXCEPT !.providers = ps, !.secretNamePattern = g, !.secretKey = k] :
                ps \in {<<>>} \cup {<<spec>> : spec \in Specs},
                g \in Glob \cup {None}, k \in {None, "", "key"}}

Lists == {[Usual EXCEPT !.providers = ps, !.execCredentials = e] :
            ps \in [1..2 -> {s \in Specs : s.pattern \in {"glob", None}}], e \in BOOLEAN}

Prefixes == {[Usual EXCEPT !.labelPrefix = prefix, !.leaderElectionID = id] :
                prefix \in UNION {[1..n -> Parts] : n \in 1..3}, id \in {None, "", "given"}}

Times == {[Usual EXCEPT !.interval = i, !.demotedTTL = ttl, !.targetNamespace = ns, !.managedBy = m] :
            i \in 0..2, ttl \in -1..2, ns \in {"", "argocd"}, m \in {"", "m"}}

OneInstance == Legacies \cup Lists \cup Prefixes \cup Times

(* What decides about leases.                                               *)
Releases ==
    {[Usual EXCEPT !.labelPrefix = prefix, !.managedBy = m, !.interval = i, !.dryRun = d,
                   !.once = o, !.leaderElect = l] :
        prefix \in {<<"example.com", "">>, <<"argo", "">>}, m \in {"m", "n"},
        i \in {1, 2}, d \in BOOLEAN, o \in BOOLEAN, l \in BOOLEAN}

(* One instance with anything, beside a sweep as usual; or two that differ  *)
(* in what decides about leases.                                            *)
MCInstances == {"p", "q"}
MCDeployments ==
    {[p |-> f, q |-> [Usual EXCEPT !.once = TRUE]] : f \in OneInstance}
        \cup [MCInstances -> Releases]
=============================================================================
