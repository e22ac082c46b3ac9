----------------------------- MODULE Kubeconfig -----------------------------
(***************************************************************************)
(* What one kubeconfig is turned into (kubeconfig.go): which cluster and   *)
(* which user of it, what is refused, and the configuration ArgoCD gets.   *)
(* It is compared with the connection kubectl would make with the same     *)
(* document.  The plugin of the users that have one is that of Exec.       *)
(***************************************************************************)
EXTENDS Exec

CONSTANT Ranges   \* which documents there are, range by range

(* The address of an API server: the name of its host, a port or none,      *)
(* capitals in it or none, a path or none, and the slashes it ends with.    *)
(* Some names mean, where ArgoCD runs, the cluster that ArgoCD runs in; the *)
(* trailing dot and the address stand for those the code does not list.     *)
OwnNames == {"kubernetes.default", "kubernetes.default.svc",
             "kubernetes.default.svc.cluster.local", "kubernetes.default.svc.", "10.96.0.1"}
Server == [host : {"child.example.com", "kubernetes.default.example.com", "unusable"} \cup OwnNames,
           port : {None, "443", "6443"}, upper : BOOLEAN, path : BOOLEAN, slashes : 0..2]
Proxy == {None, "http", "ftp", "with credentials", "unusable"}

Cluster == [server : Server \cup {None}, ca : {None, "data", "file"}, insecure : BOOLEAN,
            serverName : BOOLEAN, proxy : Proxy]

(* unread: impersonation or basic authentication, which kubeconfigUser has  *)
(* no field for.                                                            *)
User == [id : Nat, cert : BOOLEAN, key : BOOLEAN, token : BOOLEAN, exec : BOOLEAN,
         certFile : BOOLEAN, tokenFile : BOOLEAN, authProvider : BOOLEAN, unread : BOOLEAN]

ASSUME AbsentAssumption ==
    None \notin Nat \cup Server \cup Cluster \cup User \cup {[server |-> None]}

(* A range of documents: as many entries and contexts as these numbers say, *)
(* of these names, with these clusters and users in them; one of these the  *)
(* current context; and where users have a plugin, this one with at most so *)
(* many arguments.  gates are the settings of the gate for plugins.         *)
ASSUME RangesAssumption ==
    \A r \in Ranges :
        /\ r.clusters \subseteq Cluster /\ r.users \subseteq User
        /\ r.entries \subseteq Nat /\ r.contexts \subseteq Nat /\ r.args \in Nat
        /\ None \notin r.names /\ r.current \subseteq r.names \cup {None} /\ r.gates \subseteq BOOLEAN
        /\ r.commands \subseteq Commands /\ r.versions \subseteq Versions
        /\ r.options \subseteq Options /\ r.words \subseteq Words

VARIABLES
    kc,           \* the document
    allowExec,    \* the gate for plugins is open
    parsed        \* what parseKubeconfig returns

vars == <<plugin, credential, kc, allowExec, parsed>>

-----------------------------------------------------------------------------
(* resolve: the cluster and the user the document points at.                *)

(* The first entry of a name.                                               *)
Lookup(entries, name) ==
    LET S == {i \in DOMAIN entries : entries[i].name = name}
    IN  IF S = {} THEN None ELSE entries[CHOOSE i \in S : \A j \in S : i <= j].content

NoPair == [cluster |-> None, user |-> None]

PairOfOneName(context) ==
    LET pair == [cluster |-> Lookup(kc.clusters, context.cluster),
                 user |-> Lookup(kc.users, context.cluster)]
    IN  IF None \in {pair.cluster, pair.user} THEN NoPair ELSE pair

PairOf(context) ==
    LET pair == [cluster |-> Lookup(kc.clusters, context.cluster),
                 user |-> Lookup(kc.users, context.user)]
    IN  IF None \in {pair.cluster, pair.user} THEN NoPair ELSE pair

FirstPair ==
    IF kc.clusters = <<>> \/ kc.users = <<>> THEN NoPair
    ELSE [cluster |-> kc.clusters[1].content, user |-> kc.users[1].content]

CurrentPair ==
    LET S == {i \in DOMAIN kc.contexts : kc.contexts[i].name = kc.current}
    IN  IF kc.current = None \/ S = {} THEN NoPair
        ELSE PairOf(kc.contexts[CHOOSE i \in S : \A j \in S : i <= j])

Resolve ==
    IF Len(kc.clusters) = 1 /\ Len(kc.users) = 1 THEN FirstPair
    ELSE IF kc.clusters = <<>> \/ kc.users = <<>> THEN NoPair
    ELSE CurrentPair

-----------------------------------------------------------------------------
(* parseKubeconfig.                                                        *)

Trim(server) == [server EXCEPT !.slashes = 0]

(* What ArgoCD takes for its own cluster, and the spellings of it that are  *)
(* refused, whatever their capitals.                                        *)
InClusterServer == [host |-> "kubernetes.default.svc", port |-> None, upper |-> FALSE,
                    path |-> FALSE, slashes |-> 0]
InClusterHosts == [host : {"kubernetes.default", "kubernetes.default.svc",
                           "kubernetes.default.svc.cluster.local"},
                   port : {None, "443"}]
IsInClusterServer(server) == [host |-> server.host, port |-> server.port] \in InClusterHosts

ServerRefusedAsSpelled(c) ==
    c.server = None \/ c.server.host = "unusable" \/ c.server = InClusterServer
ServerRefused(c) ==
    \/ c.server = None
    \/ c.server.host = "unusable"
    \/ IsInClusterServer(Trim(c.server))

ProxyRefused(c) ==
    /\ c.proxy # None
    /\ c.proxy # "http" \/ c.insecure

(* Only what is embedded can be carried over; a file that is referenced     *)
(* would have gone before it, or have to be read here.                      *)
FilesRefused(c, u) == c.ca = "file" \/ u.certFile \/ u.tokenFile \/ u.authProvider

Translation == TranslateExec(command, version, args)

(* The credential copied, the plugin the last resort.                       *)
Credential(u) ==
    CASE u.cert /\ u.key -> "pair"
      [] ~(u.cert /\ u.key) /\ u.token -> "token"
      [] ~(u.cert /\ u.key) /\ ~u.token /\ u.exec /\ allowExec /\ Translation # Untranslatable -> "exec"
      [] OTHER -> "refused"

Refused == [server |-> None]

(* The cluster configuration written.  A credential copied is told by whose *)
(* it is; of a plugin there is only the translation, with which ArgoCD      *)
(* authenticates as itself.                                                 *)
WholeConfig(c, u) ==
    LET kind == Credential(u) IN
    [server |-> Trim(c.server), ca |-> c.ca, insecure |-> c.insecure,
     serverName |-> c.serverName, proxy |-> c.proxy,
     certData |-> IF kind = "pair" THEN u.id ELSE None,
     bearerToken |-> IF kind = "token" THEN u.id ELSE None,
     execProvider |-> IF kind = "exec" THEN Translation ELSE None]

ConfigWithToken(c, u) ==
    [WholeConfig(c, u) EXCEPT !.bearerToken = IF u.token THEN u.id ELSE None]
Config(c, u) == WholeConfig(c, u)

(* Nothing before the credential is refused, and there is no other than     *)
(* the plugin.                                                              *)
Reached ==
    LET c == Resolve.cluster
        u == Resolve.user
    IN  /\ Resolve # NoPair
        /\ ~(ServerRefused(c) \/ ProxyRefused(c) \/ FilesRefused(c, u))
        /\ allowExec /\ u.exec /\ ~(u.cert /\ u.key) /\ ~u.token

Parse ==
    LET c == Resolve.cluster
        u == Resolve.user
    IN  IF \/ Resolve = NoPair
           \/ ServerRefused(c)
           \/ ProxyRefused(c)
           \/ FilesRefused(c, u)
           \/ Credential(u) = "refused"
        THEN Refused
        ELSE Config(c, u)

-----------------------------------------------------------------------------
Entries(names, contents, numbers) ==
    UNION {[1..n -> [name : names, content : contents]] : n \in numbers}

Contexts(names, numbers) ==
    UNION {[1..n -> [name : names, cluster : names, user : names]] : n \in numbers}

Args(options, words) ==
    {a \in Arg : a.flag \in options \cup {None} /\ a.value \in words \cup {None}}

Init ==
    /\ \E r \in Ranges :
           /\ kc \in [clusters : Entries(r.names, r.clusters, r.entries),
                      users : Entries(r.names, r.users, r.entries),
                      contexts : Contexts(r.names, r.contexts),
                      current : r.current]
           /\ command \in r.commands
           /\ version \in r.versions
           /\ allowExec \in r.gates
           /\ \E n \in 0..r.args : args \in [1..n -> Args(r.options, r.words)]
    /\ credential = None
    /\ parsed = None

(* The plugin is translated only when it is what the user has.              *)
ParseKubeconfig ==
    /\ parsed = None
    /\ parsed' = Parse
    /\ credential' = IF Reached THEN Translation ELSE None
    /\ UNCHANGED <<plugin, kc, allowExec>>

Next == ParseKubeconfig

Spec == Init /\ [][Next]_vars

-----------------------------------------------------------------------------
(* kubectl and ArgoCD, as far as they matter here.                         *)

Registered == parsed \notin {None, Refused}

(* kubectl does not load a document with two entries of one name, and does  *)
(* not connect with half a key pair.                                        *)
Unambiguous(entries) ==
    \A i, j \in DOMAIN entries : entries[i].name = entries[j].name => i = j

Loads == Unambiguous(kc.clusters) /\ Unambiguous(kc.users) /\ Unambiguous(kc.contexts)

KubectlPairs ==
    {pair \in [cluster : {kc.clusters[i].content : i \in DOMAIN kc.clusters},
               user : {kc.users[i].content : i \in DOMAIN kc.users}] :
        \E x \in DOMAIN kc.contexts, i \in DOMAIN kc.clusters, j \in DOMAIN kc.users :
            /\ kc.contexts[x] = [name |-> kc.current, cluster |-> kc.clusters[i].name,
                                 user |-> kc.users[j].name]
            /\ pair = [cluster |-> kc.clusters[i].content, user |-> kc.users[j].content]
            /\ pair.user.key <=> pair.user.cert \/ pair.user.certFile}

(* What a client of a user shows the API server that authenticates it: a    *)
(* certificate first, then a token; a token file goes before the token, an  *)
(* embedded certificate before a file, static credentials before a plugin.  *)
Shown(u) ==
    IF (u.cert \/ u.certFile) /\ u.key THEN (IF u.cert THEN "pair" ELSE "file")
    ELSE IF u.tokenFile THEN "file"
    ELSE IF u.token THEN "token"
    ELSE IF u.authProvider THEN "auth-provider"
    ELSE IF u.exec THEN "exec"
    ELSE "nothing"

Endpoint(c) ==
    [server |-> Trim(c.server), ca |-> c.ca, insecure |-> c.insecure,
     serverName |-> c.serverName, proxy |-> c.proxy]

(* One address ArgoCD takes for its own cluster, and nothing else in the    *)
(* configuration counts then.                                               *)
ArgoEndpoint ==
    IF parsed.server = InClusterServer THEN None
    ELSE [server |-> parsed.server, ca |-> parsed.ca, insecure |-> parsed.insecure,
          serverName |-> parsed.serverName, proxy |-> parsed.proxy]

(* ArgoCD looks for a plugin first and then ignores the rest.               *)
ArgoShows ==
    CASE parsed.execProvider # None -> [shown |-> "exec", by |-> parsed.execProvider]
      [] parsed.execProvider = None /\ parsed.certData # None ->
            [shown |-> "pair", by |-> parsed.certData]
      [] OTHER -> [shown |-> "token", by |-> parsed.bearerToken]

-----------------------------------------------------------------------------
(* Properties.                                                             *)

(* What is written has its type, and one credential, of a shape that        *)
(* ArgoCD can be given.                                                     *)
TypeOK ==
    /\ KnownShapes
    /\ Registered =>
        LET Ids == Nat \cup {None} IN
        /\ parsed.server \in Server
        /\ parsed \in [server : {parsed.server}, ca : {None, "data"}, insecure : BOOLEAN,
                       serverName : BOOLEAN, proxy : {None, "http"},
                       certData : Ids, bearerToken : Ids,
                       execProvider : Shapes \cup {None}]
        /\ \E one \in {"certData", "bearerToken", "execProvider"} :
               \A field \in {"certData", "bearerToken", "execProvider"} :
                   field = one <=> parsed[field] # None

(* ArgoCD makes the connection kubectl makes with the document's current    *)
(* context: to the same server, and not by mistake to its own, with the     *)
(* same trust, name and proxy; showing what kubectl would show of the same  *)
(* user.  Where kubectl would run a plugin, ArgoCD shows nothing of the     *)
(* document's but its own identity, for what the plugin was translated to   *)
(* (which ReadAsThePluginReads is about).  A user with impersonation or     *)
(* basic authentication is excepted: the code drops both.                   *)
SameConnection ==
    \A pair \in KubectlPairs :
        (Registered /\ Loads /\ ~pair.user.unread) =>
            /\ ArgoEndpoint = Endpoint(pair.cluster)
            /\ Shown(pair.user) \in {"pair", "token", "exec"}
            /\ ArgoShows = [shown |-> Shown(pair.user),
                            by |-> IF Shown(pair.user) = "exec" THEN Translation
                                   ELSE pair.user.id]

(* The comment of resolve: a user's credential is shown to no cluster that  *)
(* the document does not pair it with, whatever the document is; nor is     *)
(* ArgoCD's own, when the user paired with it has no plugin.                *)
NeverMixed ==
    Registered =>
        \/ Len(kc.clusters) = 1 /\ Len(kc.users) = 1
        \/ \E x \in DOMAIN kc.contexts, i \in DOMAIN kc.clusters, j \in DOMAIN kc.users :
               /\ kc.contexts[x].name = kc.current
               /\ kc.contexts[x].cluster = kc.clusters[i].name
               /\ kc.contexts[x].user = kc.users[j].name
               /\ Trim(kc.clusters[i].content.server) = parsed.server
               /\ IF ArgoShows.shown = "exec" THEN kc.users[j].content.exec
                  ELSE kc.users[j].content.id = ArgoShows.by

(* Nothing that would work is refused: an embedded credential of a user the *)
(* document pairs with a cluster of its own, nothing about it by reference; *)
(* a host whose name only resembles that of ArgoCD's cluster included.      *)
UsableRegistered ==
    \A pair \in KubectlPairs :
        (/\ parsed = Refused
         /\ Loads
         /\ pair.cluster.server # None
         /\ pair.cluster.server.host \notin OwnNames \cup {"unusable"}
         /\ pair.cluster.ca # "file"
         /\ pair.cluster.proxy = None)
        =>
        \/ Shown(pair.user) \notin {"pair", "token", "exec"}
        \/ pair.user.certFile \/ pair.user.tokenFile \/ pair.user.authProvider
        \/ Shown(pair.user) = "exec" /\ ~(allowExec /\ Translation # Untranslatable)

=============================================================================
