--------------------------- MODULE KubeconfigProofs ---------------------------
(***************************************************************************)
(* What Kubeconfig guarantees for documents with any number of entries,    *)
(* users and contexts, and plugins with any number of arguments.           *)
(***************************************************************************)
EXTENDS Kubeconfig, LoopFacts

EntryNames == UNION {r.names : r \in Ranges}

Entry(contents) == [name : EntryNames, content : contents]

(* What a document is, and the arguments of its plugin.                     *)
Document ==
    /\ kc.clusters \in Seq(Entry(Cluster))
    /\ kc.users \in Seq(Entry(User))
    /\ kc.contexts \in Seq([name : EntryNames, cluster : EntryNames, user : EntryNames])
    /\ args \in Seq(Arg)

LEMMA ListOf ==
    ASSUME NEW n \in Nat, NEW S, NEW T, S \subseteq T, NEW s, s \in [1..n -> S]
    PROVE  s \in Seq(T)
<1>1. s \in [1..n -> T]
  OBVIOUS
<1> QED BY <1>1

LEMMA Members ==
    ASSUME NEW T, NEW s, s \in Seq(T)
    PROVE  /\ DOMAIN s \subseteq Nat /\ DOMAIN s = 1..Len(s) /\ Len(s) \in Nat
           /\ \A i \in DOMAIN s : s[i] \in T
           /\ Len(s) = 1 => DOMAIN s = {1} /\ s # <<>>
           /\ s # <<>> => \E i \in DOMAIN s : TRUE
<1>1. DOMAIN s = 1..Len(s) /\ Len(s) \in Nat /\ \A i \in 1..Len(s) : s[i] \in T
  OBVIOUS
<1>2. Len(s) = 1 => DOMAIN s = {1} /\ s # <<>>
  BY <1>1
<1>3. s # <<>> => 1 \in 1..Len(s)
  BY <1>1
<1> QED BY <1>1, <1>2, <1>3

LEMMA DocumentInit == Init => Document
<1> SUFFICES ASSUME Init PROVE Document
  OBVIOUS
<1>1. PICK r \in Ranges :
          kc \in [clusters : Entries(r.names, r.clusters, r.entries),
                  users : Entries(r.names, r.users, r.entries),
                  contexts : Contexts(r.names, r.contexts),
                  current : r.current]
          /\ \E n \in 0..r.args : args \in [1..n -> Args(r.options, r.words)]
  BY DEF Init
<1>2. /\ r.clusters \subseteq Cluster /\ r.users \subseteq User
      /\ r.entries \subseteq Nat /\ r.contexts \subseteq Nat /\ r.names \subseteq EntryNames
  BY RangesAssumption DEF EntryNames
<1>3. ASSUME NEW contents, NEW A, A \subseteq contents, NEW s \in Entries(r.names, A, r.entries)
      PROVE  s \in Seq(Entry(contents))
  <2>1. PICK n \in r.entries : s \in [1..n -> [name : r.names, content : A]]
    BY DEF Entries
  <2>2. [name : r.names, content : A] \subseteq Entry(contents)
    BY <1>2, <1>3 DEF Entry
  <2> QED BY <1>2, <2>1, <2>2, ListOf
<1>4. ASSUME NEW s \in Contexts(r.names, r.contexts)
      PROVE  s \in Seq([name : EntryNames, cluster : EntryNames, user : EntryNames])
  <2>1. PICK n \in r.contexts : s \in [1..n -> [name : r.names, cluster : r.names, user : r.names]]
    BY DEF Contexts
  <2>2. [name : r.names, cluster : r.names, user : r.names]
          \subseteq [name : EntryNames, cluster : EntryNames, user : EntryNames]
    BY <1>2
  <2> QED BY <1>2, <2>1, <2>2, ListOf
<1>5. /\ kc.clusters \in Entries(r.names, r.clusters, r.entries)
      /\ kc.users \in Entries(r.names, r.users, r.entries)
      /\ kc.contexts \in Contexts(r.names, r.contexts)
  BY <1>1
<1>6. args \in Seq(Arg)
  <2>1. PICK n \in 0..r.args : args \in [1..n -> Args(r.options, r.words)]
    BY <1>1
  <2>2. n \in Nat
    BY RangesAssumption
  <2>3. Args(r.options, r.words) \subseteq Arg
    BY DEF Args
  <2> QED BY <2>1, <2>2, <2>3, ListOf
<1> QED BY <1>2, <1>3, <1>4, <1>5, <1>6 DEF Document

(* parseKubeconfig is asked once, and what it reads stays as it was.        *)
KInv ==
    /\ Document
    /\ parsed # None => parsed = Parse
    /\ credential # None => credential = Translation

LEMMA KInit == Init => KInv
BY DocumentInit DEF Init, KInv

LEMMA SameDocument ==
    ASSUME UNCHANGED <<plugin, kc, allowExec>>
    PROVE  (Document' <=> Document) /\ Parse' = Parse /\ Translation' = Translation
<1>1. kc' = kc /\ allowExec' = allowExec /\ command' = command /\ version' = version /\ args' = args
  BY DEF plugin
<1>2. Document' <=> Document
  BY <1>1 DEF Document
<1>3. Resolve' = Resolve
  BY <1>1 DEF Resolve, FirstPair, CurrentPair, PairOf, Lookup
<1>4. Translation' = Translation
  BY <1>1 DEF Translation
<1>5. Parse' = Parse
  BY <1>1, <1>3, <1>4 DEF Parse, Credential, Config, WholeConfig
<1> QED BY <1>2, <1>4, <1>5

LEMMA KStep == KInv /\ [Next]_vars => KInv'
<1> SUFFICES ASSUME KInv, [Next]_vars PROVE KInv'
  OBVIOUS
<1>1. UNCHANGED <<plugin, kc, allowExec>> /\ (parsed' = Parse \/ parsed' = parsed)
  BY DEF Next, ParseKubeconfig, vars
<1>2. (Document' <=> Document) /\ Parse' = Parse /\ Translation' = Translation
  BY <1>1, SameDocument
<1>3. credential' \in {None, Translation, credential}
  BY DEF Next, ParseKubeconfig, vars
<1> QED BY <1>1, <1>2, <1>3 DEF KInv

LEMMA KInvariance == Spec => []KInv
BY KInit, KStep, PTL DEF Spec

-----------------------------------------------------------------------------
(* resolve.                                                                *)

LEMMA LookupIs ==
    ASSUME NEW contents, None \notin contents, NEW s \in Seq(Entry(contents)), NEW name
    PROVE  /\ Lookup(s, name) # None =>
                  \E i \in DOMAIN s : s[i].name = name /\ s[i].content = Lookup(s, name)
           /\ \A i \in DOMAIN s :
                  s[i].name = name /\ Unambiguous(s) =>
                      Lookup(s, name) = s[i].content /\ Lookup(s, name) # None
<1> DEFINE S == {i \in DOMAIN s : s[i].name = name}
           first == CHOOSE i \in S : \A j \in S : i <= j
<1>1. S \in SUBSET Nat /\ \A i \in DOMAIN s : s[i].content \in contents
  <2>1. s \in Seq(Entry(contents))
    OBVIOUS
  <2>2. DOMAIN s \subseteq Nat /\ \A i \in DOMAIN s : s[i] \in Entry(contents)
    BY <2>1, Members
  <2> QED BY <2>2 DEF Entry
<1>2. CASE S = {}
  BY <1>2 DEF Lookup
<1>3. CASE S # {}
  <2>1. first \in S
    <3>1. \E i \in S : \A j \in S : i <= j
      <4> HIDE DEF S
      <4> QED BY <1>1, <1>3, Smallest
    <3> HIDE DEF S
    <3> QED BY <3>1
  <2>2. Lookup(s, name) = s[first].content
    BY <1>3 DEF Lookup
  <2> HIDE DEF first
  <2>3. \A i \in DOMAIN s : s[i].name = name /\ Unambiguous(s) => i = first
    BY <2>1 DEF Unambiguous
  <2> QED BY <1>1, <2>1, <2>2, <2>3
<1> QED BY <1>2, <1>3

(* Cluster i and user j are the only ones, or the current context is theirs.*)
Paired(i, j) ==
    \/ Len(kc.clusters) = 1 /\ Len(kc.users) = 1
    \/ \E x \in DOMAIN kc.contexts :
           /\ kc.contexts[x].name = kc.current
           /\ kc.contexts[x].cluster = kc.clusters[i].name
           /\ kc.contexts[x].user = kc.users[j].name

LEMMA Absences ==
    /\ None \notin Cluster /\ None \notin User /\ None \notin Server /\ None \notin Nat
    /\ None \notin EntryNames
BY AbsentAssumption, RangesAssumption DEF EntryNames

LEMMA PairIs ==
    ASSUME Document, NEW context, PairOf(context) # NoPair
    PROVE  \E i \in DOMAIN kc.clusters, j \in DOMAIN kc.users :
               /\ PairOf(context) = [cluster |-> kc.clusters[i].content, user |-> kc.users[j].content]
               /\ context.cluster = kc.clusters[i].name
               /\ context.user = kc.users[j].name
<1> DEFINE c == Lookup(kc.clusters, context.cluster)
           u == Lookup(kc.users, context.user)
<1>1. PairOf(context) = [cluster |-> c, user |-> u] /\ c # None /\ u # None
  BY DEF PairOf
<1>2. kc.clusters \in Seq(Entry(Cluster)) /\ kc.users \in Seq(Entry(User))
  BY DEF Document
<1>3. PICK i \in DOMAIN kc.clusters : kc.clusters[i].name = context.cluster /\ kc.clusters[i].content = c
  BY <1>1, <1>2, LookupIs, Absences
<1>4. PICK j \in DOMAIN kc.users : kc.users[j].name = context.user /\ kc.users[j].content = u
  BY <1>1, <1>2, LookupIs, Absences
<1> QED BY <1>1, <1>3, <1>4

(* The first context of the current name.                                   *)
LEMMA CurrentIs ==
    ASSUME Document
    PROVE  /\ CurrentPair # NoPair =>
                  \E x \in DOMAIN kc.contexts :
                      kc.contexts[x].name = kc.current /\ CurrentPair = PairOf(kc.contexts[x])
           /\ \A x \in DOMAIN kc.contexts :
                  kc.contexts[x].name = kc.current /\ Unambiguous(kc.contexts) =>
                      CurrentPair = PairOf(kc.contexts[x])
<1> DEFINE S == {i \in DOMAIN kc.contexts : kc.contexts[i].name = kc.current}
           first == CHOOSE i \in S : \A j \in S : i <= j
<1>1. /\ S \in SUBSET Nat
      /\ \A i \in DOMAIN kc.contexts : kc.contexts[i].name \in EntryNames
  <2>1. kc.contexts \in Seq([name : EntryNames, cluster : EntryNames, user : EntryNames])
    BY DEF Document
  <2>2. DOMAIN kc.contexts \subseteq Nat /\ \A i \in DOMAIN kc.contexts :
            kc.contexts[i] \in [name : EntryNames, cluster : EntryNames, user : EntryNames]
    BY <2>1, Members
  <2> QED BY <2>2
<1>2. CASE kc.current = None \/ S = {}
  BY <1>1, <1>2, Absences DEF CurrentPair
<1>3. CASE kc.current # None /\ S # {}
  <2>1. first \in S
    <3>1. \E i \in S : \A j \in S : i <= j
      <4> HIDE DEF S
      <4> QED BY <1>1, <1>3, Smallest
    <3> HIDE DEF S
    <3> QED BY <3>1
  <2>2. CurrentPair = PairOf(kc.contexts[first])
    BY <1>3 DEF CurrentPair
  <2> HIDE DEF first
  <2>3. \A x \in DOMAIN kc.contexts :
            kc.contexts[x].name = kc.current /\ Unambiguous(kc.contexts) => x = first
    BY <2>1 DEF Unambiguous
  <2> QED BY <2>1, <2>2, <2>3
<1> QED BY <1>2, <1>3

LEMMA ResolveIs ==
    ASSUME Document, Resolve # NoPair
    PROVE  \E i \in DOMAIN kc.clusters, j \in DOMAIN kc.users :
               /\ Resolve = [cluster |-> kc.clusters[i].content, user |-> kc.users[j].content]
               /\ Paired(i, j)
<1>1. CASE Len(kc.clusters) = 1 /\ Len(kc.users) = 1
  <2>1. 1 \in DOMAIN kc.clusters /\ 1 \in DOMAIN kc.users /\ kc.clusters # <<>> /\ kc.users # <<>>
    BY <1>1, Members DEF Document
  <2>2. Resolve = [cluster |-> kc.clusters[1].content, user |-> kc.users[1].content]
    BY <1>1, <2>1 DEF Resolve, FirstPair
  <2> QED BY <1>1, <2>1, <2>2 DEF Paired
<1>2. CASE ~(Len(kc.clusters) = 1 /\ Len(kc.users) = 1)
  <2>1. Resolve = CurrentPair
    BY <1>2 DEF Resolve
  <2>2. PICK x \in DOMAIN kc.contexts :
            kc.contexts[x].name = kc.current /\ CurrentPair = PairOf(kc.contexts[x])
    BY <2>1, CurrentIs
  <2> QED BY <2>1, <2>2, PairIs DEF Paired
<1> QED BY <1>1, <1>2

-----------------------------------------------------------------------------
(* parseKubeconfig.                                                        *)

(* What was registered is the configuration of a cluster and a user of the  *)
(* document, about which nothing was refused.                               *)
RegisteredAs(i, j, c, u) ==
    /\ c \in Cluster /\ u \in User
    /\ c = kc.clusters[i].content /\ u = kc.users[j].content
    /\ Resolve = [cluster |-> c, user |-> u]
    /\ Paired(i, j)
    /\ ~ServerRefused(c) /\ ~ProxyRefused(c) /\ ~FilesRefused(c, u)
    /\ Credential(u) # "refused"
    /\ parsed = WholeConfig(c, u)

LEMMA ResolvedTyped ==
    ASSUME Document, Resolve # NoPair
    PROVE  \E i \in DOMAIN kc.clusters, j \in DOMAIN kc.users : \E c \in Cluster, u \in User :
               /\ c = kc.clusters[i].content /\ u = kc.users[j].content
               /\ Resolve = [cluster |-> c, user |-> u]
               /\ Resolve.cluster = c /\ Resolve.user = u
               /\ Paired(i, j)
<1>1. PICK i \in DOMAIN kc.clusters, j \in DOMAIN kc.users :
          /\ Resolve = [cluster |-> kc.clusters[i].content, user |-> kc.users[j].content]
          /\ Paired(i, j)
  BY ResolveIs
<1>2. kc.clusters[i] \in Entry(Cluster) /\ kc.users[j] \in Entry(User)
  BY Members DEF Document
<1>3. kc.clusters[i].content \in Cluster /\ kc.users[j].content \in User
  BY <1>2 DEF Entry
<1>4. Resolve.cluster = kc.clusters[i].content /\ Resolve.user = kc.users[j].content
  BY <1>1
<1> QED BY <1>1, <1>3, <1>4

LEMMA RegisteredIs ==
    ASSUME KInv, Registered
    PROVE  \E i \in DOMAIN kc.clusters, j \in DOMAIN kc.users : \E c, u : RegisteredAs(i, j, c, u)
<1>1. parsed = Parse /\ Parse # Refused /\ Document
  BY DEF KInv, Registered
<1>2. Resolve # NoPair
  BY <1>1 DEF Parse
<1>3. PICK i \in DOMAIN kc.clusters, j \in DOMAIN kc.users, c \in Cluster, u \in User :
          /\ c = kc.clusters[i].content /\ u = kc.users[j].content
          /\ Resolve = [cluster |-> c, user |-> u]
          /\ Resolve.cluster = c /\ Resolve.user = u
          /\ Paired(i, j)
  BY <1>1, <1>2, ResolvedTyped
<1>4. Parse = IF \/ Resolve = NoPair
                 \/ ServerRefused(c)
                 \/ ProxyRefused(c)
                 \/ FilesRefused(c, u)
                 \/ Credential(u) = "refused"
              THEN Refused ELSE WholeConfig(c, u)
  BY <1>3 DEF Parse, Config
<1>5. /\ ~ServerRefused(c) /\ ~ProxyRefused(c) /\ ~FilesRefused(c, u)
      /\ Credential(u) # "refused" /\ Parse = WholeConfig(c, u)
  BY <1>1, <1>4, Zenon
<1>6. RegisteredAs(i, j, c, u)
  BY <1>1, <1>3, <1>5 DEF RegisteredAs
<1> QED BY <1>6

LEMMA CredentialKinds ==
    ASSUME NEW u \in User
    PROVE  /\ Credential(u) \in {"pair", "token", "exec", "refused"}
           /\ Credential(u) = "pair" <=> u.cert /\ u.key
           /\ Credential(u) = "token" <=> ~(u.cert /\ u.key) /\ u.token
           /\ Credential(u) = "exec" <=> /\ ~(u.cert /\ u.key) /\ ~u.token /\ u.exec
                                         /\ allowExec /\ Translation # Untranslatable
BY DEF Credential, User

LEMMA FirstOf ==
    ASSUME NEW S \in SUBSET Nat, S # {}
    PROVE  First(S) \in S
BY Smallest DEF First

LEMMA WordTyped ==
    ASSUME NEW a \in Arg, HasEquals(a)
    PROVE  Word(a.value) \in Arg
<1>1. a.value \in Words /\ a.value # None
  BY DEF Arg, HasEquals
<1> QED BY <1>1 DEF Word, Arg

LEMMA NoneIsNoArg == None \notin Arg
BY NoneAssumption

(* A value looked up is an argument or nothing.                             *)
LEMMA ExecFlagTyped ==
    ASSUME NEW as \in Seq(Arg), NEW names
    PROVE  ExecFlag(as, names) \in Arg \cup {None}
<1>1. CASE Given(as, names) = {}
  BY <1>1 DEF ExecFlag
<1>2. CASE Given(as, names) # {}
  <2>1. PICK n \in Nat : n = Len(as) /\ DOMAIN as = 1..n /\ \A i \in 1..n : as[i] \in Arg
    BY Members
  <2>2. Given(as, names) \subseteq 1..n /\ \A i \in Given(as, names) : HasEquals(as[i]) \/ i < n
    <3> HIDE DEF HasEquals
    <3> QED BY <2>1 DEF Given
  <2>3. PICK i \in Given(as, names) : i = First(Given(as, names))
    <3>1. 1..n \subseteq Nat
      OBVIOUS
    <3>2. Given(as, names) \in SUBSET Nat
      BY <2>2, <3>1
    <3> QED BY <1>2, <3>2, FirstOf
  <2>4. i \in 1..n /\ (HasEquals(as[i]) \/ i < n)
    BY <2>2, <2>3
  <2>5. ExecFlag(as, names) = IF HasEquals(as[i]) THEN Word(as[i].value) ELSE as[i + 1]
    BY <1>2, <2>3 DEF ExecFlag
  <2>6. CASE HasEquals(as[i])
    BY <2>1, <2>4, <2>5, <2>6, WordTyped
  <2>7. CASE ~HasEquals(as[i])
    <3>1. i < n
      BY <2>4, <2>7
    <3>2. i + 1 \in 1..n
      <4>1. i \in 1..n
        BY <2>4
      <4> QED BY <3>1, <4>1
    <3> QED BY <2>1, <2>5, <2>7, <3>2
  <2> QED BY <2>6, <2>7
<1> QED BY <1>1, <1>2

(* A translation is of one of the shapes ArgoCD can be given.                *)
LEMMA AwsShape ==
    ASSUME NEW cluster \in Arg, NEW region \in Arg \cup {None}
    PROVE  AwsCredential(cluster, region) \in Shapes
<1>1. CASE region \in {None, Empty}
  BY <1>1 DEF AwsCredential, Shapes
<1>2. CASE region \notin {None, Empty}
  <2>1. region \in Arg
    BY <1>2
  <2>2. AwsCredential(cluster, region) =
            [shape |-> "argocd-k8s-auth aws", cluster |-> cluster,
             env |-> [region |-> region, server |-> None, cloud |-> None]]
    BY <1>2 DEF AwsCredential, Env
  <2>3. [region |-> region, server |-> None, cloud |-> None]
            \in [region : Arg, server : {None}, cloud : {None}]
    BY <2>1
  <2>4. \A E : \A e \in E :
            [shape |-> "argocd-k8s-auth aws", cluster |-> cluster, env |-> e]
                \in [shape : {"argocd-k8s-auth aws"}, cluster : Arg, env : E]
    OBVIOUS
  <2>5. AwsCredential(cluster, region)
            \in [shape : {"argocd-k8s-auth aws"}, cluster : Arg,
                 env : [region : Arg, server : {None}, cloud : {None}]]
    BY <2>2, <2>3, <2>4
  <2> QED BY <2>5 DEF Shapes
<1> QED BY <1>1, <1>2

(* What a translation is: refused, of one of the plugins this tool knows.   *)
LEMMA TranslationIs ==
    ASSUME Document, Translation # Untranslatable
    PROVE  /\ version \in ExecVersions
           /\ \/ /\ command \in {"aws-iam-authenticator", "heptio-authenticator-aws"}
                 /\ Translation = TranslateIAMAuthenticator(args)
              \/ command = "aws" /\ Translation = TranslateAWSCLI(args)
              \/ command = "kubelogin" /\ Translation = TranslateKubelogin(args)
BY DEF Translation, TranslateExec

LEMMA TranslationShape ==
    ASSUME Document, Translation # Untranslatable
    PROVE  Translation \in Shapes
<1>1. \A names : ExecFlag(args, names) \in Arg \cup {None}
  BY ExecFlagTyped DEF Document
<1>2. ASSUME Translation = TranslateIAMAuthenticator(args)
      PROVE  Translation \in Shapes
  <2>1. ExecFlag(args, {"-i", "--cluster-id"}) # None
    BY <1>2 DEF TranslateIAMAuthenticator
  <2>2. Translation = AwsCredential(ExecFlag(args, {"-i", "--cluster-id"}),
                                    ExecFlag(args, {"--region"}))
    BY <1>2 DEF TranslateIAMAuthenticator
  <2>3. ExecFlag(args, {"-i", "--cluster-id"}) \in Arg /\ ExecFlag(args, {"--region"}) \in Arg \cup {None}
    BY <1>1, <2>1
  <2> QED BY <2>2, <2>3, AwsShape
<1>3. ASSUME Translation = TranslateAWSCLI(args)
      PROVE  Translation \in Shapes
  <2>1. ExecFlag(args, {"--cluster-name", "--cluster-id"}) # None
    BY <1>3 DEF TranslateAWSCLI
  <2>2. Translation = AwsCredential(ExecFlag(args, {"--cluster-name", "--cluster-id"}),
                                    ExecFlag(args, {"--region"}))
    BY <1>3 DEF TranslateAWSCLI
  <2>3. /\ ExecFlag(args, {"--cluster-name", "--cluster-id"}) \in Arg
        /\ ExecFlag(args, {"--region"}) \in Arg \cup {None}
    BY <1>1, <2>1
  <2> QED BY <2>2, <2>3, AwsShape
<1>4. ASSUME Translation = TranslateKubelogin(args)
      PROVE  Translation \in Shapes
  <2>1. PICK server \in Arg \cup {None}, cloud \in Arg \cup {None} :
            server = ExecFlag(args, {"--server-id"}) /\ cloud = ExecFlag(args, {"--environment"})
    BY <1>1
  <2>2. Translation = [shape |-> "argocd-k8s-auth azure", cluster |-> None,
                       env |-> [region |-> None, server |-> server, cloud |-> cloud]]
    BY <1>4, <2>1 DEF TranslateKubelogin, Env
  <2> QED BY <2>2 DEF Shapes
<1> QED BY <1>2, <1>3, <1>4, TranslationIs

(* One credential is written: the user's own, or a translation.             *)
Carried(u) == IF Credential(u) = "exec" THEN Translation ELSE u.id

LEMMA ConfigIs ==
    ASSUME Document, NEW c \in Cluster, NEW u \in User, Credential(u) # "refused",
           parsed = WholeConfig(c, u)
    PROVE  /\ parsed.server = Trim(c.server) /\ parsed.ca = c.ca /\ parsed.insecure = c.insecure
           /\ parsed.serverName = c.serverName /\ parsed.proxy = c.proxy
           /\ u.id \in Nat /\ u.id # None
           /\ Credential(u) = "exec" => Translation \in Shapes /\ Translation # None
           /\ ArgoShows = [shown |-> Credential(u), by |-> Carried(u)]
           /\ ArgoShows.shown = Credential(u) /\ ArgoShows.by = Carried(u)
<1>1. u.id \in Nat /\ u.id # None
  BY Absences DEF User
<1>2. /\ parsed.server = Trim(c.server) /\ parsed.ca = c.ca /\ parsed.insecure = c.insecure
      /\ parsed.serverName = c.serverName /\ parsed.proxy = c.proxy
      /\ parsed.certData = IF Credential(u) = "pair" THEN u.id ELSE None
      /\ parsed.bearerToken = IF Credential(u) = "token" THEN u.id ELSE None
      /\ parsed.execProvider = IF Credential(u) = "exec" THEN Translation ELSE None
  BY DEF WholeConfig
<1>3. PICK kind \in {"pair", "token", "exec"} : kind = Credential(u)
  BY CredentialKinds
<1>4. kind = "exec" => Translation \in Shapes
  BY <1>3, CredentialKinds, TranslationShape
<1>5. kind = "exec" => Translation # None
  BY <1>4, NoneAssumption
<1>6. PICK by : by = Carried(u)
  OBVIOUS
<1>7. by = IF kind = "exec" THEN Translation ELSE u.id
  BY <1>3, <1>6 DEF Carried
<1>8. ArgoShows = [shown |-> kind, by |-> by]
  <2>1. CASE kind = "pair"
    BY <1>1, <1>2, <1>3, <1>7, <2>1 DEF ArgoShows
  <2>2. CASE kind = "token"
    BY <1>1, <1>2, <1>3, <1>7, <2>2 DEF ArgoShows
  <2>3. CASE kind = "exec"
    BY <1>1, <1>2, <1>3, <1>5, <1>7, <2>3 DEF ArgoShows
  <2> QED BY <1>3, <2>1, <2>2, <2>3
<1>9. ArgoShows.shown = kind /\ ArgoShows.by = by
  BY <1>8
<1> QED BY <1>1, <1>2, <1>3, <1>4, <1>5, <1>6, <1>8, <1>9

(* An address is Server's, and not the one ArgoCD takes for its own.        *)
LEMMA TrimIs ==
    ASSUME NEW c \in Cluster, ~ServerRefused(c)
    PROVE  Trim(c.server) \in Server /\ Trim(c.server) # InClusterServer
<1>1. c.server \in Server
  BY DEF Cluster, ServerRefused
<1>2. Trim(c.server) \in Server
  BY <1>1 DEF Server, Trim
<1>3. [host |-> "kubernetes.default.svc", port |-> None] \in InClusterHosts
  BY DEF InClusterHosts
<1>4. IsInClusterServer(InClusterServer)
  <2>1. InClusterServer.host = "kubernetes.default.svc" /\ InClusterServer.port = None
    BY DEF InClusterServer
  <2> QED BY <1>3, <2>1 DEF IsInClusterServer
<1>5. ~IsInClusterServer(Trim(c.server))
  BY DEF ServerRefused
<1> QED BY <1>2, <1>4, <1>5

(* The pair kubectl connects with is the one resolve returns, when the      *)
(* document loads.                                                          *)
LEMMA KubectlResolves ==
    ASSUME Document, Loads, NEW pair \in KubectlPairs, kc.current # None
    PROVE  /\ Resolve = pair /\ Resolve # NoPair
           /\ pair.cluster \in Cluster /\ pair.user \in User
           /\ pair = [cluster |-> pair.cluster, user |-> pair.user]
           /\ pair.user.key <=> pair.user.cert \/ pair.user.certFile
<1>1. PICK x \in DOMAIN kc.contexts, i \in DOMAIN kc.clusters, j \in DOMAIN kc.users :
          /\ kc.contexts[x] = [name |-> kc.current, cluster |-> kc.clusters[i].name,
                               user |-> kc.users[j].name]
          /\ pair = [cluster |-> kc.clusters[i].content, user |-> kc.users[j].content]
          /\ pair.user.key <=> pair.user.cert \/ pair.user.certFile
  BY DEF KubectlPairs
<1>2. pair.cluster = kc.clusters[i].content /\ pair.user = kc.users[j].content
  BY <1>1
<1>3. kc.clusters \in Seq(Entry(Cluster)) /\ kc.users \in Seq(Entry(User))
  BY DEF Document
<1>4. kc.clusters[i] \in Entry(Cluster) /\ kc.users[j] \in Entry(User)
  BY <1>3, Members
<1>5. pair.cluster \in Cluster /\ pair.user \in User
  BY <1>2, <1>4 DEF Entry
<1>6. pair # NoPair
  BY <1>5, Absences DEF NoPair
<1>7. Unambiguous(kc.clusters) /\ Unambiguous(kc.users) /\ Unambiguous(kc.contexts)
  BY DEF Loads
<1>8. Resolve = pair
  <2>1. CASE Len(kc.clusters) = 1 /\ Len(kc.users) = 1
    <3>1. i = 1 /\ j = 1 /\ kc.clusters # <<>> /\ kc.users # <<>>
      BY <1>3, <2>1, Members
    <3> QED BY <1>1, <2>1, <3>1 DEF Resolve, FirstPair
  <2>2. CASE ~(Len(kc.clusters) = 1 /\ Len(kc.users) = 1)
    <3>1. kc.clusters # <<>> /\ kc.users # <<>>
      BY <1>1
    <3>2. Resolve = CurrentPair
      BY <2>2, <3>1 DEF Resolve
    <3>3. CurrentPair = PairOf(kc.contexts[x])
      BY <1>1, <1>7, CurrentIs
    <3>4. /\ Lookup(kc.clusters, kc.clusters[i].name) = kc.clusters[i].content
          /\ Lookup(kc.clusters, kc.clusters[i].name) # None
      BY <1>3, <1>7, LookupIs, Absences
    <3>5. /\ Lookup(kc.users, kc.users[j].name) = kc.users[j].content
          /\ Lookup(kc.users, kc.users[j].name) # None
      BY <1>3, <1>7, LookupIs, Absences
    <3>6. kc.contexts[x].cluster = kc.clusters[i].name /\ kc.contexts[x].user = kc.users[j].name
      BY <1>1
    <3>7. PairOf(kc.contexts[x]) = pair
      BY <1>1, <3>4, <3>5, <3>6 DEF PairOf
    <3> QED BY <3>2, <3>3, <3>7
  <2> QED BY <2>1, <2>2
<1> QED BY <1>1, <1>2, <1>5, <1>6, <1>8

LEMMA HasContext ==
    ASSUME Document, NEW pair \in KubectlPairs
    PROVE  kc.current # None
<1>1. PICK x \in DOMAIN kc.contexts : kc.contexts[x].name = kc.current
  <2>1. PICK x \in DOMAIN kc.contexts, i \in DOMAIN kc.clusters, j \in DOMAIN kc.users :
            kc.contexts[x] = [name |-> kc.current, cluster |-> kc.clusters[i].name,
                              user |-> kc.users[j].name]
    BY DEF KubectlPairs
  <2>2. kc.contexts[x].name = kc.current
    BY <2>1
  <2> QED BY <2>2
<1>2. kc.contexts[x] \in [name : EntryNames, cluster : EntryNames, user : EntryNames]
  BY Members DEF Document
<1> QED BY <1>1, <1>2, Absences

-----------------------------------------------------------------------------
(* What is guaranteed of every document.                                    *)

(* With files out of the way, what kubectl would show of a user is the      *)
(* credential that was copied.                                              *)
LEMMA ShownIs ==
    ASSUME NEW u \in User, ~u.certFile, ~u.tokenFile, ~u.authProvider, u.key <=> u.cert
    PROVE  /\ Credential(u) # "refused" => Shown(u) = Credential(u)
           /\ Shown(u) = "pair" => Credential(u) = "pair"
           /\ Shown(u) = "token" => Credential(u) = "token"
           /\ Shown(u) = "exec" /\ allowExec /\ Translation # Untranslatable =>
                  Credential(u) = "exec"
<1>1. /\ u.cert \in BOOLEAN /\ u.key \in BOOLEAN /\ u.token \in BOOLEAN /\ u.exec \in BOOLEAN
  BY DEF User
<1>2. Shown(u) = IF u.cert /\ u.key THEN "pair" ELSE IF u.token THEN "token"
                 ELSE IF u.exec THEN "exec" ELSE "nothing"
  BY <1>1 DEF Shown
<1> QED BY <1>1, <1>2, CredentialKinds

(* For every document, the connection ArgoCD is given is the one kubectl    *)
(* makes with its current context, but for its own identity in place of a   *)
(* plugin's token (parseKubeconfig).                                        *)
THEOREM Faithful == Spec => []SameConnection
<1>1. KInv => SameConnection
  <2> SUFFICES ASSUME KInv, Registered, Loads, NEW pair \in KubectlPairs
               PROVE  /\ ArgoEndpoint = Endpoint(pair.cluster)
                      /\ Shown(pair.user) \in {"pair", "token", "exec"}
                      /\ ArgoShows = [shown |-> Shown(pair.user),
                                      by |-> IF Shown(pair.user) = "exec" THEN Translation
                                             ELSE pair.user.id]
    BY DEF SameConnection
  <2>1. Document
    BY DEF KInv
  <2>2. PICK i \in DOMAIN kc.clusters, j \in DOMAIN kc.users : \E c, u : RegisteredAs(i, j, c, u)
    BY RegisteredIs
  <2>3. PICK c, u : RegisteredAs(i, j, c, u)
    BY <2>2
  <2>4. c = pair.cluster /\ u = pair.user /\ (u.key <=> u.cert \/ u.certFile)
    BY <2>1, <2>3, HasContext, KubectlResolves DEF RegisteredAs
  <2>5. /\ c \in Cluster /\ u \in User /\ Credential(u) # "refused" /\ parsed = WholeConfig(c, u)
        /\ ~ServerRefused(c)
    BY <2>3 DEF RegisteredAs
  <2>6. ~u.certFile /\ ~u.tokenFile /\ ~u.authProvider
    BY <2>3 DEF RegisteredAs, FilesRefused
  <2>7. u.certFile \in BOOLEAN /\ u.cert \in BOOLEAN /\ u.key \in BOOLEAN
    BY <2>5 DEF User
  <2>8. Shown(u) = Credential(u)
    BY <2>4, <2>5, <2>6, <2>7, ShownIs
  <2>9. /\ parsed.server = Trim(c.server) /\ parsed.ca = c.ca /\ parsed.insecure = c.insecure
        /\ parsed.serverName = c.serverName /\ parsed.proxy = c.proxy
        /\ ArgoShows = [shown |-> Credential(u), by |-> Carried(u)]
    BY <2>1, <2>5, ConfigIs
  <2>10. ArgoEndpoint = Endpoint(c)
    BY <2>5, <2>9, TrimIs DEF ArgoEndpoint, Endpoint
  <2>11. Credential(u) \in {"pair", "token", "exec"}
    BY <2>5, CredentialKinds
  <2>12. Carried(u) = IF Shown(u) = "exec" THEN Translation ELSE u.id
    BY <2>8 DEF Carried
  <2> QED BY <2>4, <2>8, <2>9, <2>10, <2>11, <2>12
<1> QED BY <1>1, KInvariance, PTL

(* For every document, loadable or not, no user's credential is shown to a  *)
(* cluster the document does not pair it with, nor is ArgoCD's own unless   *)
(* the user paired with it has a plugin (resolve).                          *)
THEOREM Unmixed == Spec => []NeverMixed
<1>1. KInv => NeverMixed
  <2> SUFFICES ASSUME KInv, Registered PROVE NeverMixed
    BY DEF NeverMixed
  <2>1. PICK i \in DOMAIN kc.clusters, j \in DOMAIN kc.users : \E c, u : RegisteredAs(i, j, c, u)
    BY RegisteredIs
  <2>2. PICK c, u : RegisteredAs(i, j, c, u)
    BY <2>1
  <2>3. /\ parsed.server = Trim(c.server)
        /\ ArgoShows.shown = Credential(u) /\ ArgoShows.by = Carried(u)
    BY <2>2, ConfigIs DEF RegisteredAs, KInv
  <2>4. Paired(i, j) /\ c = kc.clusters[i].content /\ u = kc.users[j].content
    BY <2>2 DEF RegisteredAs
  <2>5. Credential(u) = "exec" => u.exec
    BY <2>2, CredentialKinds DEF RegisteredAs
  <2>6. IF ArgoShows.shown = "exec" THEN u.exec ELSE u.id = ArgoShows.by
    BY <2>3, <2>5 DEF Carried
  <2> QED BY <2>3, <2>4, <2>6 DEF NeverMixed, Paired
<1> QED BY <1>1, KInvariance, PTL

(* For every document, what is refused lacks an embedded credential, a pair *)
(* of its own, an address ArgoCD can use or a plugin ArgoCD has.            *)
THEOREM Registrable == Spec => []UsableRegistered
<1>1. KInv => UsableRegistered
  <2> SUFFICES ASSUME KInv, NEW pair \in KubectlPairs, parsed = Refused, Loads,
                      pair.cluster.server # None,
                      pair.cluster.server.host \notin OwnNames \cup {"unusable"},
                      pair.cluster.ca # "file", pair.cluster.proxy = None,
                      Shown(pair.user) \in {"pair", "token", "exec"},
                      ~pair.user.certFile, ~pair.user.tokenFile, ~pair.user.authProvider,
                      Shown(pair.user) = "exec" => allowExec /\ Translation # Untranslatable
               PROVE  FALSE
    BY DEF UsableRegistered
  <2> DEFINE c == pair.cluster
             u == pair.user
  <2>1. Document /\ (parsed # None => parsed = Parse)
    BY DEF KInv
  <2>2. /\ Resolve = pair /\ Resolve # NoPair /\ c \in Cluster /\ u \in User
        /\ u.key <=> u.cert \/ u.certFile
    BY <2>1, HasContext, KubectlResolves
  <2> HIDE DEF c, u
  <2>3. Resolve.cluster = c /\ Resolve.user = u
    BY <2>2 DEF c, u
  <2>4. c.server \in Server /\ u.cert \in BOOLEAN /\ u.key \in BOOLEAN /\ u.certFile \in BOOLEAN
    BY <2>2 DEF c, Cluster, User
  <2>5. ~ServerRefused(c)
    <3>1. c.server # None /\ c.server.host # "unusable" /\ c.server.host \notin OwnNames
      BY DEF c
    <3>2. Trim(c.server).host = c.server.host
      BY <2>4 DEF Trim, Server
    <3>3. \A h \in InClusterHosts : h.host \in OwnNames
      BY DEF InClusterHosts, OwnNames
    <3>4. \A h, p : [host |-> h, port |-> p].host = h
      OBVIOUS
    <3> QED BY <3>1, <3>2, <3>3, <3>4 DEF ServerRefused, IsInClusterServer
  <2>6. ~ProxyRefused(c) /\ ~FilesRefused(c, u)
    BY DEF c, u, ProxyRefused, FilesRefused
  <2>7. Credential(u) # "refused"
    BY <2>2, <2>4, ShownIs DEF u
  <2>8. Parse = WholeConfig(c, u)
    BY <2>2, <2>3, <2>5, <2>6, <2>7 DEF Parse, Config
  <2>9. Parse.server = Trim(c.server) /\ Trim(c.server) # None
    BY <2>2, <2>5, <2>8, TrimIs, Absences DEF WholeConfig
  <2>10. parsed # None
    BY AbsentAssumption DEF Refused
  <2>11. Refused.server = None
    BY DEF Refused
  <2> QED BY <2>1, <2>9, <2>10, <2>11
<1> QED BY <1>1, KInvariance, PTL

-----------------------------------------------------------------------------
(* The types of what is written.                                            *)

(* TypeOK: whatever the document, what is written has its type and one      *)
(* credential, in a shape ArgoCD can be given.                              *)
THEOREM KubeconfigTyped == Spec => []TypeOK
<1>1. KInv => KnownShapes
  <2> SUFFICES ASSUME KInv, Translated PROVE KnownShapes
    BY DEF KnownShapes
  <2>1. credential = Translation /\ Translation # Untranslatable /\ Document
    BY DEF KInv, Translated
  <2>2. credential \in Shapes
    BY <2>1, TranslationShape
  <2> QED BY <2>2 DEF KnownShapes
<1>2. ASSUME KInv, Registered
      PROVE  LET Ids == Nat \cup {None} IN
             /\ parsed.server \in Server
             /\ parsed \in [server : {parsed.server}, ca : {None, "data"}, insecure : BOOLEAN,
                            serverName : BOOLEAN, proxy : {None, "http"},
                            certData : Ids, bearerToken : Ids,
                            execProvider : Shapes \cup {None}]
             /\ \E one \in {"certData", "bearerToken", "execProvider"} :
                    \A field \in {"certData", "bearerToken", "execProvider"} :
                        field = one <=> parsed[field] # None
  <2>1. PICK i \in DOMAIN kc.clusters, j \in DOMAIN kc.users : \E c, u : RegisteredAs(i, j, c, u)
    BY <1>2, RegisteredIs
  <2>2. PICK c \in Cluster, u \in User : RegisteredAs(i, j, c, u)
    BY <2>1 DEF RegisteredAs
  <2>3. PICK kind \in {"pair", "token", "exec"} : kind = Credential(u)
    BY <2>2, CredentialKinds DEF RegisteredAs
  <2>4. /\ u.id \in Nat /\ u.id # None /\ parsed.server = Trim(c.server)
        /\ kind = "exec" => Translation \in Shapes /\ Translation # None
    BY <1>2, <2>2, <2>3, ConfigIs DEF RegisteredAs, KInv
  <2>5. parsed = [server |-> Trim(c.server), ca |-> c.ca, insecure |-> c.insecure,
                  serverName |-> c.serverName, proxy |-> c.proxy,
                  certData |-> IF kind = "pair" THEN u.id ELSE None,
                  bearerToken |-> IF kind = "token" THEN u.id ELSE None,
                  execProvider |-> IF kind = "exec" THEN Translation ELSE None]
    BY <2>2, <2>3 DEF RegisteredAs, WholeConfig
  <2>6. /\ c.ca \in {None, "data"} /\ c.insecure \in BOOLEAN /\ c.serverName \in BOOLEAN
        /\ c.proxy \in {None, "http"}
    BY <2>2 DEF RegisteredAs, Cluster, FilesRefused, ProxyRefused
  <2>7. parsed.server \in Server
    BY <2>2, <2>4, TrimIs DEF RegisteredAs
  <2>8. /\ parsed["certData"] = IF kind = "pair" THEN u.id ELSE None
        /\ parsed["bearerToken"] = IF kind = "token" THEN u.id ELSE None
        /\ parsed["execProvider"] = IF kind = "exec" THEN Translation ELSE None
    BY <2>5
  <2>9. \E one \in {"certData", "bearerToken", "execProvider"} :
            \A field \in {"certData", "bearerToken", "execProvider"} :
                field = one <=> parsed[field] # None
    <3>1. CASE kind = "pair"
      <4> WITNESS "certData" \in {"certData", "bearerToken", "execProvider"}
      <4> QED BY <2>4, <2>8, <3>1
    <3>2. CASE kind = "token"
      <4> WITNESS "bearerToken" \in {"certData", "bearerToken", "execProvider"}
      <4> QED BY <2>4, <2>8, <3>2
    <3>3. CASE kind = "exec"
      <4> WITNESS "execProvider" \in {"certData", "bearerToken", "execProvider"}
      <4> QED BY <2>4, <2>8, <3>3
    <3> QED BY <3>1, <3>2, <3>3
  <2> QED BY <2>4, <2>5, <2>6, <2>7, <2>9
<1>3. KInv => TypeOK
  BY <1>1, <1>2 DEF TypeOK
<1> QED BY <1>3, KInvariance, PTL

-----------------------------------------------------------------------------
(* The scanners and the plugin.                                             *)

(* Where a scan stops: everywhere but after what it stopped at and takes    *)
(* the next.                                                                *)
Taking(as, takers) == {i \in DOMAIN as : as[i] \in takers}

LEMMA VisitedScans ==
    ASSUME NEW as \in Seq(Arg), NEW takers
    PROVE  Scans(Visited(as, takers), Len(as), Taking(as, takers))
<1>1. PICK n \in Nat : n = Len(as) /\ DOMAIN as = 1..n
  BY Members
<1>2. PICK H : Scans(H, n, Taking(as, takers))
  BY ScanExists
<1> DEFINE Eq(v) == v = [i \in 0..n |-> i > 0 => ~(i > 1 /\ v[i - 1] /\ as[i - 1] \in takers)]
           f == [i \in 0..n |-> i > 0 => i \in H]
           it == CHOOSE v : Eq(v)
<1>3. Eq(f)
  <2>1. ASSUME NEW i \in 0..n
        PROVE  (i > 0 => i \in H) <=> (i > 0 => ~(i > 1 /\ f[i - 1] /\ as[i - 1] \in takers))
    <3>1. CASE i = 0
      BY <3>1
    <3>2. CASE i = 1
      <4>1. 1 \in H
        <5>1. 1 \in 1..n /\ 0 \notin 1..n /\ 1 - 1 = 0
          BY <3>2
        <5> QED BY <1>2, <5>1 DEF Scans
      <4> QED BY <3>2, <4>1
    <3>3. CASE i > 1
      <4>1. i \in 1..n /\ i - 1 \in 1..n /\ i - 1 \in 0..n /\ i - 1 > 0 /\ i > 0
        BY <3>3
      <4>2. f[i - 1] <=> i - 1 \in H
        BY <4>1
      <4>3. i \in H <=> ~(i - 1 \in H /\ as[i - 1] \in takers)
        BY <1>1, <1>2, <4>1 DEF Scans, Taking
      <4> HIDE DEF f
      <4> QED BY <3>3, <4>1, <4>2, <4>3
    <3>4. i = 0 \/ i = 1 \/ i > 1
      OBVIOUS
    <3> QED BY <3>1, <3>2, <3>3, <3>4
  <2>2. \A i \in 0..n : (i > 0 => i \in H) = (i > 0 => ~(i > 1 /\ f[i - 1] /\ as[i - 1] \in takers))
    <3> HIDE DEF f
    <3> QED BY <2>1
  <2> QED BY <2>2
<1>4. Eq(it)
  <2> HIDE DEF Eq, f
  <2> QED BY <1>3
<1>5. Visited(as, takers) = {i \in DOMAIN as : it[i]}
  BY <1>1 DEF Visited
<1> HIDE DEF it, f
<1>6. \A i \in 0..n : it[i] <=> (i > 0 => ~(i > 1 /\ it[i - 1] /\ as[i - 1] \in takers))
  BY <1>4
<1>7. ASSUME NEW i \in 1..n
      PROVE  i \in Visited(as, takers) <=>
                 ~(i - 1 \in Visited(as, takers) /\ i - 1 \in Taking(as, takers))
  <2>1. i \in 0..n /\ i > 0 /\ (i > 1 <=> i - 1 \in 1..n)
    OBVIOUS
  <2>2. i \in Visited(as, takers) <=> it[i]
    BY <1>1, <1>5
  <2>3. i - 1 \in Visited(as, takers) <=> i - 1 \in 1..n /\ it[i - 1]
    BY <1>1, <1>5
  <2>4. i - 1 \in Taking(as, takers) <=> i - 1 \in 1..n /\ as[i - 1] \in takers
    BY <1>1 DEF Taking
  <2>5. it[i] <=> ~(i > 1 /\ it[i - 1] /\ as[i - 1] \in takers)
    BY <1>6, <2>1
  <2> HIDE DEF Eq
  <2> QED BY <2>1, <2>2, <2>3, <2>4, <2>5
<1> QED BY <1>1, <1>5, <1>7 DEF Scans

(* What the plugin takes for options and words is a scan too.               *)
TakenByPlugin == {i \in DOMAIN args : args[i].flag \in Options \ Switches /\ args[i].value = None}

LEMMA HeadsScan ==
    ASSUME args \in Seq(Arg)
    PROVE  Scans(Heads, Len(args), TakenByPlugin)
<1>1. PICK n \in Nat : n = Len(args) /\ DOMAIN args = 1..n
  BY Members
<1> DEFINE P(H) == \A i \in DOMAIN args :
                       i \in H <=> ~(/\ i - 1 \in H
                                   /\ args[i - 1].flag \in Options \ Switches
                                   /\ args[i - 1].value = None)
<1>2. ASSUME NEW H \in SUBSET (1..n)
      PROVE  Scans(H, n, TakenByPlugin) <=> P(H)
  BY <1>1 DEF Scans, TakenByPlugin
<1>3. PICK H : Scans(H, n, TakenByPlugin)
  BY ScanExists
<1>4. H \in SUBSET DOMAIN args /\ P(H)
  <2>1. H \in SUBSET (1..n)
    BY <1>3 DEF Scans
  <2> HIDE DEF P
  <2> QED BY <1>1, <1>2, <1>3, <2>1
<1>5. Heads = CHOOSE G \in SUBSET DOMAIN args : P(G)
  BY DEF Heads
<1>6. Heads \in SUBSET DOMAIN args /\ P(Heads)
  <2> HIDE DEF P
  <2> QED BY <1>4, <1>5
<1> HIDE DEF P
<1> QED BY <1>1, <1>2, <1>6

(* Options that all take a value: where every option the plugin takes for   *)
(* one is among them, it stops where the scanner does.                      *)
LEMMA SameHeads ==
    ASSUME args \in Seq(Arg), NEW allowed, None \notin allowed, allowed \cap Switches = {},
           NEW H \in {Heads, Visited(args, Takers(allowed))},
           \A i \in H : IsFlag(args[i]) => args[i].flag \in allowed
    PROVE  Visited(args, Takers(allowed)) = Heads
<1>1. PICK n \in Nat : n = Len(args) /\ DOMAIN args = 1..n /\ \A i \in 1..n : args[i] \in Arg
  BY Members
<1>2. Scans(Visited(args, Takers(allowed)), n, Taking(args, Takers(allowed)))
  BY <1>1, VisitedScans
<1>3. Scans(Heads, n, TakenByPlugin)
  BY <1>1, HeadsScan
<1>4. ASSUME NEW i \in Visited(args, Takers(allowed)), i \in Heads
      PROVE  i \in Taking(args, Takers(allowed)) <=> i \in TakenByPlugin
  <2>1. i \in 1..n /\ args[i] \in Arg
    BY <1>1, <1>2 DEF Scans
  <2>2. args[i].flag \in Options \cup {None} /\ None \notin Options
    BY <2>1, NoneAssumption DEF Arg
  <2>3. args[i].flag # None => args[i].flag \in allowed
    BY <1>4 DEF IsFlag
  <2>4. i \in Taking(args, Takers(allowed)) <=> args[i].flag \in allowed /\ args[i].value = None
    BY <1>1, <2>1 DEF Taking, Takers, HasEquals, IsFlag
  <2>5. i \in TakenByPlugin <=> args[i].flag \in Options \ Switches /\ args[i].value = None
    BY <1>1, <2>1 DEF TakenByPlugin
  <2>6. args[i].flag \in allowed <=> args[i].flag \in Options \ Switches
    BY <2>2, <2>3
  <2> QED BY <2>4, <2>5, <2>6
<1> QED BY <1>2, <1>3, <1>4, ScansAgree

(* hasSubcommand reads the words the plugin reads, in whatever passed       *)
(* refuseUnsupportedArgs.                                                   *)
LEMMA SameWords ==
    ASSUME args \in Seq(Arg), NEW allowed, None \notin allowed, allowed \cap Switches = {},
           \A i \in Heads : IsFlag(args[i]) => args[i].flag \in allowed
    PROVE  Positional(args) = PluginWords
<1>1. PICK n \in Nat : n = Len(args) /\ DOMAIN args = 1..n /\ \A i \in 1..n : args[i] \in Arg
  BY Members
<1>2. Scans(Visited(args, Takers(Options)), n, Taking(args, Takers(Options)))
  BY <1>1, VisitedScans
<1>3. Scans(Heads, n, TakenByPlugin)
  BY <1>1, HeadsScan
<1>4. ASSUME NEW i \in Heads, i \in Visited(args, Takers(Options))
      PROVE  i \in TakenByPlugin <=> i \in Taking(args, Takers(Options))
  <2>1. i \in 1..n /\ args[i] \in Arg
    BY <1>1, <1>3 DEF Scans
  <2>2. args[i].flag \in Options \cup {None} /\ None \notin Options
    BY <2>1, NoneAssumption DEF Arg
  <2>3. args[i].flag # None => args[i].flag \in allowed
    BY <1>4 DEF IsFlag
  <2>4. i \in Taking(args, Takers(Options)) <=> args[i].flag \in Options /\ args[i].value = None
    BY <1>1, <2>1, <2>2 DEF Taking, Takers, HasEquals, IsFlag
  <2>5. i \in TakenByPlugin <=> args[i].flag \in Options \ Switches /\ args[i].value = None
    BY <1>1, <2>1 DEF TakenByPlugin
  <2>6. args[i].flag \in Options <=> args[i].flag \in Options \ Switches
    BY <2>2, <2>3
  <2> QED BY <2>4, <2>5, <2>6
<1>5. Heads = Visited(args, Takers(Options))
  BY <1>2, <1>3, <1>4, ScansAgree
<1> QED BY <1>5 DEF Positional, PluginWords

(* execFlag looks up what the plugin reads, in arguments that are well      *)
(* formed.                                                                  *)
LEMMA FlagIs ==
    ASSUME args \in Seq(Arg), WellFormed, NEW names, None \notin names, names \cap Switches = {}
    PROVE  Given(args, names) = HeadsOf(names) /\ ExecFlag(args, names) = PluginValue(names)
<1>1. PICK n \in Nat : n = Len(args) /\ DOMAIN args = 1..n /\ \A i \in 1..n : args[i] \in Arg
  BY Members
<1>2. Heads \subseteq 1..n
  BY <1>1, HeadsScan DEF Scans
<1>3. ASSUME NEW i \in HeadsOf(names)
      PROVE  i \in Given(args, names)
  <2>1. i \in Heads /\ i \in 1..n /\ args[i].flag \in names /\ args[i] \in Arg
    BY <1>1, <1>2 DEF HeadsOf
  <2>2. args[i].flag \in Options \ Switches
    BY <2>1 DEF Arg
  <2>3. HasEquals(args[i]) \/ i < Len(args)
    BY <2>1, <2>2 DEF WellFormed, HeadsOf
  <2> QED BY <1>1, <2>1, <2>3 DEF Given
<1>4. ASSUME NEW i \in Given(args, names)
      PROVE  i \in HeadsOf(names)
  <2>1. i \in DOMAIN args /\ args[i].flag \in names
    BY DEF Given
  <2>2. i \in Heads
    BY <2>1 DEF WellFormed, IsFlag
  <2> QED BY <2>1, <2>2 DEF HeadsOf
<1>5. Given(args, names) = HeadsOf(names)
  BY <1>3, <1>4
<1> QED BY <1>5 DEF ExecFlag, PluginValue, ValueAt

(* refuseUnsupportedArgs refuses exactly the options of the plugin outside  *)
(* the allowlist.                                                           *)
LEMMA RefusedIs ==
    ASSUME args \in Seq(Arg), NEW allowed, None \notin allowed, allowed \cap Switches = {}
    PROVE  ~RefusedArgs(args, allowed) <=> \A i \in Heads : IsFlag(args[i]) => args[i].flag \in allowed
<1>1. ASSUME ~RefusedArgs(args, allowed)
      PROVE  \A i \in Heads : IsFlag(args[i]) => args[i].flag \in allowed
  <2>1. \A i \in Visited(args, Takers(allowed)) : IsFlag(args[i]) => args[i].flag \in allowed
    BY <1>1 DEF RefusedArgs
  <2>2. Visited(args, Takers(allowed)) = Heads
    BY <2>1, SameHeads
  <2> QED BY <2>1, <2>2
<1>2. ASSUME \A i \in Heads : IsFlag(args[i]) => args[i].flag \in allowed
      PROVE  ~RefusedArgs(args, allowed)
  <2>1. Visited(args, Takers(allowed)) = Heads
    BY <1>2, SameHeads
  <2> QED BY <1>2, <2>1 DEF RefusedArgs
<1> QED BY <1>1, <1>2

IAMNames == {"-i", "--cluster-id", "--region"}
AWSNames == {"--region", "--cluster-name", "--cluster-id", "--output"}

LEMMA ForeignNames ==
    /\ None \notin IAMNames \cup AWSNames \cup {"--server-id", "--environment"} \cup Identity
    /\ (IAMNames \cup AWSNames \cup {"--server-id", "--environment"}) \cap Switches = {}
    /\ (IAMNames \cup AWSNames \cup {"--server-id", "--environment"}) \cap Identity = {}
    /\ Identity \cap Switches = {}
<1>1. None \notin IAMNames \cup AWSNames \cup {"--server-id", "--environment"} \cup Identity
  BY NoneAssumption DEF IAMNames, AWSNames, Identity
<1> QED BY <1>1 DEF IAMNames, AWSNames, Identity, Switches

(* What a translated credential for AWS says of the arguments.              *)
LEMMA AwsTranslated ==
    ASSUME Document, Translation # Untranslatable, command # "kubelogin"
    PROVE  /\ command \in {"aws", "aws-iam-authenticator", "heptio-authenticator-aws"}
           /\ \A i \in Heads : IsFlag(args[i]) =>
                  args[i].flag \in (IF command = "aws" THEN AWSNames ELSE IAMNames)
           /\ ExecFlag(args, ClusterNames) # None
           /\ Translation = AwsCredential(ExecFlag(args, ClusterNames), ExecFlag(args, {"--region"}))
           /\ command = "aws" => HasSubcommand(args)
<1>1. args \in Seq(Arg)
  BY DEF Document
<1>2. CASE command \in {"aws-iam-authenticator", "heptio-authenticator-aws"}
  <2>1. Translation = TranslateIAMAuthenticator(args) /\ command # "aws"
    BY <1>2, TranslationIs
  <2>2. ClusterNames = {"-i", "--cluster-id"}
    BY <2>1 DEF ClusterNames
  <2>3. /\ ~RefusedArgs(args, IAMNames)
        /\ ExecFlag(args, ClusterNames) # None
        /\ Translation = AwsCredential(ExecFlag(args, ClusterNames), ExecFlag(args, {"--region"}))
    BY <2>1, <2>2 DEF TranslateIAMAuthenticator, IAMNames
  <2>4. \A i \in Heads : IsFlag(args[i]) => args[i].flag \in IAMNames
    BY <1>1, <2>3, ForeignNames, RefusedIs
  <2> QED BY <1>2, <2>1, <2>3, <2>4
<1>3. CASE command = "aws"
  <2>1. Translation = TranslateAWSCLI(args)
    BY <1>3, TranslationIs
  <2>2. ClusterNames = {"--cluster-name", "--cluster-id"}
    BY <1>3 DEF ClusterNames
  <2>3. /\ ~RefusedArgs(args, AWSNames)
        /\ ExecFlag(args, ClusterNames) # None
        /\ HasSubcommand(args)
        /\ Translation = AwsCredential(ExecFlag(args, ClusterNames), ExecFlag(args, {"--region"}))
    BY <2>1, <2>2 DEF TranslateAWSCLI, AWSNames
  <2>4. \A i \in Heads : IsFlag(args[i]) => args[i].flag \in AWSNames
    BY <1>1, <2>3, ForeignNames, RefusedIs
  <2> QED BY <1>3, <2>3, <2>4
<1> QED BY <1>2, <1>3, TranslationIs

(* ReadAsThePluginReads: for arguments of any number and order, the         *)
(* credential is for the cluster, region, application and cloud the plugin  *)
(* would have read.                                                         *)
THEOREM ReadAlike == Spec => []ReadAsThePluginReads
<1>1. KInv => ReadAsThePluginReads
  <2> SUFFICES ASSUME KInv, Translated, WellFormed PROVE ReadAsThePluginReads
    BY DEF ReadAsThePluginReads
  <2>1. credential = Translation /\ Translation # Untranslatable /\ Document /\ args \in Seq(Arg)
    BY DEF KInv, Translated, Document
  <2>2. CASE command = "kubelogin"
    <3>1. credential.env.server = ExecFlag(args, {"--server-id"})
          /\ credential.env.cloud = ExecFlag(args, {"--environment"})
      <4>1. Translation = TranslateKubelogin(args)
        BY <2>1, <2>2, TranslationIs
      <4> QED BY <2>1, <4>1 DEF TranslateKubelogin, Env
    <3>2. /\ None \notin {"--server-id"} /\ {"--server-id"} \cap Switches = {}
          /\ None \notin {"--environment"} /\ {"--environment"} \cap Switches = {}
      BY ForeignNames
    <3>3. /\ ExecFlag(args, {"--server-id"}) = PluginValue({"--server-id"})
          /\ ExecFlag(args, {"--environment"}) = PluginValue({"--environment"})
      BY <2>1, <3>2, FlagIs
    <3> QED BY <2>2, <3>1, <3>3 DEF ReadAsThePluginReads
  <2>3. CASE command # "kubelogin"
    <3>1. /\ \A i \in Heads : IsFlag(args[i]) =>
                 args[i].flag \in (IF command = "aws" THEN AWSNames ELSE IAMNames)
          /\ ExecFlag(args, ClusterNames) # None
          /\ Translation = AwsCredential(ExecFlag(args, ClusterNames), ExecFlag(args, {"--region"}))
          /\ command = "aws" => HasSubcommand(args)
      BY <2>1, <2>3, AwsTranslated
    <3>2. /\ None \notin ClusterNames /\ ClusterNames \cap Switches = {}
          /\ None \notin {"--region"} /\ {"--region"} \cap Switches = {}
      BY ForeignNames DEF ClusterNames, IAMNames, AWSNames
    <3>3. /\ ExecFlag(args, ClusterNames) = PluginValue(ClusterNames)
          /\ ExecFlag(args, {"--region"}) = PluginValue({"--region"})
      BY <2>1, <3>2, FlagIs
    <3>4. PICK cluster, region : /\ cluster = PluginValue(ClusterNames)
                                 /\ region = PluginValue({"--region"})
                                 /\ credential = AwsCredential(cluster, region)
      BY <2>1, <3>1, <3>3
    <3>5. /\ credential.cluster = cluster
          /\ IF region \in {None, Empty} THEN credential.shape = "awsAuthConfig"
             ELSE credential.env.region = region
      BY <3>4 DEF AwsCredential, Env
    <3>6. command = "aws" => Consecutive(PluginWords, <<"eks", "get-token">>)
      <4>1. SUFFICES ASSUME command = "aws" PROVE Consecutive(PluginWords, <<"eks", "get-token">>)
        OBVIOUS
      <4>2. Positional(args) = PluginWords
        BY <2>1, <3>1, <4>1, ForeignNames, SameWords
      <4> QED BY <3>1, <4>1, <4>2 DEF HasSubcommand
    <3> QED BY <2>3, <3>4, <3>5, <3>6 DEF ReadAsThePluginReads
  <2> QED BY <2>2, <2>3
<1> QED BY <1>1, KInvariance, PTL

(* NothingUsefulRefused: options before, between or after the words, in     *)
(* either spelling, do not keep a credential from being translated.         *)
THEOREM Translatable == Spec => []NothingUsefulRefused
<1>1. KInv => NothingUsefulRefused
  <2> SUFFICES ASSUME KInv,
                      credential = Untranslatable,
                      WellFormed,
                      version \in {"v1", "v1beta1"},
                      command \in {"aws", "aws-iam-authenticator"},
                      HeadsOf(Options \ (ClusterNames \cup {"--region", "--output"})) = {},
                      command = "aws" => Consecutive(PluginWords, <<"eks", "get-token">>),
                      PluginValue(ClusterNames) # None,
                      command = "aws" \/ HeadsOf({"--output"}) = {}
               PROVE  FALSE
    BY DEF NothingUsefulRefused
  <2>1. Translation = Untranslatable /\ args \in Seq(Arg)
    <3>1. credential # None
      BY NoneAssumption DEF Untranslatable
    <3> QED BY <3>1 DEF KInv, Document
  <2>2. PICK allowed : allowed = (IF command = "aws" THEN AWSNames ELSE IAMNames)
    OBVIOUS
  <2>3. \A i \in Heads : IsFlag(args[i]) => args[i].flag \in allowed
    <3>1. SUFFICES ASSUME NEW i \in Heads, IsFlag(args[i]), args[i].flag \notin allowed PROVE FALSE
      OBVIOUS
    <3>2. args[i].flag \in Options
      <4>1. Heads \subseteq 1..Len(args)
        BY <2>1, HeadsScan DEF Scans
      <4>2. args[i] \in Arg
        BY <2>1, <3>1, <4>1, Members
      <4> QED BY <3>1, <4>2 DEF Arg, IsFlag
    <3>3. args[i].flag \in ClusterNames \cup {"--region", "--output"}
      BY <3>1, <3>2 DEF HeadsOf
    <3>4. CASE command = "aws"
      BY <2>2, <3>1, <3>3, <3>4 DEF ClusterNames, AWSNames
    <3>5. CASE command # "aws"
      <4>1. args[i].flag = "--output"
        BY <2>2, <3>1, <3>3, <3>5 DEF ClusterNames, IAMNames
      <4> QED BY <3>1, <3>5, <4>1 DEF HeadsOf
    <3> QED BY <3>4, <3>5
  <2>4. None \notin allowed /\ allowed \cap Switches = {}
    BY <2>2, ForeignNames
  <2>5. ~RefusedArgs(args, allowed)
    BY <2>1, <2>3, <2>4, RefusedIs
  <2>6. ExecFlag(args, ClusterNames) # None
    <3>1. None \notin ClusterNames /\ ClusterNames \cap Switches = {}
      BY ForeignNames DEF ClusterNames, IAMNames, AWSNames
    <3> QED BY <2>1, <3>1, FlagIs
  <2>7. command = "aws" => HasSubcommand(args)
    BY <2>1, <2>3, <2>4, SameWords DEF HasSubcommand
  <2>8. Translation = AwsCredential(ExecFlag(args, ClusterNames), ExecFlag(args, {"--region"}))
    <3>1. version \in ExecVersions
      BY DEF ExecVersions
    <3>2. CASE command = "aws"
      <4>1. Translation = TranslateAWSCLI(args)
        BY <3>1, <3>2 DEF Translation, TranslateExec
      <4>2. ClusterNames = {"--cluster-name", "--cluster-id"} /\ allowed = AWSNames
        BY <2>2, <3>2 DEF ClusterNames
      <4> QED BY <2>5, <2>6, <2>7, <3>2, <4>1, <4>2 DEF TranslateAWSCLI, AWSNames
    <3>3. CASE command = "aws-iam-authenticator"
      <4>1. Translation = TranslateIAMAuthenticator(args)
        BY <3>1, <3>3 DEF Translation, TranslateExec
      <4>2. ClusterNames = {"-i", "--cluster-id"} /\ allowed = IAMNames
        BY <2>2, <3>3 DEF ClusterNames
      <4> QED BY <2>5, <2>6, <4>1, <4>2 DEF TranslateIAMAuthenticator, IAMNames
    <3> QED BY <3>2, <3>3
  <2>9. \A cluster, region : AwsCredential(cluster, region).shape # "refused"
    BY DEF AwsCredential
  <2> QED BY <2>1, <2>8, <2>9 DEF Untranslatable
<1> QED BY <1>1, KInvariance, PTL

-----------------------------------------------------------------------------
(* Arguments left out.                                                      *)

LEMMA PickedPoints ==
    ASSUME NEW K, NEW as \in Seq(K), NEW keep
    PROVE  /\ Picked(as, keep) \in Seq(K)
           /\ \E h : PointsInto(h, Picked(as, keep), as, keep, Len(as))
<1> DEFINE Eq(f) == f = [n \in 0..Len(as) |-> IF n = 0 THEN <<>>
                                              ELSE IF n \in keep THEN Append(f[n - 1], as[n])
                                              ELSE f[n - 1]]
           it == CHOOSE f : Eq(f)
<1>1. PICK f : Filters(f, as, keep, K)
  BY FilterExists
<1>2. /\ \A n \in 0..Len(as) : n # 0 => n \in 1..Len(as)
      /\ 0 \in 0..Len(as) /\ \A n \in 1..Len(as) : n \in 0..Len(as) /\ n # 0
      /\ Len(as) \in 0..Len(as)
  <2>1. \A l \in Nat : /\ \A n \in 0..l : n # 0 => n \in 1..l
                       /\ 0 \in 0..l /\ \A n \in 1..l : n \in 0..l /\ n # 0
                       /\ l \in 0..l
    OBVIOUS
  <2>2. Len(as) \in Nat
    BY Members
  <2> QED BY <2>1, <2>2
<1>3. Eq(f)
  <2>1. \A n \in 0..Len(as) : f[n] = IF n = 0 THEN <<>>
                                     ELSE IF n \in keep THEN Append(f[n - 1], as[n])
                                     ELSE f[n - 1]
    BY <1>1, <1>2 DEF Filters
  <2> QED BY <1>1, <2>1 DEF Filters
<1>4. Picked(as, keep) = it[Len(as)]
  BY DEF Picked
<1>5. Eq(it)
  <2> HIDE DEF Eq
  <2> QED BY <1>3
<1> HIDE DEF it
<1>6. /\ it = [n \in 0..Len(as) |-> it[n]]
      /\ it[0] = <<>>
      /\ \A n \in 1..Len(as) : it[n] = IF n \in keep THEN Append(it[n - 1], as[n]) ELSE it[n - 1]
  BY <1>2, <1>5
<1> HIDE DEF Eq
<1>7. it = f
  <2>1. as \in Seq(K)
    OBVIOUS
  <2>2. /\ it = [n \in 0..Len(as) |-> it[n]]
        /\ it[0] = <<>>
        /\ \A n \in 1..Len(as) : it[n] = IF n \in keep THEN Append(it[n - 1], as[n]) ELSE it[n - 1]
    BY <1>6
  <2>3. Filters(f, as, keep, K)
    BY <1>1
  <2>4. Follows(it, as, keep)
    BY <2>2 DEF Follows
  <2> QED BY <2>1, <2>3, <2>4, FilterFollows
<1>8. f[Len(as)] \in Seq(K)
  BY <1>1, <1>2 DEF Filters
<1>9. \E h : PointsInto(h, f[Len(as)], as, keep, Len(as))
  BY <1>1, FilterPoints
<1> QED BY <1>4, <1>7, <1>8, <1>9

(* What an option takes for its value is no option or word itself.          *)
LEMMA TakenIsNoHead ==
    ASSUME args \in Seq(Arg), NEW i \in Heads, IsFlag(args[i]), args[i].flag \notin Switches,
           ~HasEquals(args[i])
    PROVE  i \in Nat /\ i + 1 \notin Heads
<1>1. PICK n \in Nat : n = Len(args) /\ DOMAIN args = 1..n /\ \A k \in 1..n : args[k] \in Arg
  BY Members
<1>2. Scans(Heads, n, TakenByPlugin)
  BY <1>1, HeadsScan
<1>3. i \in 1..n /\ args[i] \in Arg
  BY <1>1, <1>2 DEF Scans
<1>4. i \in TakenByPlugin
  <2>1. args[i].flag \in Options \ Switches /\ args[i].value = None
    BY <1>3 DEF Arg, IsFlag, HasEquals
  <2> QED BY <1>1, <1>3, <2>1 DEF TakenByPlugin
<1>5. PICK m \in Nat : m = i + 1 /\ m - 1 = i
  BY <1>3
<1>6. m \notin Heads
  BY <1>2, <1>4, <1>5 DEF Scans
<1> QED BY <1>3, <1>5, <1>6

(* The positions left when the options of identity are taken away with      *)
(* their values.                                                            *)
Harmless ==
    DOMAIN args \ (HeadsOf(Identity) \cup {i + 1 : i \in {j \in HeadsOf(Identity) : ~HasEquals(args[j])}})

LEMMA HarmlessKeeps ==
    ASSUME args \in Seq(Arg), WellFormed, NEW names, None \notin names,
           names \cap Switches = {}, names \cap Identity = {}, NEW i \in HeadsOf(names)
    PROVE  i \in Harmless /\ (~HasEquals(args[i]) => i < Len(args) /\ i + 1 \in Harmless)
<1>1. PICK n \in Nat : n = Len(args) /\ DOMAIN args = 1..n /\ \A k \in 1..n : args[k] \in Arg
  BY Members
<1>2. Heads \subseteq 1..n
  BY <1>1, HeadsScan DEF Scans
<1>3. /\ i \in Heads /\ i \in 1..n /\ args[i].flag \in names /\ IsFlag(args[i])
      /\ args[i].flag \in Options \ Switches /\ i \notin HeadsOf(Identity)
  BY <1>1, <1>2 DEF HeadsOf, IsFlag, Arg
<1>4. ASSUME NEW j \in HeadsOf(Identity), ~HasEquals(args[j])
      PROVE  j \in Nat /\ j + 1 \notin Heads
  <2>1. j \in Heads /\ args[j].flag \in Identity
    BY DEF HeadsOf
  <2>2. IsFlag(args[j]) /\ args[j].flag \notin Switches
    BY <2>1, ForeignNames DEF IsFlag
  <2> QED BY <1>4, <2>1, <2>2, TakenIsNoHead
<1>5. i \in Harmless
  BY <1>1, <1>3, <1>4 DEF Harmless
<1>6. ASSUME ~HasEquals(args[i])
      PROVE  i < Len(args) /\ i + 1 \in Harmless
  <2>1. i < n
    <3>1. i \in HeadsOf(Options \ Switches)
      BY <1>3 DEF HeadsOf
    <3> QED BY <1>1, <1>6, <3>1 DEF WellFormed
  <2>2. i + 1 \in 1..n
    <3>1. i \in 1..n
      BY <1>3
    <3> QED BY <2>1, <3>1
  <2>3. i + 1 \notin HeadsOf(Identity)
    BY <1>3, <1>6, TakenIsNoHead DEF HeadsOf
  <2>4. ASSUME NEW j \in HeadsOf(Identity), ~HasEquals(args[j]), i + 1 = j + 1
        PROVE  FALSE
    <3>1. j \in Nat /\ i \in Nat
      BY <1>3, <1>4, <2>4
    <3>2. i = j
      BY <2>4, <3>1
    <3> QED BY <1>3, <3>2
  <2> QED BY <1>1, <2>1, <2>2, <2>3, <2>4 DEF Harmless
<1> QED BY <1>5, <1>6

(* A value is looked up in what is left as it is in the whole.              *)
LEMMA LeftAlike ==
    ASSUME args \in Seq(Arg), WellFormed, NEW names, None \notin names,
           names \cap Switches = {}, names \cap Identity = {},
           \A i, j \in HeadsOf(names) : i = j
    PROVE  ExecFlag(Picked(args, Harmless), names) = ExecFlag(args, names)
<1>1. PICK n \in Nat : n = Len(args) /\ DOMAIN args = 1..n /\ \A k \in 1..n : args[k] \in Arg
  BY Members
<1>2. PICK r : r \in Seq(Arg) /\ r = Picked(args, Harmless)
               /\ \E h : PointsInto(h, r, args, Harmless, n)
  BY <1>1, PickedPoints
<1>a. PICK h : PointsInto(h, r, args, Harmless, n)
  BY <1>2
<1>3. PICK l \in Nat : l = Len(r) /\ DOMAIN r = 1..l
  BY <1>2, Members
<1>4. Given(args, names) = HeadsOf(names)
  BY FlagIs
<1>5. /\ \A p \in 1..l : h[p] \in 1..n /\ r[p] = args[h[p]]
      /\ \A p, q \in 1..l : p < q => h[p] < h[q]
      /\ \A m \in 1..n : m \in Harmless => \E p \in 1..l : h[p] = m
  BY <1>a, <1>3 DEF PointsInto
<1>6. ASSUME NEW q \in Given(r, names)
      PROVE  q \in 1..l /\ h[q] \in HeadsOf(names)
  <2>1. q \in 1..l /\ r[q].flag \in names
    BY <1>3 DEF Given
  <2>2. h[q] \in 1..n /\ args[h[q]].flag \in names
    BY <1>5, <2>1
  <2>3. h[q] \in Heads
    BY <1>1, <2>2 DEF WellFormed, IsFlag
  <2> QED BY <2>1, <2>2, <2>3 DEF HeadsOf
<1>7. CASE HeadsOf(names) = {}
  <2>1. Given(r, names) = {}
    BY <1>6, <1>7
  <2> QED BY <1>2, <1>4, <1>7, <2>1 DEF ExecFlag
<1>8. CASE HeadsOf(names) # {}
  <2>1. PICK i \in HeadsOf(names) : HeadsOf(names) = {i}
    BY <1>8
  <2>2. i \in 1..n /\ args[i].flag \in names
    <3>1. Heads \subseteq 1..n
      BY <1>1, HeadsScan DEF Scans
    <3> QED BY <3>1 DEF HeadsOf
  <2>3. i \in Harmless /\ (~HasEquals(args[i]) => i < n /\ i + 1 \in Harmless)
    BY <1>1, HarmlessKeeps
  <2>4. PICK p \in 1..l : h[p] = i
    BY <1>5, <2>2, <2>3
  <2>5. r[p] = args[i]
    BY <1>5, <2>4
  <2>6. ASSUME ~HasEquals(args[i])
        PROVE  p + 1 \in 1..l /\ p < l /\ r[p + 1] = args[i + 1]
    <3>1. PICK m \in Nat : m = i + 1
      BY <2>2
    <3>2. m \in 1..n /\ m \in Harmless
      BY <2>2, <2>3, <2>6, <3>1
    <3>3. PICK q \in 1..l : h[q] = m
      BY <1>5, <3>2
    <3>4. p < q
      <4>1. ~(q < p) /\ q # p
        <5>1. ~(m < i) /\ m # i
          BY <2>2, <3>1
        <5> QED BY <1>5, <2>4, <3>3, <5>1
      <4> QED BY <4>1
    <3>5. PICK o \in Nat : o = p + 1
      OBVIOUS
    <3>6. o \in 1..l /\ p < o /\ p < l
      BY <3>4, <3>5
    <3>7. o = q
      <4>1. SUFFICES ASSUME o < q PROVE FALSE
        BY <3>4, <3>5
      <4>2. i < h[o] /\ h[o] < m /\ h[o] \in 1..n
        BY <1>5, <2>4, <3>3, <3>6, <4>1
      <4> QED BY <2>2, <3>1, <4>2
    <3>8. r[o] = args[m]
      BY <1>5, <3>3, <3>7
    <3> QED BY <3>1, <3>5, <3>6, <3>8
  <2>7. Given(r, names) = {p}
    <3>1. p \in Given(r, names)
      <4>1. HasEquals(r[p]) \/ p < Len(r)
        BY <1>3, <2>5, <2>6
      <4> QED BY <1>3, <2>2, <2>5, <4>1 DEF Given
    <3>2. ASSUME NEW q \in Given(r, names)
          PROVE  q = p
      <4>1. q \in 1..l /\ h[q] = h[p]
        BY <1>6, <2>1, <2>4
      <4>2. ~(q < p) /\ ~(p < q)
        <5>1. ~(h[p] < h[p])
          BY <2>2, <2>4
        <5> QED BY <1>5, <4>1, <5>1
      <4> QED BY <4>1, <4>2
    <3> QED BY <3>1, <3>2
  <2>8. First({p}) = p /\ First({i}) = i
    <3>1. {p} \in SUBSET Nat /\ {i} \in SUBSET Nat
      BY <2>2
    <3> QED BY <3>1, FirstOf
  <2>9. ExecFlag(r, names) = IF HasEquals(r[p]) THEN Word(r[p].value) ELSE r[p + 1]
    BY <2>7, <2>8 DEF ExecFlag
  <2>10. ExecFlag(args, names) = IF HasEquals(args[i]) THEN Word(args[i].value) ELSE args[i + 1]
    BY <1>4, <2>1, <2>8 DEF ExecFlag
  <2>11. CASE HasEquals(args[i])
    BY <1>2, <2>5, <2>9, <2>10, <2>11
  <2>12. CASE ~HasEquals(args[i])
    BY <1>2, <2>5, <2>6, <2>9, <2>10, <2>12
  <2> QED BY <2>11, <2>12
<1> QED BY <1>7, <1>8

(* IdentityNotForwarded: an option that names a principal is refused or     *)
(* makes no difference, wherever it stands and however it is spelled.       *)
THEOREM IdentityIgnored == Spec => []IdentityNotForwarded
<1>1. KInv => IdentityNotForwarded
  <2> SUFFICES ASSUME KInv, Translated, HeadsOf(Identity) # {}
               PROVE  /\ command = "kubelogin"
                      /\ WellFormed => credential = TranslateExec(command, version, Picked(args, Harmless))
    BY DEF IdentityNotForwarded, Harmless
  <2>1. credential = Translation /\ Translation # Untranslatable /\ Document /\ args \in Seq(Arg)
    BY DEF KInv, Translated, Document
  <2>2. command = "kubelogin"
    <3>1. SUFFICES ASSUME command # "kubelogin" PROVE FALSE
      OBVIOUS
    <3>2. \A i \in Heads : IsFlag(args[i]) =>
              args[i].flag \in (IF command = "aws" THEN AWSNames ELSE IAMNames)
      BY <2>1, <3>1, AwsTranslated
    <3>3. PICK i \in Heads : args[i].flag \in Identity
      BY DEF HeadsOf
    <3>4. IsFlag(args[i])
      BY <3>3, ForeignNames DEF IsFlag
    <3>5. args[i].flag \in IAMNames \cup AWSNames
      BY <3>2, <3>4
    <3> QED BY <3>3, <3>5, ForeignNames
  <2>3. version \in ExecVersions /\ Translation = TranslateKubelogin(args)
    BY <2>1, <2>2, TranslationIs
  <2>4. TranslateExec(command, version, Picked(args, Harmless)) = TranslateKubelogin(Picked(args, Harmless))
    BY <2>2, <2>3 DEF TranslateExec
  <2>5. ASSUME WellFormed, NEW f \in {"--server-id", "--environment"}
        PROVE  ExecFlag(Picked(args, Harmless), {f}) = ExecFlag(args, {f})
    <3>1. None \notin {f} /\ {f} \cap Switches = {} /\ {f} \cap Identity = {}
      BY ForeignNames
    <3>2. ASSUME NEW i \in HeadsOf({f}), NEW j \in HeadsOf({f})
          PROVE  i = j
      <4>1. i \in Heads /\ j \in Heads /\ args[i].flag = f /\ args[j].flag = f
        BY DEF HeadsOf
      <4>2. f \in Options
        <5>1. Heads \subseteq 1..Len(args)
          BY <2>1, HeadsScan DEF Scans
        <5>2. args[i] \in Arg
          BY <2>1, <4>1, <5>1, Members
        <5> QED BY <3>1, <4>1, <5>2 DEF Arg
      <4>3. f \in Alias(f)
        BY DEF Alias
      <4> QED BY <2>5, <4>1, <4>2, <4>3 DEF WellFormed, HeadsOf
    <3> QED BY <2>1, <2>5, <3>1, <3>2, LeftAlike
  <2>6. WellFormed => TranslateKubelogin(Picked(args, Harmless)) = TranslateKubelogin(args)
    BY <2>5 DEF TranslateKubelogin
  <2> QED BY <2>1, <2>2, <2>3, <2>4, <2>6
<1> QED BY <1>1, KInvariance, PTL

=============================================================================
