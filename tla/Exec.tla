-------------------------------- MODULE Exec --------------------------------
(***************************************************************************)
(* The translation of a kubeconfig's credential plugin into ArgoCD's       *)
(* equivalent (exec.go).  Three scanners read one argument list: the one   *)
(* that looks a value up, the one that refuses what it does not know, and  *)
(* the one that looks for a subcommand.  They, and the plugin itself when  *)
(* it is run, have to agree on which argument is an option and which is    *)
(* the value of the option before it.                                      *)
(***************************************************************************)
EXTENDS Naturals, Sequences

CONSTANTS
    Commands,     \* base names of the plugins that occur
    Versions,     \* the apiVersions that occur
    Options,      \* the options that occur
    Words,        \* what occurs as a word, or as the value of an option
    None          \* nothing: no option, no value, no credential yet

(* "-f", "-f=v" or "v".                                                     *)
Arg == [flag : Options \cup {None}, value : Words \cup {None}]
          \ {[flag |-> None, value |-> None]}

(* The credentials that ArgoCD can be given for a plugin: the command in    *)
(* one is never the source's, but one of those this tool writes, and the    *)
(* environment holds only what it knows.                                    *)
Shapes ==
    LET Value == Arg \cup {None} IN
    [shape : {"awsAuthConfig"}, cluster : Arg]
      \cup [shape : {"argocd-k8s-auth aws"}, cluster : Arg,
            env : [region : Arg, server : {None}, cloud : {None}]]
      \cup [shape : {"argocd-k8s-auth azure"}, cluster : {None},
            env : [region : {None}, server : Value, cloud : Value]]

ASSUME NoneAssumption ==
    None \notin Options \cup Words \cup Arg \cup Shapes \cup {[shape |-> "refused"]} \cup
        {"-i", "--cluster-id", "--cluster-name", "--region", "--output", "--server-id", "--environment",
         "-r", "--role", "--role-arn", "--profile", "--login", "--client-id"}

VARIABLES
    command,      \* of the plugin the kubeconfig names
    version,
    args,
    credential    \* what translateExec makes of them, once it was asked to

plugin == <<command, version, args>>

Word(w) == [flag |-> None, value |-> w]
IsFlag(a) == a.flag # None
HasEquals(a) == IsFlag(a) /\ a.value # None
Empty == Word("")

-----------------------------------------------------------------------------
(* The scanners.                                                           *)

(* execFlag: the value of the first of the names, the text of the next      *)
(* argument whatever it is, or None.                                        *)
Given(as, names) ==
    {i \in DOMAIN as : as[i].flag \in names /\ (HasEquals(as[i]) \/ i < Len(as))}

First(S) == CHOOSE i \in S : \A j \in S : i <= j

FlagIgnoringEquals(as, names) ==
    LET S == Given(as, names) \ {Len(as)} IN IF S = {} THEN None ELSE as[First(S) + 1]

ExecFlag(as, names) ==
    IF Given(as, names) = {} THEN None
    ELSE LET i == First(Given(as, names))
         IN  IF HasEquals(as[i]) THEN Word(as[i].value) ELSE as[i + 1]

(* The positions a scan from left to right stops at, when the arguments of  *)
(* takers take the next one for their value.                                *)
Visited(as, takers) ==
    LET visited[i \in 0..Len(as)] ==
            i > 0 => ~(i > 1 /\ visited[i - 1] /\ as[i - 1] \in takers)
    IN  {i \in DOMAIN as : visited[i]}

TakersWithEquals(allowed) == {a \in Arg : a.flag \in allowed}
Takers(allowed) == {a \in Arg : a.flag \in allowed /\ ~HasEquals(a)}

(* refuseUnsupportedArgs: an option outside the allowlist, unless it is the *)
(* value of one inside.                                                     *)
RefusedArgs(as, allowed) ==
    \E i \in Visited(as, Takers(allowed)) : IsFlag(as[i]) /\ as[i].flag \notin allowed

(* The arguments at these positions.                                        *)
Picked(as, positions) ==
    LET upTo[n \in 0..Len(as)] ==
            IF n = 0 THEN <<>>
            ELSE IF n \in positions THEN Append(upTo[n - 1], as[n])
            ELSE upTo[n - 1]
    IN  upTo[Len(as)]

(* hasSubcommand: the words that no option takes for its value, any option  *)
(* taking one.                                                              *)
WordsAmong(as, positions) == Picked(as, {i \in positions : ~IsFlag(as[i])})

PositionalAfterEquals(as) == WordsAmong(as, Visited(as, TakersWithEquals(Options)))
Positional(as) == WordsAmong(as, Visited(as, Takers(Options)))

Consecutive(words, want) ==
    \E i \in 0..(Len(words) - Len(want)) :
        \A n \in DOMAIN want : words[i + n] = Word(want[n])

HasSubcommand(as) == Consecutive(Positional(as), <<"eks", "get-token">>)

-----------------------------------------------------------------------------
(* The translators.  A credential names its shape, the cluster, and the     *)
(* environment; a region decides between ArgoCD's two shapes.               *)

Untranslatable == [shape |-> "refused"]
Env(region, server, cloud) == [region |-> region, server |-> server, cloud |-> cloud]

AwsCredential(cluster, region) ==
    IF region \in {None, Empty} THEN [shape |-> "awsAuthConfig", cluster |-> cluster]
    ELSE [shape |-> "argocd-k8s-auth aws", cluster |-> cluster, env |-> Env(region, None, None)]

TranslateIAMAuthenticator(as) ==
    LET cluster == ExecFlag(as, {"-i", "--cluster-id"})
    IN  IF RefusedArgs(as, {"-i", "--cluster-id", "--region"}) \/ cluster = None
        THEN Untranslatable
        ELSE AwsCredential(cluster, ExecFlag(as, {"--region"}))

TranslateAWSCLI(as) ==
    LET cluster == ExecFlag(as, {"--cluster-name", "--cluster-id"})
    IN  IF \/ ~HasSubcommand(as)
           \/ RefusedArgs(as, {"--region", "--cluster-name", "--cluster-id", "--output"})
           \/ cluster = None
        THEN Untranslatable
        ELSE AwsCredential(cluster, ExecFlag(as, {"--region"}))

(* Nothing is refused; what describes the caller is not carried over.       *)
TranslateKubelogin(as) ==
    [shape |-> "argocd-k8s-auth azure", cluster |-> None,
     env |-> Env(None, ExecFlag(as, {"--server-id"}), ExecFlag(as, {"--environment"}))]

ExecVersions == {"", "v1beta1", "v1"}

TranslateExec(c, v, as) ==
    IF v \notin ExecVersions THEN Untranslatable
    ELSE
    CASE c \in {"aws-iam-authenticator", "heptio-authenticator-aws"} -> TranslateIAMAuthenticator(as)
      [] c = "aws" -> TranslateAWSCLI(as)
      [] c = "kubelogin" -> TranslateKubelogin(as)
      [] OTHER -> Untranslatable

-----------------------------------------------------------------------------
(* How the plugin itself reads the arguments, when it is run: some of its   *)
(* options take a value, some are switches.                                 *)

Switches == {"--debug", "--legacy"}

(* The arguments it takes for options or words: the set of positions of     *)
(* which a position is a member unless a member before it took it.          *)
Heads ==
    CHOOSE H \in SUBSET DOMAIN args :
        \A i \in DOMAIN args :
            i \in H <=> ~(/\ i - 1 \in H
                        /\ args[i - 1].flag \in Options \ Switches
                        /\ args[i - 1].value = None)

HeadsOf(names) == {i \in Heads : args[i].flag \in names}

ValueAt(i) == IF HasEquals(args[i]) THEN Word(args[i].value) ELSE args[i + 1]

(* Names of one and the same option.                                        *)
ClusterNames == IF command = "aws" THEN {"--cluster-name", "--cluster-id"} ELSE {"-i", "--cluster-id"}
Alias(f) == IF f \in ClusterNames THEN ClusterNames ELSE {f}

(* The plugin has the values it needs, no option is repeated (a plugin      *)
(* takes the last, execFlag the first), and no option is another's value.   *)
WellFormed ==
    /\ \A i \in HeadsOf(Options \ Switches) : HasEquals(args[i]) \/ i < Len(args)
    /\ \A i, j \in HeadsOf(Options) : args[j].flag \in Alias(args[i].flag) => i = j
    /\ \A i \in DOMAIN args : IsFlag(args[i]) => i \in Heads

PluginValue(names) ==
    IF HeadsOf(names) = {} THEN None ELSE ValueAt(First(HeadsOf(names)))

PluginWords == WordsAmong(args, Heads)

Translated == credential # None /\ credential # Untranslatable

-----------------------------------------------------------------------------
(* Properties.                                                             *)

(* A credential that was translated is of one of the shapes.                *)
KnownShapes == Translated => credential \in Shapes

(* A namespace does not choose the identity ArgoCD presents (the comments   *)
(* on argoAWSAuthConfig and translateKubelogin): arguments that name a      *)
(* principal to the plugin, however they are spelled and wherever they      *)
(* stand, are refused or make no difference.                                *)
Identity == {"-r", "--role", "--role-arn", "--profile", "--login", "--client-id"}

IdentityNotForwarded ==
    LET named == HeadsOf(Identity)
        values == {i + 1 : i \in {j \in named : ~HasEquals(args[j])}}
        without == Picked(args, DOMAIN args \ (named \cup values))
    IN  (Translated /\ named # {}) =>
            /\ command = "kubelogin"
            /\ WellFormed => credential = TranslateExec(command, version, without)

(* A translated credential is for what the plugin would have asked a token  *)
(* for: the cluster, region, server application and cloud are those the     *)
(* plugin would have read, and aws would have been told to get a token.     *)
ReadAsThePluginReads ==
    (Translated /\ WellFormed) =>
        IF command = "kubelogin"
        THEN /\ credential.env.server = PluginValue({"--server-id"})
             /\ credential.env.cloud = PluginValue({"--environment"})
        ELSE /\ credential.cluster = PluginValue(ClusterNames)
             /\ LET region == PluginValue({"--region"})
                IN  IF region \in {None, Empty} THEN credential.shape = "awsAuthConfig"
                    ELSE credential.env.region = region
             /\ command = "aws" => Consecutive(PluginWords, <<"eks", "get-token">>)

(* And nothing it could have translated is refused: that options stand      *)
(* before, between or after the words of the command does not matter.       *)
NothingUsefulRefused ==
    /\ credential = Untranslatable
    /\ WellFormed
    /\ version \in {"v1", "v1beta1"}
    /\ command \in {"aws", "aws-iam-authenticator"}
    /\ HeadsOf(Options \ (ClusterNames \cup {"--region", "--output"})) = {}
    /\ command = "aws" => Consecutive(PluginWords, <<"eks", "get-token">>)
    =>
    PluginValue(ClusterNames) = None \/ (command # "aws" /\ HeadsOf({"--output"}) # {})

=============================================================================
