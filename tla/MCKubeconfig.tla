---------------------------- MODULE MCKubeconfig ----------------------------
(* Values for model checking Kubeconfig.                                   *)
EXTENDS Kubeconfig

At(slashes) == [host |-> "child.example.com", port |-> None, upper |-> FALSE, path |-> slashes > 0, slashes |-> slashes]

Plain(n) == [server |-> At(n), ca |-> "data", insecure |-> FALSE, serverName |-> FALSE,
             proxy |-> None]

WithToken(n) == [id |-> n, cert |-> FALSE, key |-> FALSE, token |-> TRUE, exec |-> FALSE,
                 certFile |-> FALSE, tokenFile |-> FALSE, authProvider |-> FALSE, unread |-> FALSE]
WithPlugin == [WithToken(1) EXCEPT !.token = FALSE, !.exec = TRUE]

(* Any address with a plain cluster around it, any cluster at one address.  *)
AnyCluster ==
    {c \in Cluster :
        \/ c.server = At(1)
        \/ c.ca = "data" /\ ~c.insecure /\ ~c.serverName /\ c.proxy = None}

AnyUser == [id : {1}, cert : BOOLEAN, key : BOOLEAN, token : BOOLEAN, exec : BOOLEAN,
            certFile : BOOLEAN, tokenFile : BOOLEAN, authProvider : BOOLEAN, unread : BOOLEAN]

(* A user of each kind, for every cluster.                                  *)
AnyKindOfUser ==
    {u \in AnyUser : /\ u.cert = u.key
                     /\ ~(u.certFile \/ u.tokenFile \/ u.authProvider \/ u.unread)}

(* One cluster, one user and one context, with a plugin ArgoCD has an       *)
(* equivalent for, and one it has none for.                                 *)
One == [names |-> {"a"}, clusters |-> {Plain(0)}, users |-> {WithPlugin}, entries |-> {1},
        contexts |-> {1}, current |-> {"a"}, gates |-> {TRUE}, commands |-> {"kubelogin", "gke-gcloud-auth-plugin"},
        versions |-> {"v1"}, options |-> {}, words |-> {}, args |-> 0]

(* Two clusters that differ in address, two users that differ in whose      *)
(* credential it is, under names that repeat, dangle or are missing.        *)
Pairs == [One EXCEPT !.names = {"a", "b"}, !.clusters = {Plain(0), Plain(1)},
                     !.users = {WithToken(1), WithToken(2)}, !.entries = 0..2,
                     !.contexts = 0..2, !.current = {"a", "b", None}, !.commands = {"kubelogin"}]

AllClusters == [One EXCEPT !.clusters = AnyCluster, !.users = AnyKindOfUser,
                           !.gates = BOOLEAN]
AllUsers == [One EXCEPT !.clusters = {Plain(0), [Plain(1) EXCEPT !.ca = "file"]},
                        !.users = AnyUser, !.gates = BOOLEAN]

(* A region, a cluster name and a role spelled every way for the AWS CLI,   *)
(* and everything the other plugins tell apart.                             *)
AwsArguments == [One EXCEPT !.commands = {"aws"}, !.args = 5,
                            !.options = {"--region", "--cluster-name", "--role-arn"},
                            !.words = {"eks", "get-token"}]
OtherArguments ==
    [One EXCEPT !.commands = {"aws-iam-authenticator", "kubelogin", "gke-gcloud-auth-plugin"},
                !.versions = {"v1", "v1alpha1"}, !.args = 3,
                !.options = {"-i", "--region", "--role", "--server-id", "--login", "--legacy"},
                !.words = {"prod", ""}]

MCRanges == {Pairs, AllClusters, AllUsers, AwsArguments, OtherArguments}
=============================================================================
