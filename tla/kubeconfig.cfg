SPECIFICATION Spec
CONSTANTS
  Commands = {"aws", "aws-iam-authenticator", "kubelogin", "gke-gcloud-auth-plugin"}
  Versions = {"v1", "v1alpha1"}
  Options = {"-i", "--region", "--cluster-name", "--role", "--role-arn", "--server-id", "--login", "--legacy"}
  Words = {"eks", "get-token", "prod", ""}
  Ranges <- MCRanges
  None = None
INVARIANTS TypeOK SameConnection NeverMixed UsableRegistered
INVARIANTS IdentityNotForwarded ReadAsThePluginReads NothingUsefulRefused
CHECK_DEADLOCK FALSE
