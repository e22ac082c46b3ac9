SPECIFICATION MCSpec
CONSTANTS
  Namespaces <- MCNamespaces
  Clusters = {c1, c2}
  Kubeconfigs = {k1, k2}
  Address <- MCAddress
  Workers = {w1}
  Scenes <- OneInstance
  DemotedTTL = 1
  Edits = {"namespace", "relabel", "unmanage", "kubeconfig", "pin", "strip", "remove", "replace", "foreign"}
  MaxEdits = 4
  MaxTime = 2
  None = None
SYMMETRY ClusterSymmetry
INVARIANTS TypeOK FinishedOwnsNothing
PROPERTIES RemovalNeedsProof DemotedOnlyWhenReplaced ClaimsFreeAddress
