SPECIFICATION MCSpec
CONSTANTS
  Namespaces <- TwoNamespaces
  Clusters = {c1, c2}
  Kubeconfigs = {k1, k2}
  Address <- MovingAddress
  Workers = {w1, sweeper}
  Sweeper = sweeper
  DemotedTTL = 0
  Edits = {"namespace", "unmanage", "pin", "remove", "replace"}
  MaxEdits = 2
  MaxTime = 0
  MaxFaults = 1
  None = None
SYMMETRY ClusterSymmetry
INVARIANTS ForgottenOnlyBeside OrphansSwept
CHECK_DEADLOCK FALSE
