SPECIFICATION FairSpec
CONSTANTS
  Namespaces <- OneNamespace
  Clusters = {c1, c2}
  Kubeconfigs = {k1, k2}
  Address <- MovingAddress
  Workers = {w1}
  DemotedTTL = 0
  Edits = {"namespace", "relabel", "unmanage", "kubeconfig", "pin", "remove"}
  MaxEdits = 3
  MaxTime = 0
  MaxFaults = 1
  None = None
PROPERTIES OrphansCollected Converges
CHECK_DEADLOCK FALSE
