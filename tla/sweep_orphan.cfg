SPECIFICATION FairSweepSpec
CONSTANTS
  Namespaces <- OneNamespace
  Clusters = {c1}
  Kubeconfigs = {k1}
  Address <- MovingAddress
  Workers = {w1, sweeper}
  Sweeper = sweeper
  DemotedTTL = 0
  Edits = {"namespace"}
  MaxEdits = 1
  MaxTime = 0
  MaxFaults = 0
  None = None
PROPERTIES OrphansCollected
CHECK_DEADLOCK FALSE
