SPECIFICATION Spec
CONSTANTS
  Namespaces <- MCNamespaces
  Clusters = {c1, c2}
  Kubeconfigs = {k1}
  Address <- SharedAddress
  Workers = {w1}
  DemotedTTL = 0
  Edits = {"namespace", "pin"}
  MaxEdits = 3
  MaxTime = 0
  None = None
SYMMETRY ClusterSymmetry
PROPERTIES PinNeverRemoved
