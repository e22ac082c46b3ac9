SPECIFICATION MCSpec
CONSTANTS
  Namespaces <- MCNamespaces
  Clusters = {c1, c2}
  Kubeconfigs = {k1}
  Address <- MCAddress
  Workers = {w1, w2}
  Scenes <- TwoInstances
  DemotedTTL = 1
  Edits = {"namespace", "relabel", "pin", "strip", "replace"}
  MaxEdits = 2
  MaxTime = 2
  None = None
SYMMETRY InstanceSymmetry
INVARIANT IInv
PROPERTIES NoTakeover PinSurvives ExpiryRechecked ImplementsRegistry
