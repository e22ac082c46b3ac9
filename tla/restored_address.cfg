SPECIFICATION Spec
CONSTANTS
  Namespaces <- MCNamespaces
  Clusters = {c1, c2, c3}
  Kubeconfigs = {k1, k2}
  Address <- MovingAddress
  Workers = {w1}
  DemotedTTL = 0
  Edits = {"relabel", "kubeconfig"}
  MaxEdits = 4
  MaxTime = 0
  None = None
SYMMETRY AddressSymmetry
INVARIANTS AddressUnique
