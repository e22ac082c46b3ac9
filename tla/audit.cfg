SPECIFICATION FairSpec
CONSTANTS
  Secrets = {"s", "t"}
  Written = {"s"}
  Configs <- AllKinds
  Kinds <- MCKinds
  Lifetime = 4
  Day = 2
  Week = 3
  Month = 4
  MaxTime = 4
  None = None
INVARIANTS Exact ScrapeBounded
PROPERTY Reported
CHECK_DEADLOCK FALSE
