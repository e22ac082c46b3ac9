SPECIFICATION FairSpec
CONSTANTS
  Instances <- MCInstances
  Deployments <- MCDeployments
  None = None
INVARIANTS TakenForGranted Boundary AsAskedFor OneAtWork PreFlightHoldsNothing
PROPERTY LeftAlone
CHECK_DEADLOCK FALSE
