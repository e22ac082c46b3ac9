SPECIFICATION Spec
CONSTANTS
  Secrets <- TwoSecrets
  Providers <- Overlapping
  Keys = {"value", "conf"}
  Types = {"capi", "Opaque"}
  Contents <- Meetings
  None = None
INVARIANTS ChoosesPreferred WarnsOfMisorder
CHECK_DEADLOCK FALSE
