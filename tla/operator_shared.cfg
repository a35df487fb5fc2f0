SPECIFICATION SettledSpec
CONSTANTS
  Profiles = {"shop", "cart"}
  Workloads = {"web"}
  PolicyNames = {"allow", "open"}
  None = None
  UserOps = {"name"}
  NewModes = {"Enforce"}
  GitOps = FALSE
  MaxEdits = 2
  MaxFaults = 0
  MaxUid = 5
  MaxFlushes = 1
INVARIANT PublishedBeforeApplied
PROPERTY EnforcementConverges
CHECK_DEADLOCK FALSE
