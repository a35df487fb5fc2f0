SPECIFICATION FairSpec
CONSTANTS
  Profiles = {"shop"}
  Workloads = {"web"}
  PolicyNames = {"allow"}
  None = None
  UserOps <- Removal
  NewModes = {"Enforce"}
  GitOps = FALSE
  MaxEdits = 3
  MaxFaults = 0
  MaxUid = 3
  MaxFlushes = 0
PROPERTY CleanupEventually
CHECK_DEADLOCK FALSE
