SPECIFICATION SettledSpec
CONSTANTS
  Profiles = {"shop"}
  Workloads = {"web", "batch"}
  PolicyNames = {"allow", "open"}
  None = None
  UserOps = {"target", "name"}
  NewModes = {"Enforce"}
  GitOps = TRUE
  MaxEdits = 2
  MaxFaults = 1
  MaxUid = 3
  MaxFlushes = 1
PROPERTIES BaselineNeverRolledBack PolicyCopiesConverge CountersConverge
CHECK_DEADLOCK FALSE
