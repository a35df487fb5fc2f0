SPECIFICATION FairSpec
CONSTANTS
  Profiles = {"shop"}
  Workloads = {"web"}
  PolicyNames = {"allow"}
  None = None
  UserOps <- Workflow
  NewModes = {"Enforce"}
  GitOps = FALSE
  MaxEdits = 3
  MaxFaults = 1
  MaxUid = 3
  MaxFlushes = 0
PROPERTIES EnforcementConverges StatusConverges
CHECK_DEADLOCK FALSE
