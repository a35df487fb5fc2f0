SPECIFICATION Spec
CONSTANTS
  Profiles = {"shop"}
  Workloads = {"web", "batch"}
  PolicyNames = {"allow"}
  None = None
  UserOps <- Editing
  NewModes = {"Observe"}
  GitOps = FALSE
  MaxEdits = 2
  MaxFaults = 0
  MaxUid = 2
  MaxFlushes = 2
PROPERTY BaselineFollowsTarget
CHECK_DEADLOCK FALSE
