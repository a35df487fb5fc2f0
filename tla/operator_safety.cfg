SPECIFICATION Spec
CONSTANTS
  Profiles = {"shop"}
  Workloads = {"web"}
  PolicyNames = {"allow"}
  None = None
  UserOps <- Lifecycle
  NewModes = {"Suggest", "Enforce"}
  GitOps = FALSE
  MaxEdits = 3
  MaxFaults = 1
  MaxUid = 3
  MaxFlushes = 0
INVARIANTS TypeOK ApprovedBeforeApplied EnforcedBeforeApplied EnforcedPhaseIsEarned
PROPERTY ImplementsReviewGate
CHECK_DEADLOCK FALSE
