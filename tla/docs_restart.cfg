SPECIFICATION Spec
CONSTANTS
  Dests = {"w1", "w2", "b1"}
  Workloads = {"web", "batch"}
  ConfigMaps = {"first", "second"}
  Targets <- SharedTargets
  None = None
  PodOf <- TwoWorkloads
  OwnerOf <- TwoWorkloads
  Hubble = FALSE
  MaxDestinations = 2
  ChanCap = 2
  Window = 1
  SnapshotCap = 1
  MaxTime = 3
  MaxFlows = 3
  MaxFaults = 0
  MaxRestarts = 1
PROPERTY BaselineSurvivesRestart
