SPECIFICATION FairSpec
CONSTANTS
  Dests = {"w1", "w2"}
  Workloads = {"web", "web-0"}
  ConfigMaps = {"first"}
  Targets <- OneTarget
  None = None
  PodOf <- PodNames
  OwnerOf <- DeploymentNames
  Hubble = TRUE
  MaxDestinations = 2
  ChanCap = 1
  Window = 1
  SnapshotCap = 1
  MaxTime = 2
  MaxFlows = 2
  MaxFaults = 0
  MaxRestarts = 0
PROPERTY DestinationReachesOwner
