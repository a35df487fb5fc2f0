SPECIFICATION FairSpec
CONSTANTS
  Dests = {"w1", "w2", "b1"}
  Workloads = {"web", "batch"}
  ConfigMaps = {"first", "second"}
  Targets <- SharedTargets
  None = None
  PodOf <- TwoWorkloads
  OwnerOf <- TwoWorkloads
  Hubble = TRUE
  MaxDestinations = 2
  ChanCap = 1
  Window = 0
  SnapshotCap = 0
  MaxTime = 2
  MaxFlows = 3
  MaxFaults = 1
  MaxRestarts = 1
INVARIANTS TypeOK InventoryBounded RecentStayKnown SnapshotsTrackInventory
PROPERTIES BaselineForgetsOnlyExpired DestinationPersisted ChannelDrains StaleLeavesBaseline
