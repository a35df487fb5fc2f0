SPECIFICATION FairSpec
CONSTANTS
  MaxVarintLen = 3
  WordBits = 16
  PortBits = 16
  Scripts <- MCScripts
  Namespaces <- MCNamespaces
  ChanCap = 1
INVARIANTS TypeOK DecodesFaithfully
PROPERTIES FollowsFlowSource FlowsArrive CancelStops
CHECK_DEADLOCK FALSE
