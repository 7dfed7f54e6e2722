SPECIFICATION FairSpec
CONSTANTS
  x = x
  y = y
  d = d
  Node <- MCNode
  DefaultPeers <- MCDefaultPeers
  MAX_PEERS = 2
  MaxErasures = 1
  MaxCuts = 1
INVARIANTS EnrolledByApproval MasterKnowsApproved
PROPERTIES EventuallyEnrolled EnrolledFindsMaster
CHECK_DEADLOCK FALSE
