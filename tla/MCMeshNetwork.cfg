SPECIFICATION FairSpec
CONSTANTS
  m = m
  a = a
  b = b
  Node <- MCNode
  Master = m
  Link <- MCLink
  Peers <- MCPeers
  MAX_HOPS = 2
  CacheSize = 1
  PeerFresh = 1
  MasterStale = 1
  MaxSent <- MCMaxSent
  MaxAcks = 1
INVARIANT DeliveredOnce
PROPERTY FloodsEnd
