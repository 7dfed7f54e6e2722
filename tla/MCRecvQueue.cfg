SPECIFICATION FairSpec
CONSTANTS
  a = a
  b = b
  p = p
  q = q
  NoMac = NoMac
  NoMessage = NoMessage
  Mac <- MCMac
  Message <- MCMessage
  QueueSize = 3
  MaxArrivals = 5
INVARIANTS EntryIntact HandledInOrder
PROPERTIES ImplementsFifo EventuallyHandled
