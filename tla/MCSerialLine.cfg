SPECIFICATION LineSpec
CONSTANTS
  own = own
  everyone = everyone
  other = other
  Own = own
  Everyone = everyone
  Message <- MCMessage
  Encoding <- MCEncoding
  Base = 3
  MAX_PAYLOAD = 3
  IsMaster = TRUE
  MaxFrames = 3
  MaxLost = 1
  MeshData <- MCMeshData
  MaxMeshData = 1
  GroupBits = 7
  WordGroups = 2
  RestBits = 4
  WideGroups = 4
  ShortBits = 16
  MacLen = 6
  DataLen = 64
  KeyLen = 32
  CopyLen = 12
  RelayCap = 256
  EnrollCap = 128
  OwnMac <- MCOwnMac
  MeshMessage <- MCMeshMessage
  NewNode <- MCNewNode
  ServerField <- MCServerField
  WideNumber <- MCWideNumber
  MaxFields = 2
CHECK_DEADLOCK FALSE
INVARIANTS
  BufferBounds HandledAsSent ActsOnlyAsAsked
  EncodesByTheBook NothingTooLong DecodesByTheBook MessageSurvives
PROPERTIES FrameHandled
