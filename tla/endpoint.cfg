SPECIFICATION Spec
CONSTANTS
  UserFrames <- MCUserClose
  PeerFrames <- MCPeer
  FragmentSize = 1
  Boundary = 2
  Capacity = 1
  MaxAccepted = 2
  MaxInbound = 2
INVARIANTS DataInOrder CloseKept CloseReplyOnWire DoneMeansFlushed PongsAnswerPings
