SPECIFICATION Spec
CONSTANTS
  UserFrames <- MCUser
  PeerFrames <- MCPeerClose
  FragmentSize = 1
  Boundary = 2
  Capacity = 2
  MaxAccepted = 1
  MaxInbound = 0
INVARIANT CloseFlushesAccepted
