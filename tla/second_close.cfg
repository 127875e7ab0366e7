SPECIFICATION Spec
CONSTANTS
  UserFrames <- MCUser
  PeerFrames <- MCPeerClose
  FragmentSize = 0
  Boundary = 2
  Capacity = 2
  MaxAccepted = 0
  MaxInbound = 1
INVARIANT AtMostOneClose
