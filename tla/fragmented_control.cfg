SPECIFICATION Spec
CONSTANTS
  UserFrames <- MCUserPing
  PeerFrames <- MCPeerClose
  FragmentSize = 1
  Boundary = 2
  Capacity = 2
  MaxAccepted = 1
  MaxInbound = 0
INVARIANT ControlFramesWhole
