SPECIFICATION LiveSpec
CONSTANTS
  UserFrames <- MCUserClose
  PeerFrames <- MCPeerMixed
  FragmentSize = 1
  Boundary = 1
  Capacity = 1
  MaxAccepted = 1
  MaxInbound = 2
PROPERTIES ObligationsMet CloseCompletes SilentAfterDone
