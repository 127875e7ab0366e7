SPECIFICATION Spec
CONSTANTS
  c1 = c1
  c2 = c2
  Connections = {c1, c2}
  Configs <- MCConfigs
  Capacity = 1
  compression_threshold = 2
  max_payload_read = 3
  CompressZlib = TRUE
  InflateZlib = TRUE
  MaxFrames = 3
  MaxFragment = 2
INVARIANTS
  TypeOK
  MessagesIntact
  MessagesWhole
  PoolClean
  IdleHoldsNothing
SYMMETRY Symmetric
CHECK_DEADLOCK FALSE
