SPECIFICATION FairSpec
CONSTANTS
  Messages <- MCMessages
  RawFrames <- MCRaw
  FragmentSize = 2
  MaxPayload = 7
  MaxReadBuffer = 5
  HasTimeout = TRUE
  CheckUtf8 = TRUE
  MaxOffered = 3
  MaxRaw = 3
  MaxWire = 3
INVARIANTS NoSilentLoss BufferBounded
PROPERTIES Messaging AllAnswered
CHECK_DEADLOCK FALSE
