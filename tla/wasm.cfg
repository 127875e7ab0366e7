SPECIFICATION Spec
CONSTANTS
    MaxMessages = 3
    MaxSends = 2
INVARIANTS MessagesKept
PROPERTIES ConnectResolves ClosedStreamEnds
CHECK_DEADLOCK FALSE
