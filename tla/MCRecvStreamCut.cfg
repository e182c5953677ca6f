SPECIFICATION FairSpec
CONSTANTS
    Sizes <- McSizes
    SizeAt = 2
    HeaderSize = 2
    BufferSize = 6
    MaxPackets = 3
    MaxPlayers = 1
INVARIANT CompletesPackets
CHECK_DEADLOCK FALSE
