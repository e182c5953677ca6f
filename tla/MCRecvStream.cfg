SPECIFICATION FairSpec
CONSTANTS
    Sizes <- McSizes
    SizeAt = 2
    HeaderSize = 2
    BufferSize = 6
    MaxPackets = 3
    MaxPlayers = 2
INVARIANT TypeOK
INVARIANT MovesInside
PROPERTY DeliversInOrder
PROPERTY AllDelivered
CHECK_DEADLOCK FALSE
