SPECIFICATION FairSpec
CONSTANTS
    Sizes <- McSizes
    SizeAt = 2
    BufferSize = 6
    MaxPackets = 4
INVARIANT TypeOK
PROPERTY DeliversInOrder
PROPERTY DeliversAll
CHECK_DEADLOCK FALSE
