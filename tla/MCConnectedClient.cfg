SPECIFICATION FairSpec
CONSTANTS
    MaxBlock = 3
    PageBlocks = 1
    Capacity = 2
    ByteCapacity = 4
    Requests = {r1}
    Options <- MCOptions
INVARIANTS ReadyIsComplete QueueIsAccountedFor
PROPERTIES ClientRecovers
CHECK_DEADLOCK FALSE
