SPECIFICATION FairSpec
CONSTANTS
    None = None
    Hash <- MCHash
    MaxHeight = 2
    QueueBound = 1
    PageBlocks = 1
    Oversized = {2}
    Notices <- MCSiblingOnly
    MaxLag = 1
    MaxFaults = 1
INVARIANTS ReadinessHolds RecoveryLosesNothing
 
CHECK_DEADLOCK FALSE
