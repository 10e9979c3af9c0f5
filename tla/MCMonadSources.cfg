SPECIFICATION SourcesSpec
CONSTANTS
    AckInterval = 2
    Yields <- EventsOfRecords
    Refused = {4}
    MaxStreams = 2
    MaxFaults = 3
INVARIANTS HandedOverOnce NativeTellsAll
PROPERTIES ConsumerFollowsConsensus ReadersProceed
CHECK_DEADLOCK FALSE
