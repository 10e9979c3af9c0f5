SPECIFICATION MCSpec
CONSTANTS
    g1 = g1
    a2 = a2
    a3 = a3
    a4 = a4
    b2 = b2
    b3 = b3
    la2 = la2
    ma2 = ma2
    la3 = la3
    lb2 = lb2
    lb3 = lb3
    NoBlock = NoBlock
    Block <- MCBlock
    Root = g1
    Parent <- MCParent
    Number <- MCNumber
    BlockOf <- MCBlockOf
    Index <- MCIndex
    PageBlocks = 2
    LogLead = 0
    Configs <- MCConfigs
INVARIANTS PublishedIsComplete PublishedIsOneBranch 
PROPERTIES SourcesSettle
CHECK_DEADLOCK FALSE
