SPECIFICATION FairSpec
CONSTANTS
    g1 = g1
    a2 = a2
    b2 = b2
    b3 = b3
    la2 = la2
    lb2 = lb2
    lb3 = lb3
    NoBlock = NoBlock
    Block <- MCBlock
    Root = g1
    Parent <- MCParent
    Number <- MCNumber
    BlockOf <- MCBlockOf
    Index <- MCIndex
    MaxBranch = 2
    Configs <- MCConfigs
    MaxWire = 1
INVARIANTS  HistoryIsSound 
PROPERTIES NothingRegresses Heals
CHECK_DEADLOCK FALSE
