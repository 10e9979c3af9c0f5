SPECIFICATION FairSpec
CONSTANTS
    Owner = {"run", "other"}
    Service = "run"
    Cursors <- MCShortCursors
    MaxQueue = 2
    MaxFaults = 1
 
PROPERTIES RedisNeverRegresses Ends
