SPECIFICATION Spec
CONSTANTS
    g1 = g1
    a2 = a2
    a3 = a3
    b2 = b2
    la2 = la2
    la3 = la3
    lb2 = lb2
    x = x
    None = None
    Block <- MCBlock
    Parent <- MCParent
    Number <- MCNumber
    MaxNumber = 3
    Context <- MCContext
    Log <- MCLog
    BlockOf <- MCBlockOf
    Index <- MCIndex
    MaxIndex = 1
    MaxDepth = 2
    MaxEvents = 4
    MaxStream = 8
PROPERTY AppendedLogsAreCanonical
