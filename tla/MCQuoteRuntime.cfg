SPECIFICATION Spec
VIEW View
CONSTANTS
    NoToken = NoToken
    Version <- MCVersion
    Capacity = 2
    MaxConnections = 3
INVARIANTS RecoveryIsFenced NoSilentGap AdmittedIsContinuous OwnershipExclusive
