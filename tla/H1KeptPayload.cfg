SPECIFICATION Spec
CONSTANTS
    MaxReq = 1
    MaxBuf = 2
    Heads <- MCHeads
    KaEnabled = TRUE
    HdrsRate = TRUE
    PlRate = TRUE
    KeepPayload = TRUE
INVARIANTS BodyNeverParsedAsHead
CHECK_DEADLOCK FALSE
