SPECIFICATION LiveSpec
CONSTANTS
    MaxReq = 2
    MaxBuf = 2
    Heads <- MCHeads
    KaEnabled = TRUE
    HdrsRate = TRUE
    PlRate = TRUE
    KeepPayload = FALSE
INVARIANTS BodyNeverParsedAsHead NoDecodeAfterError ResponsesInOrder TimeoutsAreArmed
  
CHECK_DEADLOCK FALSE
