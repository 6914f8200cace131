SPECIFICATION MCSpec
CONSTANTS
    Sizes <- MCSizes
    Lengths <- MCLengths
    MaxBody = 4
    MaxChunks = 3
    Limits <- MCLimits
    Preface = 2
    MaxIn = 3
    MaxOut = 5
    Quantum = 2
    High = 2
    Low = 1
CHECK_DEADLOCK FALSE
INVARIANTS Intact RoundTrip ReadsAll WritesInOrder
PROPERTIES TransfersEnd
