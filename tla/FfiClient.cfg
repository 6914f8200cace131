SPECIFICATION ClientLiveSpec
CONSTANTS
    MaxJobs = 2
    MaxBad = 1
    MaxChan = 2
    MaxInflight = 2
    MaxRetries = 1
    Idempotent <- FirstOnly
INVARIANTS  SentAtMost ResumeNotLost
PROPERTIES Reported
CHECK_DEADLOCK FALSE
