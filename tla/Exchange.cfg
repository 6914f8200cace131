SPECIFICATION MCSpec
CONSTANTS
    Requests <- MCRequests
    Responses <- MCResponses
    Keys = {k1, k2}
    NoKey = none
    Fields <- MCFields
    MaxFields = 3
    MaxUnread = 3
    max_headers = 2
    max_buf_size = 10
    Rate <- Bounded
    MaxBytes = 6
    Word = 16
CHECK_DEADLOCK FALSE
INVARIANTS FramingAgrees  HandshakeAgrees  
 
