SPECIFICATION LiveSpec
CONSTANTS
    Calls = {r1, r2, r3}
    Keys = {k1, k2}
    Conns = {c1, c2, c3}
    NoConn = NoConn
    NoKey = NoKey
    Limit = 1
INVARIANTS  NoStrandedWaiter 
PROPERTIES KeepsPromise Answered
CHECK_DEADLOCK FALSE
