SPECIFICATION MCSpec
CONSTANTS
    MaxReq = 2
    MaxCalls <- MCMaxCalls
    Locals = 2
    Natives = {n1, n2}
    Conns = {c1, c2, c3}
    H1Only = TRUE
INVARIANTS ChunksArrive SlotAlive NoLostNotify NothingServedAfterDown
PROPERTIES CallsSettle ShutdownCompletes
CHECK_DEADLOCK FALSE
