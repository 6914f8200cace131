SPECIFICATION SvcLiveSpec
CONSTANTS
    Conns = {c1, c2}
    H1Only = FALSE
PROPERTY ShutdownCompletes
CHECK_DEADLOCK FALSE
