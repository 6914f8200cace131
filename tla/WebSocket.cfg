SPECIFICATION LiveSpec
CONSTANTS
    Sinks = {s1, s2}
    Lens <- MCLens
    max_size = 65536
    MaxFrames = 3
CHECK_DEADLOCK FALSE
INVARIANTS StreamIntact NoFalseAlarm
PROPERTY PingsAnswered
