SPECIFICATION Spec
CONSTANTS
    Interval = 2
    Timeout = 1
    WhileIdle = FALSE
    Initial = 2
    BDP_LIMIT = 4
    MaxBytes = 2
    MaxPingDelay = 1
    MaxLag = 1
INVARIANT TimeoutIsRight
PROPERTY WindowFollows
