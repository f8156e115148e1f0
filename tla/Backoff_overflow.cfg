SPECIFICATION Spec
CONSTANTS
    Bits = 16
    Delays = {0, 5, 300}
    MaxRetries = 20
INVARIANT DelayCapped
CHECK_DEADLOCK FALSE
