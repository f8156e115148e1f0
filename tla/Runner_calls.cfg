SPECIFICATION FairSpec
CONSTANTS
    Callers = {"main", "signal"}
    Prompt = FALSE
    MaxStarts = 3
INVARIANTS
    TypeOK
    LoopsAccountedFor
    NeverPanics
    NoStopStranded
PROPERTY StopReturns
CHECK_DEADLOCK FALSE
