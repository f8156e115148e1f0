SPECIFICATION FairSpec
CONSTANTS
    Callers = {"main"}
    Prompt = TRUE
    MaxStarts = 1
PROPERTY StopReturns
CHECK_DEADLOCK FALSE
