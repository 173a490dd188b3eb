CONSTANTS
    MaxLines = 4
    Capacity = 2
SPECIFICATION AppSpec
INVARIANT CompletedTurnsSucceed
CHECK_DEADLOCK FALSE
