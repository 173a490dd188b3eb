CONSTANTS
    MaxLines = 4
    Capacity = 2
SPECIFICATION AppSpec
INVARIANTS
    AppTypeOK
    ResultsAreEarned
    NoProcessIsLeft
PROPERTIES
    RunReturns
    TakesTurns
CHECK_DEADLOCK FALSE
