SPECIFICATION Spec
CONSTANTS
    i1 = i1
    i2 = i2
    r1 = r1
    r2 = r2
    None = None
    Issues <- TwoIssues
    Runs <- TwoRuns
    Payloads = {"p"}
    WorkerCodes = {"worker_failed", "missing_handoff"}
    MaxConcurrent = 1
    Related <- OnePair
CONSTRAINT OneOrCompeting
SYMMETRY RunSymmetry
INVARIANTS
    WorkingIffActive
    NoAutoRetry
    PauseExplained
    AcceptedWorkIsReviewed
    ConcurrencyBound
PROPERTIES
    EndedRunsAreFinal
    RunEndRestoresIssue
    ImplementsLifecycle
