SPECIFICATION WorkerSpec
CONSTANTS
    i1 = i1
    r1 = r1
    r2 = r2
    None = None
    Issues <- OneIssue
    Runs <- TwoRuns
    Payloads = {"p"}
    WorkerCodes = {"worker_failed", "missing_handoff"}
    MaxConcurrent = 2
    Related <- NoPairs
    MaxStops = 0
CONSTRAINT Queued
SYMMETRY RunSymmetry
INVARIANTS
    AgentAfterCreate
    ActiveRunIsLatest
