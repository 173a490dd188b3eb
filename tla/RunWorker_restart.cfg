SPECIFICATION FairWorkerSpec
CONSTANTS
    i1 = i1
    r1 = r1
    r2 = r2
    None = None
    Issues <- OneIssue
    Runs <- OneRun
    Payloads = {"p"}
    WorkerCodes = {"worker_failed", "missing_handoff"}
    MaxConcurrent = 1
    Related <- NoPairs
    MaxStops = 2
CONSTRAINT OneAttempt
INVARIANT ActiveRunIsOwned
PROPERTIES
    Spec
    RunsEnd
