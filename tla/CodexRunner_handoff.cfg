SPECIFICATION CodexSpec
CONSTANTS
    i1 = i1
    r1 = r1
    a1 = a1
    a2 = a2
    build = build
    secret = secret
    None = None
    Issues <- OneIssue
    Runs <- OneRun
    Approvals <- NoApproval
    Subjects <- TwoSubjects
    Denied <- OneDenied
    MaxGrants = 3
    Payloads = {"p"}
    WorkerCodes = {"worker_failed", "missing_handoff"}
    MaxConcurrent = 1
    Related <- NoPairs
    MaxStops = 0
PROPERTIES
    MissingHandoffIsMissing
