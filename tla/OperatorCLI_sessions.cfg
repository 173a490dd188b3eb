CONSTANTS
    a1 = a1
    a2 = a2
    Addrs = {a1, a2}
    Tokens = {t1, t2}
    OldToken = t0
    Links = {o1}
    Callers = {p1}
    Unusable = Unusable
    Foreign = Foreign
    None = None
    Configured <- ConfiguredA1
SPECIFICATION FairOperatorSpec
INVARIANTS
    OperatorTypeOK
    WritesHappenOnce
    LogoutIsConfirmed
    FileIsTheDaemons
PROPERTIES
    DeadSessionsAreRefused
    CommandsEnd
