CONSTANTS
    Calls = {c1, c2}
    Payloads = {p1, p2}
    File = file
    Contents = {small, other, large}
    small = small
    other = other
    large = large
    p1 = p1
    p2 = p2
    SizeOf <- ConfiguredSizes
    MaxBytes = 1
    None = None
SYMMETRY Interchangeable
SPECIFICATION ToolSpec
INVARIANTS
    ArtifactsAreWhole
    NothingIsLeftBehind
    AnswersAreTrue
