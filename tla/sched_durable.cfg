\* A chain of two tasks that decisions may block; every fault at once.
SPECIFICATION Spec
CONSTANTS
    Tasks = {t1, t2}
    NoTask = NoTask
    Deps <- Chain
    MaxParallel = 1
    MaxRunRetries = 3
    MaxBlockedRetries = 2
    Gated = {t2}
    Results = {"submit", "partial", "blocked", "accept"}
    HasReceipts = TRUE
    Faults = {"slow", "abort", "torn", "driver"}
    MaxRuns = 3
    MaxCrashes = 1
INVARIANTS
    CompletedWasAudited
PROPERTIES
    TerminalStays
