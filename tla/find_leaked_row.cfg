\* Kill the service once between two ticks of two tasks.
SPECIFICATION Spec
CONSTANTS
    Tasks = {t1, t2}
    NoTask = NoTask
    Deps <- Independent
    MaxParallel = 1
    MaxRunRetries = 3
    MaxBlockedRetries = 2
    Gated = {}
    Results = {"submit", "accept"}
    HasReceipts = TRUE
    Faults = {}
    MaxRuns = 4
    MaxCrashes = 1
SYMMETRY Sym
INVARIANTS
    ReconcileNeverRefuses
