\* Two tasks, two slots, one kill or stop, no fault of the environment.
SPECIFICATION Spec
CONSTANTS
    Tasks = {t1, t2}
    NoTask = NoTask
    Deps <- Independent
    MaxParallel = 2
    MaxRunRetries = 3
    MaxBlockedRetries = 2
    Gated = {}
    Results = {"submit", "revise"}
    HasReceipts = TRUE
    Faults = {}
    MaxRuns = 4
    MaxCrashes = 1
SYMMETRY Sym
INVARIANTS
    TypeOK
    RunningHasItsRun
    AuditOfReview
    DriverOwnsItsRun
    OneVerdict
PROPERTY
    KeepsLifecycle
