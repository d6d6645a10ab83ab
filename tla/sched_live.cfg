\* One task, one kill, under the fairness of the event loop.
SPECIFICATION FairSpec
CONSTANTS
    Tasks = {t1}
    NoTask = NoTask
    Deps <- Independent
    MaxParallel = 1
    MaxRunRetries = 3
    MaxBlockedRetries = 2
    Gated = {t1}
    Results = {"submit", "accept"}
    HasReceipts = TRUE
    Faults = {}
    MaxRuns = 2
    MaxCrashes = 1
PROPERTIES
    RunsEnd
    TasksMove
