\* Kill the service between writing a receipt and validating it.
SPECIFICATION Spec
CONSTANTS
    Tasks = {t1}
    NoTask = NoTask
    Deps <- Independent
    MaxParallel = 1
    MaxRunRetries = 3
    MaxBlockedRetries = 2
    Gated = {}
    Results = {"submit", "accept"}
    HasReceipts = TRUE
    Faults = {"torn"}
    MaxRuns = 2
    MaxCrashes = 1
INVARIANTS
    CorruptReceiptIsRetried
