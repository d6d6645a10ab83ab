\* Two runs on one process, of either executor, with any two faults, under a fair event loop.
SPECIFICATION FairSpec
CONSTANTS
    Runs = {r1, r2}
    Nobody = Nobody
    MaxRepairs = 1
    MaxFaults = 2
INVARIANTS TypeOK OneIsSpawned CallsAreWatched
PROPERTY RunsEnd
CHECK_DEADLOCK FALSE
