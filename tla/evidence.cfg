\* Two tasks in one workspace, one artifact declared by both, three runs.
SPECIFICATION Spec
CONSTANTS
    x = x
    y = y
    d = d
    e = e
    c = c
    px = px
    py = py
    Tasks = {t1, t2}
    Artifacts = {x, y}
    EvidenceIds = {d, e}
    Claims = {c}
    Paths = {px, py}
    Contents = {c1, c2}
    Refs <- RefLists
    Results <- Deliveries
    MaxRuns = 3
    MaxWrites = 1
SYMMETRY SameKinds
INVARIANTS
    TypeOK
    PackageIsCurrent
    VerifiedAsJudged
PROPERTY
    VerifiedIsFrozen
CHECK_DEADLOCK FALSE
