\* Two changes of the text, two human edits and faults at once.
SPECIFICATION FairSpec
CONSTANTS
    A = A
    B = B
    H = H
    Texts = {A, B}
    HumanTexts = {H}
    Absent = Absent
    NoState = NoState
    Revisions = TRUE
    MaxAttempts = 2
    MaxChanges = 2
    MaxEdits = 2
    MaxOthers = 1
    MaxFaults = 2
INVARIANTS
    TypeOK
    StateWasRemote
PROPERTIES
    HumanKept
    CatchesUp
