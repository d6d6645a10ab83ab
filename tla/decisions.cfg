\* One task that two decisions pause, two API threads, one kill.
SPECIFICATION FairSpec
CONSTANTS
    Tasks = {t1}
    Questions = {q1, q2}
    Scope <- AllTasks
    Options = {yes, no}
    NoAnswer = NoAnswer
    Threads = {w1, w2}
    MaxBlockedRetries = 1
    MaxRuns = 2
    MaxLinks = 1
    MaxKills = 1
INVARIANT
    TypeOK
PROPERTIES
    AnswerStands
    AskedOnce
    KeepsInquiry
    RaisedIsAsked
    AnswerFrees
CHECK_DEADLOCK FALSE
