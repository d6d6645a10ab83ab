\* Two senders, lapsing claims, kills and lost answers, under fair senders and time.
SPECIFICATION FairSpec
CONSTANTS
    d1 = d1
    s1 = s1
    s2 = s2
    Decisions = {d1}
    Senders = {s1, s2}
    NoKey = NoKey
    MaxAttempts = 2
    MaxLapses = 2
    MaxAborts = 2
INVARIANTS
    TypeOK
    OneClaimant
PROPERTIES
    KeepsPromise
    EverySettled
\* once every message is settled the senders have nothing to do
CHECK_DEADLOCK FALSE
