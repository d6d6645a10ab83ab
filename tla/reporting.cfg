\* One decision of any kind, three pieces of evidence, one change, pause or kill, under fair ticks.
SPECIFICATION FairSpec
CONSTANTS
    Decisions = {d1}
    EvidenceIds <- MCEvidenceIds
    Citable <- MCCitable
    Hollow <- MCHollow
    MaxNamed = 1
    MaxIncidents = 1
INVARIANTS TypeOK ToldOnce 
 
CHECK_DEADLOCK FALSE
