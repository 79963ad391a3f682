SPECIFICATION LiveSpec
CONSTANTS
    r1 = r1  r2 = r2
    Requests = {r1, r2}
    MaxStarts = 2
    MaxSignals = 2
    MaxFaults = 1
INVARIANTS
    TypeOK
    AnswersKept
    UnhealthyAsked
    RefusalExplained
PROPERTY
    SignalEnds
