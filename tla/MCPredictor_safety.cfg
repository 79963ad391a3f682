SPECIFICATION Spec
CONSTANTS
    a1 = a1  a2 = a2  b1 = b1
    ann = ann  bob = bob
    scan1 = scan1  scan2 = scan2
    Nobody = Nobody
    Requests = {a1, a2, b1}
    Users = {ann, bob}
    Scans = {scan1, scan2}
    UserOf <- TwoOwners
    ScanOf <- SharedScan
    LimitRate = 2
    FaultKinds <- AllFaults
    MaxFaults = 2
    MaxCrashes = 1
INVARIANTS
    TypeOK
    SlotAccounting
    ScanAccounting
    StrandedExplained
    StatsNeverInflated
    RowFollowsRequest
    CreditMatchesRow
PROPERTIES
    LedgerSpec
    FinalStable
