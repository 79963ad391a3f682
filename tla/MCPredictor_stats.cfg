SPECIFICATION Spec
CONSTANTS
    a1 = a1  a2 = a2  b1 = b1
    ann = ann  bob = bob
    scan1 = scan1  scan2 = scan2
    Nobody = Nobody
    Requests = {a1, a2}
    Users = {ann}
    Scans = {scan1, scan2}
    UserOf <- OneOwner
    ScanOf <- SharedScan
    LimitRate = 2
    FaultKinds <- AllFaults
    MaxFaults = 0
    MaxCrashes = 0
INVARIANTS
    StatsExact
