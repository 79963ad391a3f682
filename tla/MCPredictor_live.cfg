SPECIFICATION FairSpec
CONSTANTS
    a1 = a1  a2 = a2  b1 = b1
    ann = ann  bob = bob
    scan1 = scan1  scan2 = scan2
    Nobody = Nobody
    Requests = {a1, a2, b1}
    Users = {ann, bob}
    Scans = {scan1, scan2}
    UserOf <- TwoOwners
    ScanOf <- SharedScan
    LimitRate = 1
    FaultKinds <- FallbackWorks
    MaxFaults = 1
    MaxCrashes = 0
PROPERTIES
    AcceptedResolves
    Drains
