SPECIFICATION ApiSpec
CONSTANTS
    a1 = a1  a2 = a2
    ann = ann
    scan1 = scan1  scan2 = scan2
    Nobody = Nobody
    Requests = {a1, a2}
    Users = {ann}
    Scans = {scan1, scan2}
    UserOf <- OwnerOf
    ScanOf <- OwnScan
    Answers <- KnownAndNameless
    Earned <- Ratings
    Watched = {a1}
    LimitRate = 1
    FaultKinds <- TxFaults
    MaxFaults = 1
    MaxCrashes = 1
INVARIANTS
    ApiTypeOK
    ScansStored
    ShownAgrees
    ScoreConsistent
    DetailConsistent
PROPERTIES
    ViewSpec
