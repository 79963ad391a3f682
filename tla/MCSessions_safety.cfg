SPECIFICATION AccessSpec
CONSTANTS
    a1 = a1  a2 = a2  a3 = a3  b1 = b1
    ann = ann  bob = bob
    NoToken = NoToken
    Requests = {a1, a2, a3, b1}
    Users = {ann, bob}
    UserOf <- MCUserOf
    RoleOf <- MCRoleOf
    Calls = {"call"}
    AccessTTL = 1
    RefreshTTL = 2
    MaxTime = 2
    MaxFaults = 1
SYMMETRY Symmetry
INVARIANTS
    LateNeverIssues
    SingleUnlessOverlap
    SessionSurvives
    AccessTypeOK
PROPERTIES
    SlotSpec
    FadesOut
