SPECIFICATION Spec
CONSTANTS
    r1 = r1  r2 = r2  r3 = r3  r4 = r4
    k1 = k1  k2 = k2  k3 = k3  k4 = k4  shared = shared
    NoAvatar = NoAvatar
    Requests = {r1, r2, r3, r4}
    Keys = {k1, k2, k3, k4, shared}
    KeysOf <- MixedKeys
SYMMETRY Symmetry
INVARIANTS
    TypeOK
    StrayExplained
    DanglingExplained
