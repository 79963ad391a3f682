SPECIFICATION Spec
CONSTANTS
    a1 = a1  a2 = a2  a3 = a3  b1 = b1
    ann = ann  bob = bob
    short1 = short1  short2 = short2  long = long
    NoHash = NoHash
    NoPassword = NoPassword
    LoginOf <- MCLoginOf
    Requests = {a1, a2}
    Logins = {ann}
    Passwords = {short1}
    TooLong = {}
INVARIANTS
    UniqueLogin
