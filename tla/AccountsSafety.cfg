\* Calls for one user name, two passwords; records and tokens expire.
SPECIFICATION Spec
CONSTANTS
    Calls = {c1, c2, c3}
    Watched = {c1}
    Passwords = {p1, p2}
    Lifetime = 1
    UserTTL = 2
    Buffer = 1
    MaxTime = 3
    MaxRevoking = 2
    None = None
    Forever = Forever
SYMMETRY Symmetric
INVARIANTS
    TypeOK
    SettledIsKept
    LoneLoginSettles
PROPERTIES
    SettledTokens
    RevokedIsRefused
CHECK_DEADLOCK FALSE
