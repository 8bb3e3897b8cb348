\* Two gateways, two sockets, a good token and a bad one.
SPECIFICATION Spec
CONSTANTS
    Gateways = {g1, g2}
    Sockets = {s1, s2}
    Tokens = {t1}
    BadTokens = {bad}
    Revocable = {t1}
    MaxRetries = 0
    None = None
SYMMETRY Symmetric
INVARIANTS
    TypeOK
    AnonymousOnlyInGrace
    OpenClientsAreCounted
    GhostsWereValidating
PROPERTY LastClientUnsubscribes
CHECK_DEADLOCK FALSE
