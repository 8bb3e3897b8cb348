\* Every socket's grace period ends, and its user is of its token; two good tokens;
\* subscribing is retried.
SPECIFICATION FairSpec
CONSTANTS
    Gateways = {g1, g2}
    Sockets = {s1}
    Tokens = {t1, t2}
    BadTokens = {}
    Revocable = {t1}
    MaxRetries = 1
    None = None
INVARIANT UserIsOfToken
PROPERTIES
    GraceEnds
    SubscribingEnds
CHECK_DEADLOCK FALSE
