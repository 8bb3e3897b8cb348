\* After its last client leaves a gateway never listens to the workers again.
SPECIFICATION Spec
CONSTANTS
    Gateways = {g1, g2}
    Sockets = {s1, s2}
    Tokens = {t1}
    BadTokens = {bad}
    Revocable = {t1}
    MaxRetries = 0
    None = None
INVARIANT ClientsAreNotified
CHECK_DEADLOCK FALSE
