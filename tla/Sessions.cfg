SPECIFICATION Spec

CONSTANTS
    k1 = k1
    k2 = k2
    k3 = k3
    a = a
    b = b
    w1 = w1
    auth1 = auth1
    auth2 = auth2
    s1 = s1
    s2 = s2
    s3 = s3
    None = None
    Conns = {k1, k2, k3}
    Ids = {a, b}
    IdOf <- OneId
    AuthOf <- Auth
    Sessions = {s1, s2, s3}
    Workers = {w1}
    MaxClock = 1
    MaxInbox = 1
    Deployments <- Everything

INVARIANTS SerialInv OneLiveSession LiveIsCurrent

\* A server whose agents have all gone is quiet.
CHECK_DEADLOCK FALSE
