SPECIFICATION Spec
CONSTANTS
    Client = {c1, c2}
    PoolSize = 2
    Swap = {s1, s2, s3}
    Staff = {u1}
    Admin = {a1}
    RateMax = 1
    RateWindow = 1
    MaxTime = 2
    NoSwap = NoSwap
    Nobody = Nobody
SYMMETRY Symmetry
INVARIANTS TypeOK ConflictIsFinal AuditReplaysRow RateLimitBound
PROPERTIES ImplementsLifecycle
