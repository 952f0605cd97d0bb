SPECIFICATION FairSpec
CONSTANTS
    Request = {r1, r2, r3}
    User = {u1}
    Admin = {}
    Staff = {u1}
    Route = {"admin", "staff"}
    MaxThreads = 2
    MaxConnections = 1
    NoUser = NoUser
INVARIANTS TypeOK NothingLeaks StallNeedsCrowd LateIsBounded
PROPERTIES EveryRequestEnds
