SPECIFICATION FairSpec
CONSTANTS
    Client = {c1, c2}
    PoolSize = 2
    Record = {r1, r2, r3}
    Staff = {u1}
    MaxTime = 1
    NoRecord = NoRecord
    Nobody = Nobody
    NoTime = NoTime
INVARIANTS TypeOK SessionsBounded ClosingsBounded
PROPERTIES EveryClockingEnds
