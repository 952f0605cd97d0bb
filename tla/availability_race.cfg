SPECIFICATION FairSpec
CONSTANTS
    Client = {c1, c2}
    Key = {k1}
    Hour = {0, 1}
    Format = {"short", "long", "number"}
    NoKey = NoKey
    NoWindow = NoWindow
INVARIANTS TypeOK DuplicateIsStored
PROPERTIES EveryUpsertEnds
