SPECIFICATION Spec
CONSTANTS
    Client = {c1, c2}
    Key = {k1}
    Hour = {1, 2, 3}
    Format = {"short"}
    NoKey = NoKey
    NoWindow = NoWindow
SYMMETRY Symmetry
INVARIANTS StoredWindowOrdered
