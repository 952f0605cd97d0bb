SPECIFICATION Spec
CONSTANTS
    Client = {c1, c2, c3}
    PoolSize = 2
    Shift = {s1, s2}
    StaffId = {u1}
    Registered = {u1}
    Time = {1, 2, 3}
    Body <- TouchingAndEmpty
    NoShift = NoShift
    NoStaff = NoStaff
    NoWindow = NoWindow
SYMMETRY Symmetry
INVARIANTS NoDoubleBooking
