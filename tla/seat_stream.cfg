CONSTANTS
    Depth = 2
    MaxTick = 5
    Cells = {c1, c2}
    quiet = quiet
    busy = busy
    Logs = {quiet, busy}
    NoLog = quiet
    Size <- EventCount
    None = None
SPECIFICATION Spec
INVARIANTS TypeOK ClientCurrent StreamOrdered
PROPERTIES RetainsNewest ViewNeverGoesBack
SYMMETRY CellSymmetry
CHECK_DEADLOCK FALSE
