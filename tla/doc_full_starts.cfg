SPECIFICATION Spec
CONSTANTS
    NoMatch = NoMatch  NoSession = NoSession
    Matches = {m1, m2}
    Sessions = {s1, s2}
    PlayerCount = 2
    MaxMatches = 2
    EmptyTtl = 1
    RematchWindow = 1
    ResultsTtl = 1
    MaxAge = 2
SYMMETRY IdSymmetry
INVARIANT FullMatchStarts
CHECK_DEADLOCK FALSE
