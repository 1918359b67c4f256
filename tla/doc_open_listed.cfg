SPECIFICATION Spec
CONSTANTS
    NoMatch = NoMatch  NoSession = NoSession
    Matches = {m1}
    Sessions = {s1, s2, s3}
    PlayerCount = 3
    MaxMatches = 1
    EmptyTtl = 1
    RematchWindow = 1
    ResultsTtl = 1
    MaxAge = 2
SYMMETRY IdSymmetry
INVARIANT OpenMatchListed
CHECK_DEADLOCK FALSE
