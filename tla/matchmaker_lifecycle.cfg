SPECIFICATION Spec
CONSTANTS
    NoMatch = NoMatch  NoSession = NoSession
    Matches = {m1, m2, m3}
    Sessions = {s1, s2, s3, s4}
    PlayerCount = 3
    MaxMatches = 2
    EmptyTtl = 1
    RematchWindow = 1
    ResultsTtl = 1
    MaxAge = 2
SYMMETRY IdSymmetry
VIEW UncollectedView
INVARIANTS
    TypeOK
    NoOrphanBinding
    SeatsBacked
    CapacityBound
    ChannelsReleased
PROPERTIES
    OfferNotSwept
    RematchUnanimous
    SeatsAsPromised
CHECK_DEADLOCK FALSE
