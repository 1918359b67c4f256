SPECIFICATION Spec
CONSTANTS
    m1 = m1  m2 = m2  a1 = a1  b1 = b1  a2 = a2  b2 = b2
    ta1 = ta1  tb1 = tb1  tc1 = tc1  ta2 = ta2  tb2 = tb2
    c1 = c1  c2 = c2  c3 = c3  ip1 = ip1  ip2 = ip2
    NoConn = NoConn  NoToken = NoToken  NoMatch = NoMatch  NoIp = NoIp
    Matches <- TwoMatches
    Seats <- TwoSeats
    MatchOf <- TwoMatchOf
    Rank <- TwoRank
    Tokens <- JustTokenA
    SeatOf <- JustSeatA
    Conns <- OneConn
    Ips <- OneIp
    IpOf <- SameIp
    GraceMs = 1
    IdleMs = 1
    MaxGlobal = 2
    MaxPerIp = 2
    MaxMatches = 2
    MaxPending = 0
PROPERTY CrashContained
VIEW ReadView
CHECK_DEADLOCK FALSE
