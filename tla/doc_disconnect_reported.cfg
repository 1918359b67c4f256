SPECIFICATION FairSpec
CONSTANTS
    m1 = m1  m2 = m2  a1 = a1  b1 = b1  a2 = a2  b2 = b2
    ta1 = ta1  tb1 = tb1  tc1 = tc1  ta2 = ta2  tb2 = tb2
    c1 = c1  c2 = c2  c3 = c3  ip1 = ip1  ip2 = ip2
    NoConn = NoConn  NoToken = NoToken  NoMatch = NoMatch  NoIp = NoIp
    Matches <- OneMatch
    Seats <- OneSeats
    MatchOf <- OneMatchOf
    Rank <- OneRank
    Tokens <- JustTokenA
    SeatOf <- JustSeatA
    Conns <- TwoConns
    Ips <- OneIp
    IpOf <- SameIp
    GraceMs = 1
    IdleMs = 1
    MaxGlobal = 2
    MaxPerIp = 2
    MaxMatches = 1
    MaxPending = 0
PROPERTY DisconnectReported
CHECK_DEADLOCK FALSE
