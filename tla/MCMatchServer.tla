--------------------------- MODULE MCMatchServer ---------------------------
(* Instances of MatchServer for TLC. *)
EXTENDS MatchServer, TLC

CONSTANTS m1, m2, a1, b1, a2, b2, ta1, tb1, tc1, ta2, tb2, c1, c2, c3, ip1, ip2

\* One match of two players; token tc1 is a second token of player a's seat.
OneMatch     == {m1}
OneSeats     == {a1, b1}
OneMatchOf   == a1 :> m1 @@ b1 :> m1
OneRank      == a1 :> 1 @@ b1 :> 2
JustTokenA   == {ta1}
JustSeatA    == ta1 :> a1
SeatTokens   == {ta1, tc1}
SeatTokenOf  == ta1 :> a1 @@ tc1 :> a1
OneTokens    == {ta1, tb1, tc1}
OneSeatOf    == ta1 :> a1 @@ tb1 :> b1 @@ tc1 :> a1

\* Two matches of two players.
TwoMatches   == {m1, m2}
TwoSeats     == {a1, b1, a2, b2}
TwoMatchOf   == a1 :> m1 @@ b1 :> m1 @@ a2 :> m2 @@ b2 :> m2
TwoRank      == a1 :> 1 @@ b1 :> 2 @@ a2 :> 1 @@ b2 :> 2

OneConn      == {c1}
TwoConns     == {c1, c2}
ThreeConns   == {c1, c2, c3}
OneIp        == {ip1}
TwoIps       == {ip1, ip2}
SameIp       == [c \in Conns |-> ip1]
MixedIps     == [c \in Conns |-> CASE c = c1 -> ip1 [] c = c2 -> ip1 [] OTHER -> NoIp]

\* `away' only records what the bridge was told.  Who is alive matters until
\* the match is decided, which it then stays; no handler reads the flags of a
\* channel that is gone, or anything but `down' once the server is closed.
OpenFlags(m) ==
    IF chan[m] = "gone" THEN {}
    ELSE <<specOk[m], sealed[m], ended[m],
           IF Decided(alive, m) THEN {} ELSE alive \cap SeatsOf(m)>>
ReadView ==
    IF down THEN <<>> ELSE
    <<connVars, seatVars, chan, pending, [m \in Matches |-> OpenFlags(m)]>>

ConnSymmetry == Permutations(Conns)
============================================================================
