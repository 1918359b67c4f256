------------------------- MODULE MatchServerProofs -------------------------
(***************************************************************************)
(* Proofs about MatchServer for any matches, seats, tokens, connections    *)
(* and timeouts.                                                           *)
(*                                                                         *)
(* SeatConnCoherent is not inductive alone: a tokenless join hands out the *)
(* token stored on a seat, so one has to know that this token was minted   *)
(* for that seat, and that only open channels have seats.  That is         *)
(* SeatsBound.  TerminalDelivered and OrdersInPlay need in addition that a *)
(* reported result is sealed and decided (EndedSealed), and AdmissionExact *)
(* that every spectator is an open connection (WatchersJoined), since the  *)
(* connections of a channel are closed as a set.                           *)
(***************************************************************************)
EXTENDS MatchServer, FiniteSetTheorems, TLAPS

SeatsBound ==
    \A s \in Seats : seatToken[s] # NoToken =>
       SeatOf[seatToken[s]] = s /\ chan[MatchOf[s]] = "open"

IInv == TypeOK /\ SeatsBound /\ SeatConnCoherent /\ ActiveBindingVacant

----------------------------------------------------------------------------
(* Lemmas *)

\* Every set of connections is finite, so the counters stay integers.
LEMMA CountInt ==
    ASSUME NEW L, NEW i
    PROVE  Cardinality({c \in L \cap Conns : IpOf[c] = i}) \in Int
<1>1. IsFiniteSet({c \in L \cap Conns : IpOf[c] = i})
    BY FS_Subset, AdmissionAssumption DEF AdmissionAssumption
<1> QED BY <1>1, FS_CardinalityType, SMT

\* The counters stay integers when connections leave.
LEMMA IpCountWithoutInt ==
    ASSUME ipCount \in [Ips -> Int], NEW L \in SUBSET Conns
    PROVE  IpCountWithout(L) \in [Ips -> Int]
<1>1. ASSUME NEW i \in Ips PROVE ipCount[i] - Cardinality({c \in L : IpOf[c] = i}) \in Int
  <2>1. L \cap Conns = L
      OBVIOUS
  <2>2. Cardinality({c \in L : IpOf[c] = i}) \in Int
      BY <2>1, CountInt
  <2> QED BY <2>2
<1> QED BY <1>1 DEF IpCountWithout

\* What a close path leaves of the connections is well typed.
LEMMA LeaveType ==
    ASSUME TypeOK, NEW L \in SUBSET Conns, Leave(L)
    PROVE  /\ st' \in [Conns -> ConnStates]
           /\ held' \in [Conns -> Tokens \cup {NoToken}]
           /\ watching' \in [Conns -> Matches \cup {NoMatch}]
           /\ idle' \in [Conns -> {Heard} \cup 0..IdleMs]
           /\ ipCount' \in [Ips -> Int]
<1>1. ipCount' \in [Ips -> Int]
    BY IpCountWithoutInt DEF TypeOK, Leave
<1>2. 0 \in 0..IdleMs
    BY TimeAssumption DEF TimeAssumption
<1> QED BY <1>1, <1>2 DEF TypeOK, Leave, ConnStates

\* Orders whose sender is gone are still orders.
LEMMA OrphanedType ==
    ASSUME TypeOK, NEW L PROVE Orphaned(L) \subseteq Orders
BY DEF TypeOK, Orphaned, Orders

\* A vacated seat has no connection or the one it had.
LEMMA VacatedType ==
    ASSUME TypeOK, NEW L, NEW R PROVE Vacated(L, R) \in [Seats -> Conns \cup {NoConn}]
BY DEF TypeOK, Vacated

\* What Connection.close leaves of every variable it changes is well typed.
LEMMA ClosedType ==
    ASSUME TypeOK, NEW L \in SUBSET Conns, CloseConns(L)
    PROVE  /\ st' \in [Conns -> ConnStates]
           /\ held' \in [Conns -> Tokens \cup {NoToken}]
           /\ watching' \in [Conns -> Matches \cup {NoMatch}]
           /\ idle' \in [Conns -> {Heard} \cup 0..IdleMs]
           /\ ipCount' \in [Ips -> Int]
           /\ pending' \in SUBSET Orders
           /\ seatConn' \in [Seats -> Conns \cup {NoConn}]
BY LeaveType, OrphanedType, VacatedType DEF CloseConns

\* So is what a join leaves of the seat and of its connection.
LEMMA TakeSeatType ==
    ASSUME TypeOK, NEW c \in Conns, NEW s \in Seats, NEW t \in Tokens,
           NEW state \in {"joined", "rejoined"}, TakeSeat(c, s, t, state)
    PROVE  /\ st' \in [Conns -> ConnStates]
           /\ held' \in [Conns -> Tokens \cup {NoToken}]
           /\ seatToken' \in [Seats -> Tokens \cup {NoToken}]
           /\ seatConn' \in [Seats -> Conns \cup {NoConn}]
           /\ away' \in SUBSET Seats
<1>1. JoinedState(MatchOf[s], state) \in ConnStates
    BY DEF JoinedState, ConnStates
<1> QED BY <1>1 DEF TypeOK, TakeSeat

----------------------------------------------------------------------------
(* Type correctness *)

\* A client's step keeps every variable in its type.
LEMMA ClientType == ASSUME TypeOK, ClientNext PROVE TypeOK'
<1> USE DEF connVars, chanVars, seatVars, hostVars
<1>1. 0 \in 0..IdleMs /\ 0 \in 0..GraceMs
    BY TimeAssumption DEF TimeAssumption
<1>2. \A t \in Tokens : SeatOf[t] \in Seats /\ MatchOf[SeatOf[t]] \in Matches
    BY SeatAssumption DEF SeatAssumption
<1>3. ASSUME NEW c \in Conns, Accept(c) PROVE TypeOK'
    BY <1>3 DEF TypeOK, Accept, ConnStates
<1>4. ASSUME NEW c \in Conns, Frame(c) \/ Hello(c) PROVE TypeOK'
    BY <1>4 DEF TypeOK, Frame, Hello, Received, ConnStates
<1>5. ASSUME NEW c \in Conns, PolicyViolation(c) PROVE TypeOK'
    BY <1>5, ClosedType DEF PolicyViolation, TypeOK
<1>6. ASSUME NEW c \in Conns, TransportLoss(c) PROVE TypeOK'
  <2>1. CloseConns({c})
      BY <1>6 DEF TransportLoss
  <2>2. binding' \in [Tokens -> {NoBinding} \cup 0..GraceMs] /\ away' \in SUBSET Seats
      BY <1>1, <1>6 DEF TransportLoss, TypeOK
  <2> QED BY <1>6, <2>1, <2>2, ClosedType DEF TransportLoss, TypeOK
<1>7. ASSUME NEW c \in Conns, SubmitOrder(c) PROVE TypeOK'
  <2>1. held[c] \in Tokens
      BY <1>7 DEF SubmitOrder, TypeOK
  <2>2. [seat |-> SeatOf[held[c]], by |-> c] \in Orders
      BY <1>2, <2>1 DEF Orders
  <2> QED BY <1>7, <2>2 DEF SubmitOrder, Received, TypeOK
<1>8. ASSUME NEW c \in Conns, NEW m \in Matches, JoinTokenless(c, m) PROVE TypeOK'
  <2>1. PICK s \in SeatsOf(m) : Claimable(s) /\ TakeSeat(c, s, seatToken[s], "joined")
      BY <1>8 DEF JoinTokenless
  <2>2. s \in Seats /\ seatToken[s] \in Tokens
      BY <2>1 DEF SeatsOf, Claimable, TypeOK
  <2> QED BY <1>8, <2>1, <2>2, TakeSeatType DEF JoinTokenless, Received, TypeOK
<1>9. ASSUME NEW c \in Conns, NEW m \in Matches, JoinSpectator(c, m) PROVE TypeOK'
    BY <1>9 DEF JoinSpectator, MayJoin, JoinedState, Received, TypeOK, ConnStates
<1>10. ASSUME NEW c \in Conns, NEW t \in Tokens, JoinByToken(c, t) PROVE TypeOK'
    BY <1>2, <1>10, TakeSeatType DEF JoinByToken, Received, TypeOK
<1>11. ASSUME NEW c \in Conns, NEW t \in Tokens, Reconnect(c, t) PROVE TypeOK'
  <2>1. CASE TakeSeat(c, SeatOf[t], t, "rejoined")
      BY <1>2, <1>11, <2>1, TakeSeatType DEF Reconnect, Received, TypeOK
  <2>2. CASE UNCHANGED <<seatToken, seatConn, st, held, away>>
      BY <1>11, <2>2 DEF Reconnect, Received, TypeOK
  <2> QED BY <1>11, <2>1, <2>2 DEF Reconnect
<1>12. ASSUME NEW c \in Conns, NEW m \in Matches, NEW t \in Tokens, ReconnectLate(c, m, t)
       PROVE  TypeOK'
    BY <1>12 DEF ReconnectLate, Received, TypeOK
<1> QED BY <1>3, <1>4, <1>5, <1>6, <1>7, <1>8, <1>9, <1>10, <1>11, <1>12 DEF ClientNext

\* So is what dropping channels leaves.
LEMMA DropChannelsType ==
    ASSUME TypeOK, NEW ms, NEW L \in SUBSET Conns, DropChannels(ms, L), down' \in BOOLEAN
    PROVE  TypeOK'
<1>1. /\ pending' \in SUBSET Orders
      /\ seatConn' \in [Seats -> Conns \cup {NoConn}]
    BY OrphanedType, VacatedType DEF DropChannels
<1>2. /\ chan' \in [Matches -> {"none", "open", "gone"}]
      /\ seatToken' \in [Seats -> Tokens \cup {NoToken}]
    BY DEF DropChannels, TypeOK
<1>3. Leave(L) /\ UNCHANGED <<specOk, sealed, binding, alive, away, ended>>
    BY DEF DropChannels
<1> QED BY <1>1, <1>2, <1>3, LeaveType DEF TypeOK

\* So does a call of the host.
LEMMA HostType == ASSUME TypeOK, HostNext PROVE TypeOK'
<1> USE DEF connVars, chanVars, seatVars, hostVars
<1>1. ASSUME NEW m \in Matches, RegisterMatch(m) PROVE TypeOK'
    BY <1>1 DEF RegisterMatch, TypeOK
<1>2. ASSUME NEW m \in Matches, UnregisterMatch(m) PROVE TypeOK'
  <2>1. ChannelConns(m) \in SUBSET Conns
      BY DEF ChannelConns
  <2> QED BY <1>2, <2>1, DropChannelsType DEF UnregisterMatch, TypeOK
<1>3. ASSUME NEW m \in Matches, NEW a \in BOOLEAN, SetSpectators(m, a) PROVE TypeOK'
    BY <1>3 DEF SetSpectators, TypeOK
<1>4. ASSUME NEW t \in Tokens, AttachPlayer(t) PROVE TypeOK'
  <2>1. SeatOf[t] \in Seats /\ Displaced(SeatOf[t], t) \in SUBSET Conns
      BY SeatAssumption DEF SeatAssumption, Displaced, TypeOK
  <2>2. seatToken' \in [Seats -> Tokens \cup {NoToken}]
      BY <1>4, <2>1 DEF AttachPlayer, TypeOK
  <2>3. CloseConns(Displaced(SeatOf[t], t))
      BY <1>4 DEF AttachPlayer
  <2> QED BY <1>4, <2>1, <2>2, <2>3, ClosedType DEF AttachPlayer, TypeOK
<1>5. ASSUME NEW s \in Seats, DetachPlayer(s) PROVE TypeOK'
  <2>1. {seatConn[s]} \ {NoConn} \in SUBSET Conns
      BY DEF TypeOK
  <2>2. seatToken' \in [Seats -> Tokens \cup {NoToken}]
      BY <1>5 DEF DetachPlayer, TypeOK
  <2> QED BY <1>5, <2>1, <2>2, ClosedType DEF DetachPlayer, TypeOK
<1>6. ASSUME NEW s \in Seats, ForfeitSurrender(s) PROVE TypeOK'
    BY <1>6 DEF ForfeitSurrender, TypeOK
<1>7. ASSUME CloseServer PROVE TypeOK'
  <2>1. Open \in SUBSET Conns
      BY DEF Open
  <2> QED BY <1>7, <2>1, DropChannelsType DEF CloseServer
<1> QED BY <1>1, <1>2, <1>3, <1>4, <1>5, <1>6, <1>7 DEF HostNext

\* The sets a tick computes, as its LET names them.
Living(lost) == alive \ lost
Over(failing, lost) == {m \in Running \ failing : Decided(alive \ lost, m)}
Told(failing, lost) == UNION {ChannelConns(m) : m \in Over(failing, lost)}
Reaped(failing) == {c \in Open \ CrashCloses(failing) : Silent(c)}
Claims(failing, lost) ==
    {c \in Reaped(failing) \ Told(failing, lost) : st[c] \in {"joined", "rejoined"}}
Rebound(failing, lost) ==
    {t \in Tokens : \E c \in Claims(failing, lost) : held[c] = t /\ SeatHeldBy(c, SeatOf[t])}
Expired(failing, lost) == {t \in Tokens \ Rebound(failing, lost) : Lapsed(t)}
Removed(failing, lost) ==
    {s \in Seats : chan[MatchOf[s]] = "open" /\ \E t \in Expired(failing, lost) : SeatOf[t] = s}
Leaving(failing, lost) ==
    CrashCloses(failing) \cup Reaped(failing)
      \cup {c \in Conns : \E s \in Removed(failing, lost) : seatConn[s] = c}

\* A tick, in these names.
LEMMA TickEffect ==
    ASSUME NEW F, NEW D, TickStep(F, D)
    PROVE  /\ alive' = Living(D)
           /\ sealed' = [m \in Matches |-> sealed[m] \/ m \in Over(F, D) \cup F]
           /\ ended' = [m \in Matches |-> ended[m] \/ m \in Over(F, D)]
           /\ pending' = {o \in Orphaned(Leaving(F, D)) : MatchOf[o.seat] \notin Running}
           /\ st' = [c \in Conns |-> IF c \in Leaving(F, D) THEN "absent"
                                ELSE IF c \in Told(F, D) THEN "terminal" ELSE st[c]]
           /\ held' = [c \in Conns |-> IF c \in Leaving(F, D) THEN NoToken ELSE held[c]]
           /\ watching' = [c \in Conns |-> IF c \in Leaving(F, D) THEN NoMatch ELSE watching[c]]
           /\ idle' = [c \in Conns |->
                          IF c \in Leaving(F, D) \/ idle[c] = Heard THEN 0 ELSE idle[c]]
           /\ ipCount' = IpCountWithout(Leaving(F, D))
           /\ seatConn' = Vacated(Leaving(F, D), Removed(F, D))
           /\ seatToken' = [s \in Seats |-> IF s \in Removed(F, D) THEN NoToken ELSE seatToken[s]]
           /\ binding' = [t \in Tokens |-> IF t \in Rebound(F, D) THEN 0
                                     ELSE IF t \in Expired(F, D) THEN NoBinding ELSE binding[t]]
           /\ away' = (away \cup {SeatOf[t] : t \in Rebound(F, D)})
                        \ {SeatOf[t] : t \in Expired(F, D)}
           /\ UNCHANGED <<chan, specOk, down>>
BY Zenon DEF TickStep, Swept, Living, Over, Told, Reaped, Claims, Rebound, Expired, Removed, Leaving

\* What a tick closes are connections.
LEMMA TickLeaves == ASSUME NEW F \in SUBSET Running, NEW D PROVE Leaving(F, D) \in SUBSET Conns
BY DEF Leaving, CrashCloses, ChannelConns, Reaped, Open

\* So does a tick, and so does the passage of time.
LEMMA TickType == ASSUME TypeOK, Tick PROVE TypeOK'
<1>1. PICK F \in SUBSET Running, D \in SUBSET {s \in alive : MatchOf[s] \in Running} :
         TickStep(F, D)
    BY DEF Tick
<1>2. Leaving(F, D) \in SUBSET Conns
    BY TickLeaves
<1>3. 0 \in 0..IdleMs /\ 0 \in 0..GraceMs
    BY TimeAssumption DEF TimeAssumption
<1>4. /\ pending' \in SUBSET Orders
      /\ seatConn' \in [Seats -> Conns \cup {NoConn}]
      /\ ipCount' \in [Ips -> Int]
    BY <1>1, <1>2, TickEffect, OrphanedType, VacatedType, IpCountWithoutInt DEF TypeOK
<1>5. /\ st' \in [Conns -> ConnStates]
      /\ held' \in [Conns -> Tokens \cup {NoToken}]
      /\ watching' \in [Conns -> Matches \cup {NoMatch}]
      /\ idle' \in [Conns -> {Heard} \cup 0..IdleMs]
    BY <1>1, <1>3, TickEffect DEF TypeOK, ConnStates
<1>6. /\ seatToken' \in [Seats -> Tokens \cup {NoToken}]
      /\ binding' \in [Tokens -> {NoBinding} \cup 0..GraceMs]
      /\ alive' \in SUBSET Seats
    BY <1>1, <1>3, TickEffect DEF TypeOK, Living
<1>8. away' \in SUBSET Seats
  <2>1. {SeatOf[t] : t \in Rebound(F, D)} \subseteq Seats
      BY SeatAssumption DEF SeatAssumption, Rebound
  <2>2. away' = (away \cup {SeatOf[t] : t \in Rebound(F, D)})
                   \ {SeatOf[t] : t \in Expired(F, D)}
      BY <1>1, TickEffect
  <2> QED BY <2>1, <2>2 DEF TypeOK
<1>7. /\ sealed' \in [Matches -> BOOLEAN]
      /\ ended' \in [Matches -> BOOLEAN]
  <2>1. /\ sealed' = [m \in Matches |-> sealed[m] \/ m \in Over(F, D) \cup F]
        /\ ended' = [m \in Matches |-> ended[m] \/ m \in Over(F, D)]
      BY <1>1, TickEffect
  <2>2. \A m \in Matches : (sealed[m] \/ m \in Over(F, D) \cup F) \in BOOLEAN
                           /\ (ended[m] \/ m \in Over(F, D)) \in BOOLEAN
      BY Zenon
  <2> QED BY <2>1, <2>2, Zenon
<1> QED BY <1>1, <1>4, <1>5, <1>6, <1>7, <1>8, TickEffect DEF TypeOK

\* The passage of time keeps ages under their thresholds.
LEMMA ElapseType == ASSUME TypeOK, Elapse PROVE TypeOK'
<1>1. idle' \in [Conns -> {Heard} \cup 0..IdleMs]
    BY TimeAssumption DEF TimeAssumption, Elapse, TypeOK, Heard
<1>2. binding' \in [Tokens -> {NoBinding} \cup 0..GraceMs]
    BY TimeAssumption DEF TimeAssumption, Elapse, TypeOK, Active, NoBinding
<1> QED BY <1>1, <1>2 DEF Elapse, TypeOK, chanVars, hostVars

\* The server starts well typed.
LEMMA InitType == Init => TypeOK
<1>1. 0 \in 0..IdleMs
    BY TimeAssumption DEF TimeAssumption
<1>2. Init => /\ specOk \in [Matches -> BOOLEAN]
              /\ sealed \in [Matches -> BOOLEAN]
              /\ ended \in [Matches -> BOOLEAN]
              /\ down \in BOOLEAN
    BY Zenon DEF Init
<1>3. Init => binding \in [Tokens -> {NoBinding} \cup 0..GraceMs] /\ ipCount \in [Ips -> Int]
    BY DEF Init
<1> QED BY <1>1, <1>2, <1>3 DEF Init, TypeOK, ConnStates

\* Every step keeps every variable in its type.
LEMMA TypeStep == TypeOK /\ [Next]_vars => TypeOK'
<1>1. CASE UNCHANGED vars
    BY <1>1 DEF vars, connVars, chanVars, seatVars, hostVars, TypeOK
<1> QED BY <1>1, ClientType, HostType, TickType, ElapseType DEF Next

\* Every reachable state is well typed.
THEOREM TypeCorrect == Spec => []TypeOK
BY InitType, TypeStep, PTL DEF Spec

----------------------------------------------------------------------------
(* Seats, connections and reconnect windows *)

\* Closing the connections in L keeps the others and their seats in agreement,
\* provided that a seat which is dropped had no other connection.
LEMMA Departure ==
    ASSUME TypeOK, SeatConnCoherent,
           NEW L \in SUBSET Conns, NEW R \in SUBSET Seats,
           \A s \in R : seatConn[s] \in L \cup {NoConn},
           held' = [c \in Conns |-> IF c \in L THEN NoToken ELSE held[c]],
           seatConn' = Vacated(L, R),
           \A c \in Conns \ L : st'[c] = st[c] \/ st'[c] = "terminal",
           \A s \in Seats : seatConn'[s] # NoConn =>
              seatToken'[s] = seatToken[s] /\ chan'[MatchOf[s]] = chan[MatchOf[s]]
    PROVE  SeatConnCoherent'
<1>1. ASSUME NEW s \in Seats, seatConn'[s] # NoConn
      PROVE  /\ st'[seatConn'[s]] \in SeatedStates
             /\ held'[seatConn'[s]] = seatToken'[s]
             /\ SeatOf[seatToken'[s]] = s
             /\ chan'[MatchOf[s]] = "open"
  <2>1. seatConn'[s] = seatConn[s] /\ seatConn[s] \in Conns \ L
      BY <1>1 DEF Vacated, TypeOK
  <2> QED BY <1>1, <2>1 DEF SeatConnCoherent, SeatedStates
<1>2. ASSUME NEW c \in Conns, held'[c] # NoToken PROVE seatConn'[SeatOf[held'[c]]] = c
  <2>1. c \notin L /\ held'[c] = held[c] /\ held[c] \in Tokens
      BY <1>2 DEF TypeOK
  <2>2. SeatOf[held[c]] \in Seats /\ seatConn[SeatOf[held[c]]] = c
      BY <1>2, <2>1, SeatAssumption DEF SeatAssumption, SeatConnCoherent
  <2>3. SeatOf[held[c]] \notin R
      BY <2>1, <2>2, NullAssumption DEF NullAssumption
  <2> QED BY <2>1, <2>2, <2>3 DEF Vacated
<1> QED BY <1>1, <1>2 DEF SeatConnCoherent

\* A connection that plays no seat yet takes a free one with a token of it.
LEMMA Seating ==
    ASSUME TypeOK, SeatConnCoherent,
           NEW c \in Conns, NEW s \in Seats, NEW t \in Tokens,
           NEW state \in {"joined", "rejoined"}, TakeSeat(c, s, t, state),
           st[c] = "greeted", seatConn[s] = NoConn, SeatOf[t] = s,
           chan[MatchOf[s]] = "open", UNCHANGED chan
    PROVE  SeatConnCoherent'
<1>1. held[c] = NoToken
    BY SeatAssumption, NullAssumption DEF SeatAssumption, NullAssumption, SeatConnCoherent, SeatedStates, TypeOK
<1>2. \A r \in Seats : seatConn[r] # c
    BY NullAssumption DEF NullAssumption, SeatConnCoherent, SeatedStates
<1>3. \A d \in Conns : held[d] # NoToken => SeatOf[held[d]] # s
    BY NullAssumption DEF NullAssumption, SeatConnCoherent
<1>4. st'[c] \in SeatedStates
    BY DEF TakeSeat, JoinedState, SeatedStates, TypeOK
<1>5. /\ seatToken' = [seatToken EXCEPT ![s] = t]
      /\ seatConn' = [seatConn EXCEPT ![s] = c]
      /\ held' = [held EXCEPT ![c] = t]
      /\ \A d \in Conns \ {c} : st'[d] = st[d]
    BY DEF TakeSeat, TypeOK
<1>6. ASSUME NEW r \in Seats, seatConn'[r] # NoConn
      PROVE  /\ st'[seatConn'[r]] \in SeatedStates
             /\ held'[seatConn'[r]] = seatToken'[r]
             /\ SeatOf[seatToken'[r]] = r
             /\ chan'[MatchOf[r]] = "open"
  <2>1. CASE r = s
      BY <1>4, <1>5, <2>1 DEF TypeOK
  <2>2. CASE r # s
    <3>1. /\ seatConn'[r] = seatConn[r] /\ seatToken'[r] = seatToken[r]
          /\ seatConn[r] \in Conns \ {c}
        BY <1>2, <1>5, <1>6, <2>2 DEF TypeOK
    <3> QED BY <1>5, <1>6, <3>1 DEF SeatConnCoherent, TypeOK
  <2> QED BY <2>1, <2>2
<1>7. ASSUME NEW d \in Conns, held'[d] # NoToken PROVE seatConn'[SeatOf[held'[d]]] = d
  <2>1. CASE d = c
      BY <1>5, <2>1 DEF TypeOK
  <2>2. CASE d # c
    <3>1. held'[d] = held[d] /\ SeatOf[held[d]] \in Seats \ {s}
        BY <1>3, <1>5, <1>7, <2>2, SeatAssumption DEF SeatAssumption, TypeOK
    <3> QED BY <1>5, <1>7, <3>1 DEF SeatConnCoherent, TypeOK
  <2> QED BY <2>1, <2>2
<1> QED BY <1>6, <1>7 DEF SeatConnCoherent

\* Handlers that leave seats, tokens and channels alone.
LEMMA Unseated ==
    ASSUME TypeOK, SeatConnCoherent, UNCHANGED <<held, seatToken, seatConn>>,
           \A c \in Conns : st'[c] = st[c] \/ st[c] \notin SeatedStates,
           \A m \in Matches : chan[m] = "open" => chan'[m] = "open"
    PROVE  SeatConnCoherent'
<1>1. ASSUME NEW s \in Seats, seatConn[s] # NoConn
      PROVE  st'[seatConn[s]] \in SeatedStates /\ chan'[MatchOf[s]] = "open"
    BY <1>1, SeatAssumption DEF SeatAssumption, SeatConnCoherent, TypeOK
<1> QED BY <1>1 DEF SeatConnCoherent

\* A client's step keeps seats and connections in agreement.
LEMMA ClientCoherent == ASSUME IInv, ClientNext PROVE SeatsBound' /\ SeatConnCoherent'
<1> USE DEF IInv, connVars, chanVars, seatVars, hostVars
<1>1. ASSUME NEW c \in Conns, Accept(c) \/ Frame(c) \/ Hello(c)
      PROVE  SeatsBound' /\ SeatConnCoherent'
  <2>1. \A d \in Conns : st'[d] = st[d] \/ st[d] \notin SeatedStates
      BY <1>1 DEF Accept, Frame, Hello, SeatedStates, TypeOK
  <2>2. UNCHANGED <<held, seatToken, seatConn, chan>>
      BY <1>1 DEF Accept, Frame, Hello
  <2> QED BY <2>1, <2>2, Unseated DEF SeatsBound
<1>2. ASSUME NEW c \in Conns, SubmitOrder(c) PROVE SeatsBound' /\ SeatConnCoherent'
    BY <1>2, Unseated DEF SubmitOrder, SeatsBound
<1>3. ASSUME NEW c \in Conns, NEW m \in Matches, JoinSpectator(c, m)
      PROVE  SeatsBound' /\ SeatConnCoherent'
  <2>1. \A d \in Conns : st'[d] = st[d] \/ st[d] \notin SeatedStates
      BY <1>3 DEF JoinSpectator, MayJoin, SeatedStates, TypeOK
  <2> QED BY <1>3, <2>1, Unseated DEF JoinSpectator, SeatsBound
<1>4. ASSUME NEW c \in Conns, NEW m \in Matches, NEW t \in Tokens, ReconnectLate(c, m, t)
      PROVE  SeatsBound' /\ SeatConnCoherent'
    BY <1>4, Unseated DEF ReconnectLate, SeatsBound
<1>5. ASSUME NEW c \in Conns, PolicyViolation(c) \/ TransportLoss(c)
      PROVE  SeatsBound' /\ SeatConnCoherent'
  <2>1. CloseConns({c}) /\ UNCHANGED <<chan, seatToken>>
      BY <1>5 DEF PolicyViolation, TransportLoss
  <2> QED BY <2>1, Departure DEF CloseConns, Leave, SeatsBound
<1>6. ASSUME NEW c \in Conns, NEW m \in Matches, JoinTokenless(c, m)
      PROVE  SeatsBound' /\ SeatConnCoherent'
  <2>1. PICK s \in SeatsOf(m) : Claimable(s) /\ TakeSeat(c, s, seatToken[s], "joined")
      BY <1>6 DEF JoinTokenless
  <2>2. s \in Seats /\ seatToken[s] \in Tokens /\ SeatOf[seatToken[s]] = s
      BY <2>1 DEF SeatsOf, Claimable, SeatsBound, TypeOK
  <2>3. chan[MatchOf[s]] = "open" /\ st[c] = "greeted" /\ seatConn[s] = NoConn
      BY <1>6, <2>1, <2>2 DEF JoinTokenless, MayJoin, Claimable, SeatsBound
  <2> QED BY <1>6, <2>1, <2>2, <2>3, Seating DEF JoinTokenless, TakeSeat, SeatsBound, TypeOK
<1>7. ASSUME NEW c \in Conns, NEW t \in Tokens, JoinByToken(c, t)
      PROVE  SeatsBound' /\ SeatConnCoherent'
  <2>1. SeatOf[t] \in Seats
      BY SeatAssumption DEF SeatAssumption
  <2> QED BY <1>7, <2>1, Seating DEF JoinByToken, MayJoin, TakeSeat, SeatsBound, TypeOK
<1>8. ASSUME NEW c \in Conns, NEW t \in Tokens, Reconnect(c, t)
      PROVE  SeatsBound' /\ SeatConnCoherent'
  <2>1. SeatOf[t] \in Seats
      BY SeatAssumption DEF SeatAssumption
  <2>2. CASE seatConn[SeatOf[t]] = NoConn /\ TakeSeat(c, SeatOf[t], t, "rejoined")
      BY <1>8, <2>1, <2>2, Seating DEF Reconnect, MayJoin, TakeSeat, SeatsBound, TypeOK
  <2>3. CASE UNCHANGED <<seatToken, seatConn, st, held, away>>
      BY <1>8, <2>3, Unseated DEF Reconnect, SeatsBound
  <2> QED BY <1>8, <2>2, <2>3 DEF Reconnect
<1> QED BY <1>1, <1>2, <1>3, <1>4, <1>5, <1>6, <1>7, <1>8 DEF ClientNext

\* So does a call of the host.
LEMMA HostCoherent == ASSUME IInv, HostNext PROVE SeatsBound' /\ SeatConnCoherent'
<1> USE DEF IInv, connVars, chanVars, seatVars, hostVars
<1>1. ASSUME NEW m \in Matches, RegisterMatch(m) PROVE SeatsBound' /\ SeatConnCoherent'
  <2>1. \A n \in Matches : chan[n] = "open" => chan'[n] = "open"
      BY <1>1 DEF RegisterMatch, TypeOK
  <2> QED BY <1>1, <2>1, Unseated, SeatAssumption DEF RegisterMatch, SeatsBound, SeatAssumption
<1>2. ASSUME NEW m \in Matches, NEW a \in BOOLEAN, SetSpectators(m, a)
      PROVE  SeatsBound' /\ SeatConnCoherent'
    BY <1>2, Unseated DEF SetSpectators, SeatsBound
<1>3. ASSUME NEW s \in Seats, ForfeitSurrender(s) PROVE SeatsBound' /\ SeatConnCoherent'
    BY <1>3, Unseated DEF ForfeitSurrender, SeatsBound
<1>4. ASSUME NEW t \in Tokens, AttachPlayer(t) PROVE SeatsBound' /\ SeatConnCoherent'
  <2> DEFINE s == SeatOf[t]
             L == Displaced(s, t)
  <2>1. s \in Seats /\ L \in SUBSET Conns /\ L = (IF seatToken[s] = t THEN {} ELSE {seatConn[s]} \ {NoConn})
      BY SeatAssumption DEF SeatAssumption, Displaced, TypeOK
  <2>2. /\ seatToken' = [seatToken EXCEPT ![s] = t] /\ UNCHANGED chan
        /\ chan[MatchOf[s]] = "open"
        /\ held' = [c \in Conns |-> IF c \in L THEN NoToken ELSE held[c]]
        /\ seatConn' = Vacated(L, {})
        /\ \A c \in Conns \ L : st'[c] = st[c]
      BY <1>4, <2>1 DEF AttachPlayer, CloseConns, Leave
  <2>3. \A r \in Seats : seatConn'[r] # NoConn => seatToken'[r] = seatToken[r]
      BY <2>1, <2>2 DEF Vacated, TypeOK
  <2>4. SeatConnCoherent'
      BY <2>1, <2>2, <2>3, Departure
  <2> QED BY <2>1, <2>2, <2>4 DEF SeatsBound, TypeOK
<1>5. ASSUME NEW s \in Seats, DetachPlayer(s) PROVE SeatsBound' /\ SeatConnCoherent'
  <2> DEFINE L == {seatConn[s]} \ {NoConn}
  <2>1. L \in SUBSET Conns
      BY DEF TypeOK
  <2>2. /\ seatToken' = [seatToken EXCEPT ![s] = NoToken] /\ UNCHANGED chan
        /\ held' = [c \in Conns |-> IF c \in L THEN NoToken ELSE held[c]]
        /\ seatConn' = Vacated(L, {})
        /\ \A c \in Conns \ L : st'[c] = st[c]
      BY <1>5, <2>1 DEF DetachPlayer, CloseConns, Leave
  <2>3. \A r \in Seats : seatConn'[r] # NoConn => seatToken'[r] = seatToken[r]
      BY <2>1, <2>2 DEF Vacated, TypeOK
  <2>4. SeatConnCoherent'
      BY <2>1, <2>2, <2>3, Departure
  <2> QED BY <2>1, <2>2, <2>4 DEF SeatsBound, TypeOK
<1>6. ASSUME NEW ms, NEW L \in SUBSET Conns, DropChannels(ms, L),
             \A s \in Seats : MatchOf[s] \in ms => seatConn[s] \in L \cup {NoConn}
      PROVE  SeatsBound' /\ SeatConnCoherent'
  <2> DEFINE R == {s \in Seats : MatchOf[s] \in ms}
  <2>1. /\ held' = [c \in Conns |-> IF c \in L THEN NoToken ELSE held[c]]
        /\ seatConn' = Vacated(L, R)
        /\ \A c \in Conns \ L : st'[c] = st[c]
      BY <1>6 DEF DropChannels, Leave
  <2>2. \A s \in Seats \ R : seatToken'[s] = seatToken[s] /\ chan'[MatchOf[s]] = chan[MatchOf[s]]
      BY <1>6, SeatAssumption DEF DropChannels, SeatAssumption
  <2>3. \A s \in R : seatToken'[s] = NoToken /\ seatConn'[s] = NoConn
      BY <1>6 DEF DropChannels, Vacated
  <2>4. SeatConnCoherent'
      BY <1>6, <2>1, <2>2, <2>3, Departure
  <2> QED BY <2>2, <2>3, <2>4 DEF SeatsBound
<1>7. ASSUME NEW m \in Matches, UnregisterMatch(m) PROVE SeatsBound' /\ SeatConnCoherent'
  <2>1. ChannelConns(m) \in SUBSET Conns
      BY DEF ChannelConns
  <2>2. \A s \in Seats : MatchOf[s] \in {m} => seatConn[s] \in ChannelConns(m) \cup {NoConn}
      BY DEF ChannelConns, SeatsOf, TypeOK
  <2> QED BY <1>6, <1>7, <2>1, <2>2 DEF UnregisterMatch
<1>8. ASSUME CloseServer PROVE SeatsBound' /\ SeatConnCoherent'
  <2>1. Open \in SUBSET Conns
      BY DEF Open
  <2>2. \A s \in Seats : seatConn[s] \in Open \cup {NoConn}
      BY DEF Open, SeatConnCoherent, SeatedStates, TypeOK
  <2> QED BY <1>6, <1>8, <2>1, <2>2 DEF CloseServer
<1> QED BY <1>1, <1>2, <1>3, <1>4, <1>5, <1>7, <1>8 DEF HostNext

\* A tick closes the connection of every seat that its grace sweep removes.
LEMMA TickCoherent == ASSUME IInv, Tick PROVE SeatsBound' /\ SeatConnCoherent'
<1>1. PICK F \in SUBSET Running, D \in SUBSET {s \in alive : MatchOf[s] \in Running} :
         TickStep(F, D)
    BY DEF Tick
<1> DEFINE L == Leaving(F, D)
           R == Removed(F, D)
<1>2. L \in SUBSET Conns /\ R \in SUBSET Seats
    BY TickLeaves DEF Removed
<1>3. /\ held' = [c \in Conns |-> IF c \in L THEN NoToken ELSE held[c]]
      /\ seatConn' = Vacated(L, R)
      /\ seatToken' = [s \in Seats |-> IF s \in R THEN NoToken ELSE seatToken[s]]
      /\ \A c \in Conns \ L : st'[c] = st[c] \/ st'[c] = "terminal"
      /\ UNCHANGED chan
    BY <1>1, TickEffect
<1>4. \A s \in R : seatConn[s] \in L \cup {NoConn}
    BY <1>2 DEF IInv, TypeOK, Leaving
<1>5. \A s \in Seats : seatConn'[s] # NoConn => seatToken'[s] = seatToken[s]
    BY <1>3 DEF Vacated
<1>6. SeatConnCoherent'
    BY <1>2, <1>3, <1>4, <1>5, Departure DEF IInv
<1>7. SeatsBound'
    BY <1>2, <1>3 DEF IInv, SeatsBound
<1> QED BY <1>6, <1>7

\* Every step keeps seats and connections in agreement.
LEMMA CoherentStep == IInv /\ [Next]_vars => SeatsBound' /\ SeatConnCoherent'
<1>1. ASSUME IInv, UNCHANGED vars PROVE SeatsBound' /\ SeatConnCoherent'
    BY <1>1 DEF vars, connVars, chanVars, seatVars, hostVars, IInv, SeatsBound, SeatConnCoherent
<1>2. ASSUME IInv, Elapse PROVE SeatsBound' /\ SeatConnCoherent'
    BY <1>2, Unseated DEF Elapse, chanVars, hostVars, IInv, SeatsBound
<1> QED BY <1>1, <1>2, ClientCoherent, HostCoherent, TickCoherent DEF Next

\* A seat whose window is open stays empty under every step: only the sweep
\* and a lost transport start or end a window, and each vacates the seat.
LEMMA WindowStep == ASSUME IInv, [Next]_vars PROVE ActiveBindingVacant'
<1> USE DEF IInv, connVars, chanVars, seatVars, hostVars
<1>1. ASSUME \A s \in Seats : seatConn'[s] \in {seatConn[s], NoConn},
             \A t \in Tokens : Active(t)' /\ seatToken'[SeatOf[t]] = t =>
                \/ Active(t) /\ seatToken[SeatOf[t]] = t
                \/ seatConn'[SeatOf[t]] = NoConn
      PROVE  ActiveBindingVacant'
    BY <1>1, SeatAssumption DEF SeatAssumption, ActiveBindingVacant
<1>2. ASSUME UNCHANGED seatVars PROVE ActiveBindingVacant'
    BY <1>2 DEF ActiveBindingVacant, Active
<1>3. ASSUME NEW c \in Conns, Accept(c) \/ Frame(c) \/ Hello(c) \/ SubmitOrder(c)
      PROVE  ActiveBindingVacant'
    BY <1>2, <1>3 DEF Accept, Frame, Hello, SubmitOrder
<1>4. ASSUME NEW c \in Conns, NEW m \in Matches, JoinSpectator(c, m) PROVE ActiveBindingVacant'
    BY <1>2, <1>4 DEF JoinSpectator
<1>5. ASSUME NEW c \in Conns, PolicyViolation(c) PROVE ActiveBindingVacant'
    BY <1>1, <1>5 DEF PolicyViolation, CloseConns, Vacated, Active
<1>6. ASSUME NEW c \in Conns, TransportLoss(c) PROVE ActiveBindingVacant'
  <2>1. seatConn' = Vacated({c}, {}) /\ UNCHANGED seatToken
      BY <1>6 DEF TransportLoss, CloseConns
  <2>2. ASSUME NEW t \in Tokens, binding'[t] # binding[t] PROVE seatConn[SeatOf[t]] = c
      BY <1>6, <2>2 DEF TransportLoss, SeatHeldBy, TypeOK
  <2> QED BY <1>1, <2>1, <2>2, SeatAssumption DEF SeatAssumption, Vacated, Active
<1>7. ASSUME NEW c \in Conns, NEW m \in Matches, JoinTokenless(c, m) PROVE ActiveBindingVacant'
  <2>1. PICK s \in SeatsOf(m) : Claimable(s) /\ TakeSeat(c, s, seatToken[s], "joined")
      BY <1>7 DEF JoinTokenless
  <2>2. UNCHANGED binding
      BY <1>7 DEF JoinTokenless
  <2> QED BY <2>1, <2>2 DEF Claimable, TakeSeat, SeatsOf, ActiveBindingVacant, Active, TypeOK
<1>8. ASSUME NEW c \in Conns, NEW t \in Tokens, JoinByToken(c, t) PROVE ActiveBindingVacant'
    BY <1>8, SeatAssumption
       DEF SeatAssumption, JoinByToken, TakeSeat, ActiveBindingVacant, Active, TypeOK
<1>9. ASSUME NEW c \in Conns, NEW t \in Tokens, Reconnect(c, t) PROVE ActiveBindingVacant'
  <2>1. binding' = [binding EXCEPT ![t] = NoBinding] /\ SeatOf[t] \in Seats
      BY <1>9, SeatAssumption DEF SeatAssumption, Reconnect
  <2>2. CASE TakeSeat(c, SeatOf[t], t, "rejoined")
      BY <2>1, <2>2, SeatAssumption
         DEF SeatAssumption, TakeSeat, ActiveBindingVacant, Active, TypeOK
  <2>3. CASE UNCHANGED <<seatToken, seatConn, st, held, away>>
      BY <2>1, <2>3 DEF ActiveBindingVacant, Active, TypeOK
  <2> QED BY <1>9, <2>2, <2>3 DEF Reconnect
<1>10. ASSUME NEW c \in Conns, NEW m \in Matches, NEW t \in Tokens, ReconnectLate(c, m, t)
       PROVE  ActiveBindingVacant'
    BY <1>10 DEF ReconnectLate, ActiveBindingVacant, Active, TypeOK
<1>11. ASSUME NEW m \in Matches,
              RegisterMatch(m) \/ \E a \in BOOLEAN : SetSpectators(m, a)
       PROVE  ActiveBindingVacant'
    BY <1>2, <1>11 DEF RegisterMatch, SetSpectators
<1>12. ASSUME NEW s \in Seats, ForfeitSurrender(s) PROVE ActiveBindingVacant'
    BY <1>2, <1>12 DEF ForfeitSurrender
<1>13. ASSUME NEW t \in Tokens, AttachPlayer(t) PROVE ActiveBindingVacant'
    BY <1>1, <1>13 DEF AttachPlayer, CloseConns, Displaced, Vacated, Active, TypeOK
<1>14. ASSUME NEW s \in Seats, DetachPlayer(s) PROVE ActiveBindingVacant'
    BY <1>1, <1>14, NullAssumption, SeatAssumption
       DEF SeatAssumption, NullAssumption, DetachPlayer, CloseConns, Vacated, Active, TypeOK
<1>15. ASSUME NEW ms, NEW L, DropChannels(ms, L) PROVE ActiveBindingVacant'
    BY <1>1, <1>15, SeatAssumption DEF SeatAssumption, DropChannels, Vacated, Active, TypeOK
<1>16. ASSUME CloseServer \/ \E m \in Matches : UnregisterMatch(m) PROVE ActiveBindingVacant'
    BY <1>15, <1>16 DEF UnregisterMatch, CloseServer
<1>17. ASSUME Elapse PROVE ActiveBindingVacant'
    BY <1>1, <1>17, SeatAssumption DEF SeatAssumption, Elapse, Active, TypeOK
<1>18. ASSUME Tick PROVE ActiveBindingVacant'
  <2>1. PICK F \in SUBSET Running, D \in SUBSET {s \in alive : MatchOf[s] \in Running} :
           TickStep(F, D)
      BY <1>18 DEF Tick
  <2>2. /\ seatConn' = Vacated(Leaving(F, D), Removed(F, D))
        /\ seatToken' = [s \in Seats |-> IF s \in Removed(F, D) THEN NoToken ELSE seatToken[s]]
        /\ binding' = [t \in Tokens |->
                          IF t \in Rebound(F, D) THEN 0
                          ELSE IF t \in Expired(F, D) THEN NoBinding ELSE binding[t]]
      BY <2>1, TickEffect
  <2>3. ASSUME NEW t \in Tokens, t \in Rebound(F, D) PROVE seatConn'[SeatOf[t]] = NoConn
    <3>1. PICK c \in Claims(F, D) : SeatHeldBy(c, SeatOf[t])
        BY <2>3 DEF Rebound
    <3>2. c \in Leaving(F, D) /\ seatConn[SeatOf[t]] = c
        BY <3>1 DEF Claims, Leaving, SeatHeldBy
    <3> QED BY <2>2, <3>2, SeatAssumption DEF SeatAssumption, Vacated
  <2>4. \A s \in Seats : seatConn'[s] \in {seatConn[s], NoConn}
      BY <2>2 DEF Vacated
  <2>5. ASSUME NEW t \in Tokens, t \notin Rebound(F, D), Active(t)', seatToken'[SeatOf[t]] = t
        PROVE  Active(t) /\ seatToken[SeatOf[t]] = t
      BY <2>2, <2>5, SeatAssumption, NullAssumption
         DEF SeatAssumption, NullAssumption, Active
  <2> QED BY <1>1, <2>3, <2>4, <2>5
<1>19. CASE UNCHANGED vars
    BY <1>2, <1>19 DEF vars
<1> QED BY <1>3, <1>4, <1>5, <1>6, <1>7, <1>8, <1>9, <1>10, <1>11, <1>12, <1>13, <1>14, <1>16,
           <1>17, <1>18, <1>19 DEF Next, ClientNext, HostNext

\* The server starts with no seats and no windows.
LEMMA InitIInv == Init => IInv
BY InitType DEF Init, IInv, SeatsBound, SeatConnCoherent, ActiveBindingVacant, Active

\* The inductive invariant holds in every reachable state: types, seats with
\* tokens of their own in open channels, seats and connections in agreement,
\* and open windows on empty seats (match-channel.ts attachSeat, server.ts
\* handleJoinMatch and handleDisconnect, reconnect.ts).
THEOREM Inductive == Spec => []IInv
<1>1. IInv /\ [Next]_vars => IInv'
    BY TypeStep, CoherentStep, WindowStep DEF IInv
<1> QED BY <1>1, InitIInv, PTL DEF Spec

\* No interleaving of joins, reconnects, displacement, idle reaping and grace
\* expiry puts two connections on one seat or one connection on two.
THEOREM SeatsCoherent == Spec => []SeatConnCoherent
BY Inductive, PTL DEF IInv

\* Nobody sits on a seat whose reconnect window is open.
THEOREM WindowKeepsSeat == Spec => []ActiveBindingVacant
BY Inductive, PTL DEF IInv

----------------------------------------------------------------------------
(* Results and orders *)

\* A reported result is final: its channel is sealed and stays decided.
EndedSealed == \A m \in Matches : ended[m] => sealed[m] /\ Decided(alive, m)

PlayInv == IInv /\ EndedSealed /\ TerminalDelivered /\ OrdersInPlay

\* Eliminations never undo a decision.
LEMMA DecidedStays ==
    ASSUME NEW A, NEW B \in SUBSET A, NEW m, Decided(A, m) PROVE Decided(B, m)
BY DEF Decided

\* A result once reported stays final when channels are only sealed and
\* players only eliminated.
LEMMA FinalStays ==
    ASSUME EndedSealed, alive' \in SUBSET alive, UNCHANGED ended,
           \A m \in Matches : sealed[m] => sealed'[m]
    PROVE  EndedSealed'
BY DecidedStays DEF EndedSealed

\* Closing connections takes nothing from the others and orphans their orders.
LEMMA DeparturePlay ==
    ASSUME TypeOK, TerminalDelivered, OrdersInPlay,
           NEW L \in SUBSET Conns, NEW R \in SUBSET Seats,
           \A s \in R : seatConn[s] \in L \cup {NoConn},
           watching' = [c \in Conns |-> IF c \in L THEN NoMatch ELSE watching[c]],
           seatConn' = Vacated(L, R),
           \A c \in Conns \ L : st'[c] = st[c] \/ st'[c] = "terminal",
           pending' \in SUBSET Orphaned(L),
           \A m \in Matches : ended'[m] =>
              \/ ended[m]
              \/ /\ \A c \in ChannelConns(m) \ L : st'[c] = "terminal"
                 /\ \A o \in pending' : MatchOf[o.seat] # m
    PROVE  TerminalDelivered' /\ OrdersInPlay'
<1>1. ASSUME NEW m \in Matches, NEW c \in ChannelConns(m)'
      PROVE  c \in ChannelConns(m) /\ c \in Conns \ L
    BY <1>1, NullAssumption DEF NullAssumption, ChannelConns, SeatsOf, Vacated, TypeOK
<1>2. TerminalDelivered'
    BY <1>1 DEF TerminalDelivered
<1>3. ASSUME NEW o \in pending'
      PROVE  (o.by # NoConn => seatConn'[o.seat] = o.by) /\ ~ended'[MatchOf[o.seat]]
  <2>1. PICK q \in pending : o = IF q.by \in L THEN [q EXCEPT !.by = NoConn] ELSE q
      BY <1>3 DEF Orphaned
  <2>2. q \in Orders /\ o.seat = q.seat /\ q.seat \in Seats
      BY <2>1 DEF TypeOK, Orders
  <2>3. ASSUME o.by # NoConn PROVE seatConn'[o.seat] = o.by
    <3>1. o = q /\ q.by \in Conns \ L
        BY <2>1, <2>2, <2>3 DEF Orders
    <3> QED BY <2>2, <3>1, NullAssumption DEF NullAssumption, OrdersInPlay, Vacated
  <2>4. ~ended'[MatchOf[o.seat]]
      BY <1>3, <2>1, <2>2, SeatAssumption DEF SeatAssumption, OrdersInPlay
  <2> QED BY <2>3, <2>4
<1> QED BY <1>2, <1>3 DEF OrdersInPlay

\* A newcomer to a seat of a match that is over is told so at once.
LEMMA SeatingPlay ==
    ASSUME IInv, EndedSealed, TerminalDelivered, OrdersInPlay,
           NEW c \in Conns, NEW s \in Seats, NEW t \in Tokens,
           NEW state \in {"joined", "rejoined"}, TakeSeat(c, s, t, state),
           st[c] = "greeted", seatConn[s] = NoConn,
           UNCHANGED <<watching, pending, ended>>
    PROVE  TerminalDelivered' /\ OrdersInPlay'
<1>1. /\ seatConn' = [seatConn EXCEPT ![s] = c]
      /\ st'[c] = JoinedState(MatchOf[s], state)
      /\ \A d \in Conns \ {c} : st'[d] = st[d]
    BY DEF TakeSeat, IInv, TypeOK
<1>2. ASSUME NEW m \in Matches, ended[m], NEW d \in ChannelConns(m)' PROVE st'[d] = "terminal"
  <2>1. CASE d \in ChannelConns(m)
      BY <1>1, <1>2, <2>1 DEF TerminalDelivered, ChannelConns
  <2>2. CASE d \notin ChannelConns(m)
    <3>1. d = c /\ MatchOf[s] = m
        BY <1>1, <1>2, <2>2 DEF ChannelConns, SeatsOf, IInv, TypeOK
    <3> QED BY <1>1, <1>2, <3>1 DEF EndedSealed, JoinedState
  <2> QED BY <2>1, <2>2
<1>3. \A o \in pending : o.by # NoConn => o.seat # s
    BY DEF OrdersInPlay
<1> QED BY <1>1, <1>2, <1>3 DEF TerminalDelivered, OrdersInPlay, IInv, TypeOK, Orders

\* A client's step.
LEMMA ClientPlay == ASSUME PlayInv, ClientNext PROVE TerminalDelivered' /\ OrdersInPlay'
<1> USE DEF PlayInv, IInv, connVars, chanVars, seatVars, hostVars
<1>1. ASSUME UNCHANGED <<watching, seatConn, pending, ended>>,
             \A c \in Conns : st[c] = "terminal" => st'[c] = "terminal"
      PROVE  TerminalDelivered' /\ OrdersInPlay'
    BY <1>1 DEF TerminalDelivered, OrdersInPlay, ChannelConns
<1>2. ASSUME NEW c \in Conns, Accept(c) \/ Frame(c) \/ Hello(c)
      PROVE  TerminalDelivered' /\ OrdersInPlay'
  <2>1. \A d \in Conns : st[d] = "terminal" => st'[d] = "terminal"
      BY <1>2 DEF Accept, Frame, Hello, TypeOK
  <2> QED BY <1>1, <1>2, <2>1 DEF Accept, Frame, Hello
<1>3. ASSUME NEW c \in Conns, PolicyViolation(c) \/ TransportLoss(c)
      PROVE  TerminalDelivered' /\ OrdersInPlay'
  <2>1. CloseConns({c}) /\ UNCHANGED ended
      BY <1>3 DEF PolicyViolation, TransportLoss
  <2> QED BY <2>1, DeparturePlay DEF CloseConns, Leave
<1>4. ASSUME NEW c \in Conns, SubmitOrder(c) PROVE TerminalDelivered' /\ OrdersInPlay'
  <2> DEFINE s == SeatOf[held[c]]
  <2>1. s \in Seats /\ seatConn[s] = c /\ st[c] # "terminal"
      BY <1>4, SeatAssumption DEF SeatAssumption, SubmitOrder, SeatConnCoherent, TypeOK
  <2>2. MatchOf[s] \in Matches /\ c \in ChannelConns(MatchOf[s])
      BY <2>1, SeatAssumption DEF SeatAssumption, ChannelConns, SeatsOf
  <2>3. ~ended[MatchOf[s]]
      BY <2>1, <2>2 DEF TerminalDelivered
  <2>4. /\ UNCHANGED <<st, watching, seatConn, ended>>
        /\ pending' = pending \cup {[seat |-> s, by |-> c]}
      BY <1>4 DEF SubmitOrder
  <2> QED BY <2>1, <2>3, <2>4 DEF TerminalDelivered, OrdersInPlay, ChannelConns
<1>5. ASSUME NEW c \in Conns, NEW m \in Matches, JoinTokenless(c, m)
      PROVE  TerminalDelivered' /\ OrdersInPlay'
  <2>1. PICK s \in SeatsOf(m) : Claimable(s) /\ TakeSeat(c, s, seatToken[s], "joined")
      BY <1>5 DEF JoinTokenless
  <2>2. s \in Seats /\ seatToken[s] \in Tokens /\ seatConn[s] = NoConn
      BY <2>1 DEF SeatsOf, Claimable, TypeOK
  <2> QED BY <1>5, <2>1, <2>2, SeatingPlay DEF JoinTokenless, MayJoin
<1>6. ASSUME NEW c \in Conns, NEW t \in Tokens, JoinByToken(c, t)
      PROVE  TerminalDelivered' /\ OrdersInPlay'
    BY <1>6, SeatingPlay, SeatAssumption DEF SeatAssumption, JoinByToken, MayJoin
<1>7. ASSUME NEW c \in Conns, NEW t \in Tokens, Reconnect(c, t)
      PROVE  TerminalDelivered' /\ OrdersInPlay'
  <2>1. UNCHANGED <<watching, pending, ended>> /\ st[c] = "greeted" /\ SeatOf[t] \in Seats
      BY <1>7, SeatAssumption DEF SeatAssumption, Reconnect, MayJoin
  <2>2. CASE seatConn[SeatOf[t]] = NoConn /\ TakeSeat(c, SeatOf[t], t, "rejoined")
      BY <2>1, <2>2, SeatingPlay
  <2>3. CASE UNCHANGED <<seatToken, seatConn, st, held, away>>
      BY <1>1, <2>1, <2>3
  <2> QED BY <1>7, <2>2, <2>3 DEF Reconnect
<1>8. ASSUME NEW c \in Conns, NEW m \in Matches, NEW t \in Tokens, ReconnectLate(c, m, t)
      PROVE  TerminalDelivered' /\ OrdersInPlay'
    BY <1>1, <1>8 DEF ReconnectLate
<1>9. ASSUME NEW c \in Conns, NEW m \in Matches, JoinSpectator(c, m)
      PROVE  TerminalDelivered' /\ OrdersInPlay'
  <2>1. /\ st'[c] = JoinedState(m, "joined")
        /\ \A d \in Conns \ {c} : st'[d] = st[d]
        /\ watching' = [watching EXCEPT ![c] = m]
        /\ UNCHANGED <<seatConn, pending, ended>>
        /\ st[c] = "greeted"
      BY <1>9 DEF JoinSpectator, MayJoin, TypeOK
  <2>2. ASSUME NEW n \in Matches, ended[n], NEW d \in ChannelConns(n)' PROVE st'[d] = "terminal"
    <3>1. CASE d \in ChannelConns(n)
        BY <2>1, <2>2, <3>1 DEF TerminalDelivered, ChannelConns
    <3>2. CASE d \notin ChannelConns(n)
      <4>1. d = c /\ n = m
          BY <2>1, <2>2, <3>2 DEF ChannelConns, TypeOK
      <4> QED BY <2>1, <2>2, <4>1 DEF EndedSealed, JoinedState
    <3> QED BY <3>1, <3>2
  <2> QED BY <2>1, <2>2 DEF TerminalDelivered, OrdersInPlay
<1> QED BY <1>2, <1>3, <1>4, <1>5, <1>6, <1>7, <1>8, <1>9 DEF ClientNext

\* A host's call.
LEMMA HostPlay == ASSUME PlayInv, HostNext PROVE TerminalDelivered' /\ OrdersInPlay'
<1> USE DEF PlayInv, IInv, connVars, chanVars, seatVars, hostVars
<1>1. ASSUME UNCHANGED <<st, watching, seatConn, pending, ended>>
      PROVE  TerminalDelivered' /\ OrdersInPlay'
    BY <1>1 DEF TerminalDelivered, OrdersInPlay, ChannelConns
<1>2. ASSUME NEW m \in Matches, RegisterMatch(m) \/ \E a \in BOOLEAN : SetSpectators(m, a)
      PROVE  TerminalDelivered' /\ OrdersInPlay'
    BY <1>1, <1>2 DEF RegisterMatch, SetSpectators
<1>3. ASSUME NEW s \in Seats, ForfeitSurrender(s) PROVE TerminalDelivered' /\ OrdersInPlay'
    BY <1>1, <1>3 DEF ForfeitSurrender
<1>4. ASSUME NEW t \in Tokens, AttachPlayer(t) PROVE TerminalDelivered' /\ OrdersInPlay'
  <2>1. Displaced(SeatOf[t], t) \in SUBSET Conns
      BY SeatAssumption DEF SeatAssumption, Displaced, TypeOK
  <2> QED BY <1>4, <2>1, DeparturePlay DEF AttachPlayer, CloseConns, Leave
<1>5. ASSUME NEW s \in Seats, DetachPlayer(s) PROVE TerminalDelivered' /\ OrdersInPlay'
  <2>1. {seatConn[s]} \ {NoConn} \in SUBSET Conns
      BY DEF TypeOK
  <2> QED BY <1>5, <2>1, DeparturePlay DEF DetachPlayer, CloseConns, Leave
<1>6. ASSUME NEW ms, NEW L \in SUBSET Conns, DropChannels(ms, L),
             \A s \in Seats : MatchOf[s] \in ms => seatConn[s] \in L \cup {NoConn}
      PROVE  TerminalDelivered' /\ OrdersInPlay'
    BY <1>6, DeparturePlay DEF DropChannels, Leave
<1>7. ASSUME NEW m \in Matches, UnregisterMatch(m) PROVE TerminalDelivered' /\ OrdersInPlay'
  <2>1. ChannelConns(m) \in SUBSET Conns
      BY DEF ChannelConns
  <2>2. \A s \in Seats : MatchOf[s] \in {m} => seatConn[s] \in ChannelConns(m) \cup {NoConn}
      BY DEF ChannelConns, SeatsOf, TypeOK
  <2> QED BY <1>6, <1>7, <2>1, <2>2 DEF UnregisterMatch
<1>8. ASSUME CloseServer PROVE TerminalDelivered' /\ OrdersInPlay'
  <2>1. Open \in SUBSET Conns
      BY DEF Open
  <2>2. \A s \in Seats : seatConn[s] \in Open \cup {NoConn}
      BY DEF Open, SeatConnCoherent, SeatedStates, TypeOK
  <2> QED BY <1>6, <1>8, <2>1, <2>2 DEF CloseServer
<1> QED BY <1>2, <1>3, <1>4, <1>5, <1>7, <1>8 DEF HostNext

\* A tick drains the orders of every channel it runs, and tells everybody in
\* the channels it ends.
LEMMA TickPlay == ASSUME PlayInv, Tick PROVE EndedSealed' /\ TerminalDelivered' /\ OrdersInPlay'
<1> USE DEF PlayInv, IInv
<1>1. PICK F \in SUBSET Running, D \in SUBSET {s \in alive : MatchOf[s] \in Running} :
         TickStep(F, D)
    BY DEF Tick
<1> DEFINE L == Leaving(F, D)
           R == Removed(F, D)
<1>2. L \in SUBSET Conns /\ R \in SUBSET Seats
    BY TickLeaves DEF Removed
<1>3. \A s \in R : seatConn[s] \in L \cup {NoConn}
    BY <1>2 DEF TypeOK, Leaving
<1>4. /\ watching' = [c \in Conns |-> IF c \in L THEN NoMatch ELSE watching[c]]
      /\ seatConn' = Vacated(L, R)
      /\ \A c \in Conns \ L : st'[c] = st[c] \/ st'[c] = "terminal"
      /\ \A c \in (Told(F, D) \cap Conns) \ L : st'[c] = "terminal"
      /\ pending' = {o \in Orphaned(L) : MatchOf[o.seat] \notin Running}
      /\ alive' = alive \ D
    BY <1>1, TickEffect DEF Living
<1>5. /\ ended' = [m \in Matches |-> ended[m] \/ m \in Over(F, D)]
      /\ sealed' = [m \in Matches |-> sealed[m] \/ m \in Over(F, D) \cup F]
    BY <1>1, TickEffect
<1>6. \A m \in Matches : (ended'[m] <=> ended[m] \/ m \in Over(F, D))
                         /\ (sealed[m] \/ m \in Over(F, D) => sealed'[m])
    BY <1>5, Zenon
<1>7. \A m \in Over(F, D) : ChannelConns(m) \in SUBSET Told(F, D) /\ m \in Running
    BY DEF Over, Told
<1>8. TerminalDelivered' /\ OrdersInPlay'
  <2>1. ASSUME NEW m \in Over(F, D)
        PROVE  /\ \A c \in ChannelConns(m) \ L : st'[c] = "terminal"
               /\ \A o \in pending' : MatchOf[o.seat] # m
      BY <1>4, <1>7 DEF ChannelConns
  <2>2. pending' \in SUBSET Orphaned(L)
      BY <1>4
  <2> QED BY <1>2, <1>3, <1>4, <1>6, <2>1, <2>2, DeparturePlay
<1>9. ASSUME NEW m \in Matches, ended'[m] PROVE sealed'[m] /\ Decided(alive', m)
  <2>1. CASE ended[m]
      BY <1>4, <1>6, <2>1, DecidedStays DEF EndedSealed
  <2>2. CASE m \in Over(F, D)
      BY <1>4, <1>6, <2>2 DEF Over
  <2> QED BY <1>6, <1>9, <2>1, <2>2
<1> QED BY <1>8, <1>9 DEF EndedSealed

\* Every step keeps results delivered and queued orders in play.
LEMMA PlayStep == PlayInv /\ [Next]_vars => PlayInv'
<1> SUFFICES ASSUME PlayInv, [Next]_vars PROVE PlayInv'
    OBVIOUS
<1> USE DEF PlayInv
<1>1. IInv'
    BY TypeStep, CoherentStep, WindowStep DEF IInv
<1>2. CASE UNCHANGED <<alive, sealed, ended, watching, seatConn, pending, st>>
    BY <1>1, <1>2 DEF EndedSealed, TerminalDelivered, OrdersInPlay, ChannelConns
<1>3. CASE ClientNext
  <2>1. UNCHANGED <<alive, sealed, ended>>
      BY <1>3 DEF ClientNext, Accept, Frame, Hello, PolicyViolation, TransportLoss, SubmitOrder,
                  JoinTokenless, JoinSpectator, JoinByToken, Reconnect, ReconnectLate,
                  chanVars, hostVars
  <2> QED BY <1>1, <1>3, <2>1, ClientPlay, FinalStays
<1>4. CASE HostNext
  <2>1. alive' \in SUBSET alive /\ UNCHANGED <<sealed, ended>>
      BY <1>4 DEF HostNext, RegisterMatch, UnregisterMatch, SetSpectators, AttachPlayer,
                  DetachPlayer, ForfeitSurrender, CloseServer, DropChannels, chanVars, hostVars
  <2> QED BY <1>1, <1>4, <2>1, HostPlay, FinalStays
<1>5. CASE Tick
    BY <1>1, <1>5, TickPlay
<1>6. CASE Elapse \/ UNCHANGED vars
    BY <1>2, <1>6 DEF Elapse, vars, connVars, chanVars, seatVars, hostVars
<1> QED BY <1>3, <1>4, <1>5, <1>6 DEF Next

\* The inductive invariant of play: a reported result is sealed, known to all
\* of the channel and leaves no order queued (server.ts runTickPipeline).
THEOREM PlayInductive == Spec => []PlayInv
<1>1. Init => PlayInv
    BY InitIInv DEF Init, PlayInv, EndedSealed, TerminalDelivered, OrdersInPlay
<1> QED BY <1>1, PlayStep, PTL DEF Spec

\* Everybody in a channel whose result was reported has had the terminal frame,
\* however late they came.
THEOREM ResultReachesAll == Spec => []TerminalDelivered
BY PlayInductive, PTL DEF PlayInv

\* An order waiting for the tick boundary is of the seat's own connection, and
\* of a match that is not over.
THEOREM OrdersStayInPlay == Spec => []OrdersInPlay
BY PlayInductive, PTL DEF PlayInv

----------------------------------------------------------------------------
(* Reconnect windows *)

\* An open window is closed by no step but its owner's return.
LEMMA WindowEnds ==
    ASSUME IInv, [Next]_vars, NEW t \in Tokens,
           Active(t), binding'[t] = NoBinding, seatToken[SeatOf[t]] = t
    PROVE  \E c \in Conns : held'[c] = t /\ seatConn'[SeatOf[t]] = c
<1> USE DEF IInv, Active
<1>1. binding'[t] # binding[t]
    OBVIOUS
<1>2. CASE ClientNext
  <2>1. PICK c \in Conns : TransportLoss(c) \/ (\E r \in Tokens : Reconnect(c, r))
                            \/ (\E m \in Matches, r \in Tokens : ReconnectLate(c, m, r))
      BY <1>1, <1>2 DEF ClientNext, Accept, Frame, Hello, PolicyViolation, SubmitOrder, JoinTokenless,
                        JoinSpectator, JoinByToken, chanVars, seatVars
  <2>2. CASE TransportLoss(c)
      BY <1>1, <2>2 DEF TransportLoss, NoBinding
  <2>3. ASSUME NEW r \in Tokens, Reconnect(c, r)
        PROVE  held'[c] = t /\ seatConn'[SeatOf[t]] = c
    <3>1. r = t /\ SeatOf[t] \in Seats
        BY <1>1, <2>3, SeatAssumption DEF Reconnect, TypeOK, SeatAssumption
    <3>2. seatToken[SeatOf[t]] # NoToken /\ seatConn[SeatOf[t]] = NoConn
        BY NullAssumption DEF NullAssumption, ActiveBindingVacant
    <3> QED BY <2>3, <3>1, <3>2 DEF Reconnect, TakeSeat, TypeOK
  <2>4. ASSUME NEW m \in Matches, NEW r \in Tokens, ReconnectLate(c, m, r) PROVE FALSE
      BY <1>1, <2>4, TimeAssumption DEF ReconnectLate, Lapsed, TimeAssumption, TypeOK
  <2> QED BY <2>1, <2>2, <2>3, <2>4
<1>3. CASE HostNext
    BY <1>1, <1>3 DEF HostNext, RegisterMatch, UnregisterMatch, SetSpectators, AttachPlayer,
                      DetachPlayer, ForfeitSurrender, CloseServer, DropChannels, seatVars
<1>4. CASE Tick
  <2>1. PICK F \in SUBSET Running, D \in SUBSET {s \in alive : MatchOf[s] \in Running} :
           TickStep(F, D)
      BY <1>4 DEF Tick
  <2>2. binding'[t] = (IF t \in Rebound(F, D) THEN 0
                       ELSE IF t \in Expired(F, D) THEN NoBinding ELSE binding[t])
      BY <2>1, TickEffect
  <2> QED BY <1>1, <2>2, TimeAssumption DEF TimeAssumption, Expired, Lapsed, NoBinding, TypeOK
<1>5. CASE Elapse
    BY <1>1, <1>5 DEF Elapse, NoBinding, TypeOK
<1>6. CASE UNCHANGED vars
    BY <1>1, <1>6 DEF vars, seatVars
<1> QED BY <1>2, <1>3, <1>4, <1>5, <1>6 DEF Next

\* A player who comes back inside the window gets the seat back.
THEOREM WindowHonoured == Spec => GraceHonoured
<1>1. IInv /\ [Next]_vars =>
        [\A t \in Tokens :
           Active(t) /\ binding'[t] = NoBinding /\ seatToken[SeatOf[t]] = t
             => \E c \in Conns : held'[c] = t /\ seatConn'[SeatOf[t]] = c]_vars
    BY WindowEnds
<1> QED BY <1>1, Inductive, PTL DEF Spec, GraceHonoured

----------------------------------------------------------------------------
(* Crashes *)

\* Only a tick seals a channel, and what it closes besides the channels that
\* threw is silent or on a seat whose window has lapsed.
LEMMA CrashSpares ==
    ASSUME PlayInv, [Next]_vars, NEW m \in Matches, sealed'[m], ~sealed[m], ~ended'[m],
           NEW c \in Open \ ChannelConns(m), st'[c] = "absent"
    PROVE  \/ Silent(c)
           \/ \E t \in Tokens : Lapsed(t) /\ seatConn[SeatOf[t]] = c
           \/ \E n \in Matches \ {m} :
                 sealed'[n] /\ ~sealed[n] /\ ~ended'[n] /\ c \in ChannelConns(n)
<1>1. sealed' # sealed
    OBVIOUS
<1>2. Tick
    BY <1>1 DEF Next, ClientNext, HostNext, Accept, Frame, Hello, PolicyViolation, TransportLoss,
                SubmitOrder, JoinTokenless, JoinSpectator, JoinByToken, Reconnect, ReconnectLate,
                RegisterMatch, UnregisterMatch, SetSpectators, AttachPlayer, DetachPlayer,
                ForfeitSurrender, CloseServer, DropChannels, Elapse, vars, chanVars
<1>3. PICK F \in SUBSET Running, D \in SUBSET {s \in alive : MatchOf[s] \in Running} :
         TickStep(F, D)
    BY <1>2 DEF Tick
<1>4. c \in Leaving(F, D)
  <2>1. st'[c] = (IF c \in Leaving(F, D) THEN "absent"
                  ELSE IF c \in Told(F, D) THEN "terminal" ELSE st[c])
      BY <1>3, TickEffect DEF Open
  <2> QED BY <2>1 DEF Open
<1>5. CASE c \in CrashCloses(F)
  <2>1. PICK n \in F : c \in ChannelConns(n)
      BY <1>5 DEF CrashCloses
  <2>2. n \in Matches /\ ~sealed[n] /\ n \notin Over(F, D)
      BY <1>3 DEF Running, Over
  <2>3. sealed'[n] /\ ~ended'[n]
      BY <1>3, <2>2, TickEffect DEF PlayInv, EndedSealed
  <2> QED BY <2>1, <2>2, <2>3
<1>6. CASE c \in Reaped(F)
    BY <1>6 DEF Reaped
<1>7. CASE \E s \in Removed(F, D) : seatConn[s] = c
    BY <1>7 DEF Removed, Expired
<1> QED BY <1>4, <1>5, <1>6, <1>7 DEF Leaving

\* A match whose tick throws takes no connection of another match with it.
THEOREM CrashIsContained == Spec => CrashContained
<1>1. PlayInv /\ [Next]_vars =>
        [\A m \in Matches :
           sealed'[m] /\ ~sealed[m] /\ ~ended'[m] =>
             \A c \in Open \ ChannelConns(m) :
                \/ Silent(c)
                \/ \E t \in Tokens : Lapsed(t) /\ seatConn[SeatOf[t]] = c
                \/ \E n \in Matches \ {m} :
                      sealed'[n] /\ ~sealed[n] /\ ~ended'[n] /\ c \in ChannelConns(n)
                \/ st'[c] # "absent"]_vars
    BY CrashSpares
<1> QED BY <1>1, PlayInductive, PTL DEF Spec, CrashContained

----------------------------------------------------------------------------
(* Admission *)

\* A watcher is past its join.
WatchersJoined ==
    \A c \in Conns : watching[c] # NoMatch => st[c] \in {"joined", "terminal"}

AdmissionInv == IInv /\ WatchersJoined /\ AdmissionExact

\* Sets of connections have a cardinality.
LEMMA FiniteConns == ASSUME NEW S \in SUBSET Conns PROVE IsFiniteSet(S) /\ Cardinality(S) \in Nat
BY FS_Subset, FS_CardinalityType, AdmissionAssumption DEF AdmissionAssumption

\* What closing open connections does to the counters.
LEMMA DepartureAdmission ==
    ASSUME TypeOK, AdmissionExact, NEW L \in SUBSET Open,
           ipCount' = IpCountWithout(L),
           \A c \in L : st'[c] = "absent",
           \A c \in Conns \ L : st'[c] # "absent" <=> st[c] # "absent"
    PROVE  AdmissionExact'
<1>1. Open' = Open \ L /\ Open \in SUBSET Conns
    BY DEF Open
<1>2. Cardinality(Open') <= Cardinality(Open)
    BY <1>1, FiniteConns, FS_Subset
<1>3. Cardinality(Open') <= MaxGlobal
  <2>1. Cardinality(Open') \in Nat /\ Cardinality(Open) \in Nat
      BY <1>1, FiniteConns
  <2> QED BY <1>2, <2>1, AdmissionAssumption DEF AdmissionExact, AdmissionAssumption
<1>4. ASSUME NEW i \in Ips
      PROVE  /\ ipCount'[i] = Cardinality({c \in Open' : IpOf[c] = i})
             /\ ipCount'[i] <= MaxPerIp
  <2> DEFINE S == {c \in Open : IpOf[c] = i}
             T == {c \in L : IpOf[c] = i}
  <2>1. /\ {c \in Open' : IpOf[c] = i} = S \ T /\ S \cap T = T
        /\ S \in SUBSET Conns /\ T \in SUBSET Conns
      BY <1>1
  <2>2. Cardinality(S \ T) = Cardinality(S) - Cardinality(T)
      BY <2>1, FiniteConns, FS_Difference
  <2>3. Cardinality(S) \in Nat /\ Cardinality(T) \in Nat
      BY <2>1, FiniteConns
  <2>4. ipCount'[i] = ipCount[i] - Cardinality(T)
      BY DEF IpCountWithout
  <2>5. ipCount[i] = Cardinality(S) /\ ipCount[i] <= MaxPerIp
      BY DEF AdmissionExact
  <2> HIDE DEF S, T
  <2>6. ipCount'[i] <= MaxPerIp
      BY <2>3, <2>4, <2>5, AdmissionAssumption DEF AdmissionAssumption
  <2> QED BY <2>1, <2>2, <2>4, <2>5, <2>6
<1> QED BY <1>3, <1>4 DEF AdmissionExact

\* A step that opens and closes nothing.
LEMMA SameOpen ==
    ASSUME AdmissionExact, UNCHANGED ipCount,
           \A c \in Conns : st'[c] # "absent" <=> st[c] # "absent"
    PROVE  AdmissionExact'
<1>1. Open' = Open
    BY DEF Open
<1> QED BY <1>1 DEF AdmissionExact

\* An accepted upgrade is counted under both caps (server.ts checkAdmission).
LEMMA AcceptAdmission ==
    ASSUME TypeOK, AdmissionExact, NEW c \in Conns, Accept(c) PROVE AdmissionExact'
<1>1. Open' = Open \cup {c} /\ c \notin Open /\ Open \in SUBSET Conns
    BY DEF Accept, Open, TypeOK
<1>2. Cardinality(Open') = Cardinality(Open) + 1 /\ Cardinality(Open) \in Nat
    BY <1>1, FiniteConns, FS_AddElement
<1>3. Cardinality(Open') <= MaxGlobal
    BY <1>2, AdmissionAssumption DEF Accept, AdmissionAssumption
<1>4. ASSUME NEW i \in Ips
      PROVE  /\ ipCount'[i] = Cardinality({d \in Open' : IpOf[d] = i})
             /\ ipCount'[i] <= MaxPerIp
  <2> DEFINE S == {d \in Open : IpOf[d] = i}
  <2>1. ipCount[i] = Cardinality(S) /\ ipCount[i] <= MaxPerIp /\ S \in SUBSET Conns /\ c \notin S
      BY <1>1 DEF AdmissionExact
  <2>2. CASE IpOf[c] = i
    <3>1. {d \in Open' : IpOf[d] = i} = S \cup {c}
        BY <1>1, <2>2
    <3>2. Cardinality(S \cup {c}) = Cardinality(S) + 1 /\ Cardinality(S) \in Nat
        BY <2>1, FiniteConns, FS_AddElement
    <3>3. ipCount'[i] = ipCount[i] + 1 /\ ipCount[i] < MaxPerIp
        BY <2>2 DEF Accept
    <3> QED BY <2>1, <3>1, <3>2, <3>3, AdmissionAssumption DEF AdmissionAssumption
  <2>3. CASE IpOf[c] # i
    <3>1. {d \in Open' : IpOf[d] = i} = S
        BY <1>1, <2>3
    <3>2. ipCount'[i] = ipCount[i]
        BY <2>3 DEF Accept
    <3> QED BY <2>1, <3>1, <3>2
  <2> QED BY <2>2, <2>3
<1> QED BY <1>3, <1>4 DEF AdmissionExact

\* The connections of a channel are open.
LEMMA MembersOpen ==
    ASSUME IInv, WatchersJoined, NEW m \in Matches PROVE ChannelConns(m) \in SUBSET Open
BY NullAssumption DEF NullAssumption, ChannelConns, SeatsOf, Open, IInv, SeatConnCoherent, SeatedStates,
                      WatchersJoined

\* Leave counts what it closes.
LEMMA LeaveAdmission ==
    ASSUME TypeOK, AdmissionExact, WatchersJoined, NEW L \in SUBSET Open, Leave(L)
    PROVE  AdmissionExact' /\ WatchersJoined'
<1>1. WatchersJoined'
    BY DEF Leave, WatchersJoined
<1>2. AdmissionExact'
    BY DepartureAdmission DEF Leave, Open
<1> QED BY <1>1, <1>2

\* A client's step keeps the counters exact.
LEMMA ClientAdmission ==
    ASSUME AdmissionInv, ClientNext PROVE AdmissionExact' /\ WatchersJoined'
<1> USE DEF AdmissionInv, IInv, connVars, chanVars, seatVars, hostVars
<1>1. ASSUME NEW c \in Conns, Accept(c) PROVE AdmissionExact' /\ WatchersJoined'
    BY <1>1, AcceptAdmission DEF Accept, WatchersJoined, TypeOK
<1>2. ASSUME NEW c \in Conns, Frame(c) \/ Hello(c) \/ SubmitOrder(c)
      PROVE  AdmissionExact' /\ WatchersJoined'
  <2>1. /\ \A d \in Conns : st'[d] = st[d] \/ (st[d] = "pending" /\ st'[d] = "greeted")
        /\ UNCHANGED <<ipCount, watching>>
      BY <1>2 DEF Frame, Hello, SubmitOrder, TypeOK
  <2> QED BY <2>1, SameOpen DEF WatchersJoined
<1>3. ASSUME NEW c \in Conns, PolicyViolation(c) \/ TransportLoss(c)
      PROVE  AdmissionExact' /\ WatchersJoined'
    BY <1>3, LeaveAdmission DEF PolicyViolation, TransportLoss, CloseConns, Open
<1>4. ASSUME NEW c \in Conns, NEW s \in Seats, NEW t \in Tokens, NEW state \in {"joined", "rejoined"},
             TakeSeat(c, s, t, state), st[c] = "greeted", UNCHANGED <<ipCount, watching>>
      PROVE  AdmissionExact' /\ WatchersJoined'
  <2>1. st'[c] # "absent" /\ \A d \in Conns \ {c} : st'[d] = st[d]
      BY <1>4 DEF TakeSeat, JoinedState, TypeOK
  <2> QED BY <1>4, <2>1, SameOpen DEF WatchersJoined
<1>5. ASSUME NEW c \in Conns, NEW m \in Matches, JoinTokenless(c, m)
      PROVE  AdmissionExact' /\ WatchersJoined'
  <2>1. PICK s \in SeatsOf(m) : Claimable(s) /\ TakeSeat(c, s, seatToken[s], "joined")
      BY <1>5 DEF JoinTokenless
  <2>2. s \in Seats /\ seatToken[s] \in Tokens
      BY <2>1 DEF SeatsOf, Claimable, TypeOK
  <2> QED BY <1>4, <1>5, <2>1, <2>2 DEF JoinTokenless, MayJoin
<1>6. ASSUME NEW c \in Conns, NEW t \in Tokens, JoinByToken(c, t) PROVE AdmissionExact' /\ WatchersJoined'
    BY <1>4, <1>6, SeatAssumption DEF SeatAssumption, JoinByToken, MayJoin
<1>7. ASSUME NEW c \in Conns, NEW t \in Tokens, Reconnect(c, t) PROVE AdmissionExact' /\ WatchersJoined'
  <2>1. st[c] = "greeted" /\ UNCHANGED <<ipCount, watching>> /\ SeatOf[t] \in Seats
      BY <1>7, SeatAssumption DEF SeatAssumption, Reconnect, MayJoin
  <2>2. CASE TakeSeat(c, SeatOf[t], t, "rejoined")
      BY <1>4, <2>1, <2>2
  <2>3. CASE UNCHANGED <<seatToken, seatConn, st, held, away>>
      BY <2>1, <2>3, SameOpen DEF WatchersJoined
  <2> QED BY <1>7, <2>2, <2>3 DEF Reconnect
<1>8. ASSUME NEW c \in Conns, NEW m \in Matches, NEW t \in Tokens, ReconnectLate(c, m, t)
      PROVE  AdmissionExact' /\ WatchersJoined'
    BY <1>8, SameOpen DEF ReconnectLate, WatchersJoined
<1>9. ASSUME NEW c \in Conns, NEW m \in Matches, JoinSpectator(c, m)
      PROVE  AdmissionExact' /\ WatchersJoined'
  <2>1. /\ st'[c] \in {"joined", "terminal"} /\ \A d \in Conns \ {c} : st'[d] = st[d]
        /\ \A d \in Conns \ {c} : watching'[d] = watching[d]
        /\ UNCHANGED ipCount /\ st[c] = "greeted"
      BY <1>9 DEF JoinSpectator, MayJoin, JoinedState, TypeOK
  <2> QED BY <2>1, SameOpen DEF WatchersJoined
<1> QED BY <1>1, <1>2, <1>3, <1>5, <1>6, <1>7, <1>8, <1>9 DEF ClientNext

\* So does a call of the host.
LEMMA HostAdmission ==
    ASSUME AdmissionInv, HostNext PROVE AdmissionExact' /\ WatchersJoined'
<1> USE DEF AdmissionInv, IInv, connVars, chanVars, seatVars, hostVars
<1>1. ASSUME UNCHANGED <<st, watching, ipCount>> PROVE AdmissionExact' /\ WatchersJoined'
    BY <1>1, SameOpen DEF WatchersJoined
<1>2. ASSUME NEW m \in Matches, RegisterMatch(m) \/ \E a \in BOOLEAN : SetSpectators(m, a)
      PROVE  AdmissionExact' /\ WatchersJoined'
    BY <1>1, <1>2 DEF RegisterMatch, SetSpectators
<1>3. ASSUME NEW s \in Seats, ForfeitSurrender(s) PROVE AdmissionExact' /\ WatchersJoined'
    BY <1>1, <1>3 DEF ForfeitSurrender
<1>4. \A s \in Seats : {seatConn[s]} \ {NoConn} \in SUBSET Open
    BY DEF Open, SeatConnCoherent, SeatedStates, TypeOK
<1>5. ASSUME NEW t \in Tokens, AttachPlayer(t) PROVE AdmissionExact' /\ WatchersJoined'
  <2>1. Displaced(SeatOf[t], t) \in SUBSET Open
      BY <1>4, SeatAssumption DEF SeatAssumption, Displaced
  <2> QED BY <1>5, <2>1, LeaveAdmission DEF AttachPlayer, CloseConns
<1>6. ASSUME NEW s \in Seats, DetachPlayer(s) PROVE AdmissionExact' /\ WatchersJoined'
    BY <1>4, <1>6, LeaveAdmission DEF DetachPlayer, CloseConns
<1>7. ASSUME CloseServer \/ \E m \in Matches : UnregisterMatch(m)
      PROVE  AdmissionExact' /\ WatchersJoined'
    BY <1>7, MembersOpen, LeaveAdmission DEF CloseServer, UnregisterMatch, DropChannels
<1> QED BY <1>2, <1>3, <1>5, <1>6, <1>7 DEF HostNext

\* So does a tick, which closes whole channels and silent connections.
LEMMA TickAdmission ==
    ASSUME AdmissionInv, Tick PROVE AdmissionExact' /\ WatchersJoined'
<1> USE DEF AdmissionInv, IInv
<1>1. PICK F \in SUBSET Running, D \in SUBSET {s \in alive : MatchOf[s] \in Running} :
         TickStep(F, D)
    BY DEF Tick
<1> DEFINE L == Leaving(F, D)
<1>2. L \in SUBSET Open
  <2>1. CrashCloses(F) \in SUBSET Open
      BY MembersOpen DEF CrashCloses, Running
  <2>2. \A s \in Seats : seatConn[s] # NoConn => seatConn[s] \in Open
      BY DEF Open, SeatConnCoherent, SeatedStates, TypeOK
  <2> QED BY <2>1, <2>2, NullAssumption DEF NullAssumption, Leaving, Reaped, Removed
<1>3. Told(F, D) \in SUBSET Open
    BY MembersOpen DEF Told, Over, Running
<1>4. /\ ipCount' = IpCountWithout(L)
      /\ \A c \in Conns : st'[c] = IF c \in L THEN "absent"
                                 ELSE IF c \in Told(F, D) THEN "terminal" ELSE st[c]
      /\ \A c \in Conns : watching'[c] = IF c \in L THEN NoMatch ELSE watching[c]
    BY <1>1, TickEffect
<1>5. AdmissionExact'
    BY <1>2, <1>3, <1>4, DepartureAdmission DEF Open
<1>6. WatchersJoined'
    BY <1>4 DEF WatchersJoined
<1> QED BY <1>5, <1>6

\* Every step keeps the counters exact and the caps.
LEMMA AdmissionStep == AdmissionInv /\ [Next]_vars => AdmissionInv'
<1> SUFFICES ASSUME AdmissionInv, [Next]_vars PROVE AdmissionInv'
    OBVIOUS
<1>1. IInv'
    BY TypeStep, CoherentStep, WindowStep DEF AdmissionInv, IInv
<1>2. CASE Elapse \/ UNCHANGED vars
    BY <1>1, <1>2, SameOpen DEF Elapse, vars, connVars, AdmissionInv, WatchersJoined
<1> QED BY <1>1, <1>2, ClientAdmission, HostAdmission, TickAdmission DEF Next, AdmissionInv

\* The per-address counters stay exact and the caps hold on every close path.
THEOREM CapsHold == Spec => []AdmissionExact
<1>1. Init => AdmissionInv
  <2>1. ASSUME Init PROVE Open = {} /\ \A i \in Ips : ipCount[i] = 0
      BY <2>1 DEF Init, Open
  <2>2. ASSUME Init PROVE AdmissionExact
    <3>1. Cardinality({}) = 0 /\ \A i \in Ips : {c \in {} : IpOf[c] = i} = {}
        BY FS_EmptySet
    <3> QED BY <2>1, <2>2, <3>1, AdmissionAssumption DEF AdmissionAssumption, AdmissionExact
  <2> QED BY <2>2, InitIInv DEF Init, AdmissionInv, WatchersJoined
<1> QED BY <1>1, AdmissionStep, PTL DEF Spec, AdmissionInv

=============================================================================
