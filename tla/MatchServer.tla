---------------------------- MODULE MatchServer ----------------------------
(***************************************************************************)
(* The authoritative match server of packages/networking: WebSocket        *)
(* connections, the match channels with their seats, the reconnect         *)
(* registry, the tick pipeline with its two sweeps, and the callbacks of   *)
(* the matchmaker bridge.                                                  *)
(*                                                                         *)
(* Node runs every handler to completion, so one handler is one action.    *)
(* Interleaving comes from the order in which frames, transport losses,    *)
(* host calls and the tick timer fire, and from the time between them.     *)
(*                                                                         *)
(* Abstractions.                                                           *)
(*  - A seat is a (match, PlayerId) pair; MatchOf gives the match and Rank *)
(*    the UTF-16 order of the PlayerIds.  SeatOf gives the seat a session  *)
(*    token was minted for: tokens are random and never minted twice, so   *)
(*    the playerId and matchId which connections and bindings store beside *)
(*    a token are SeatOf of that token.                                    *)
(*  - A connection that closed leaves `connections' for good; its model    *)
(*    identity becomes "absent" and may stand for a later connection.      *)
(*  - Timestamps are ages: `binding' since registeredAtMs, `idle' since    *)
(*    lastSeenAtMs, capped at the threshold the code compares them with.   *)
(*  - The engine session is external: a tick may eliminate any players.    *)
(***************************************************************************)
EXTENDS Integers, FiniteSets

CONSTANTS
    Matches,      \* match ids
    Seats,        \* (match, PlayerId) pairs
    MatchOf,      \* [Seats -> Matches]
    Rank,         \* [Seats -> Int], the order of PlayerIds within a match
    Tokens,       \* session tokens
    SeatOf,       \* [Tokens -> Seats]
    Conns,        \* simultaneous connections
    Ips,          \* client addresses
    IpOf,         \* [Conns -> Ips \cup {NoIp}]
    GraceMs,      \* reconnectGraceMs, in steps of Elapse
    IdleMs,       \* wsIdleTimeoutMs, in steps of Elapse
    MaxGlobal,    \* maxGlobalConnections
    MaxPerIp,     \* maxPerIpConnections
    MaxMatches,   \* maxConcurrentMatches
    MaxPending,   \* bound of the model: orders queued between two ticks
    NoConn, NoToken, NoMatch, NoIp

ASSUME SeatAssumption ==
    /\ MatchOf \in [Seats -> Matches]
    /\ SeatOf \in [Tokens -> Seats]
    /\ Rank \in [Seats -> Int]
    /\ \A s1, s2 \in Seats :
          MatchOf[s1] = MatchOf[s2] /\ Rank[s1] = Rank[s2] => s1 = s2

ASSUME NullAssumption ==
    /\ NoConn \notin Conns
    /\ NoToken \notin Tokens
    /\ NoMatch \notin Matches

ASSUME TimeAssumption == GraceMs \in Nat \ {0} /\ IdleMs \in Nat \ {0}

ASSUME AdmissionAssumption ==
    /\ IsFiniteSet(Conns)
    /\ IpOf \in [Conns -> Ips \cup {NoIp}]
    /\ NoIp \notin Ips
    /\ MaxGlobal \in Nat /\ MaxPerIp \in Nat /\ MaxMatches \in Nat /\ MaxPending \in Nat

VARIABLES
    st,          \* Connection.st, "absent" when the connection is not tracked
    held,        \* Connection.sessionToken of a player connection
    watching,    \* the match of a spectator connection
    idle,        \* time since lastSeenAtMs, Heard if receivedSinceSweep is set
    ipCount,     \* perIpCounts
    chan,        \* "none" before registerMatch, "open", "gone" once removed
    specOk,      \* MatchChannel.spectatorsAllowed
    sealed,      \* MatchChannel.terminalSent
    pending,     \* MatchChannel.pendingOrders
    seatToken,   \* SeatBinding.sessionToken, NoToken when there is no seat
    seatConn,    \* SeatBinding.connection
    binding,     \* ReconnectRegistry.bindings: the age of a token's binding
    alive,       \* players the engine has not eliminated
    away,        \* seats the bridge last reported as disconnected
    ended,       \* whether onMatchTerminal was delivered
    down         \* Server.close() was called

connVars == <<st, held, watching, idle, ipCount>>
chanVars == <<chan, specOk, sealed, pending>>
seatVars == <<seatToken, seatConn, binding>>
hostVars == <<alive, away, ended, down>>
vars == <<connVars, chanVars, seatVars, hostVars>>

NoBinding == -1
\* A frame arrived since the last sweep: the next sweep sets lastSeenAtMs, so
\* the time since then does not matter.
Heard == -1
ConnStates == {"absent", "pending", "greeted", "joined", "rejoined", "terminal"}
SeatedStates == {"joined", "rejoined", "terminal"}
\* A submitted order: the seat it is for and the connection that sent it
\* (NoConn once that connection is gone).
Orders == [seat : Seats, by : Conns \cup {NoConn}]

TypeOK ==
    /\ st \in [Conns -> ConnStates]
    /\ held \in [Conns -> Tokens \cup {NoToken}]
    /\ watching \in [Conns -> Matches \cup {NoMatch}]
    /\ idle \in [Conns -> {Heard} \cup 0..IdleMs]
    /\ ipCount \in [Ips -> Int]
    /\ chan \in [Matches -> {"none", "open", "gone"}]
    /\ specOk \in [Matches -> BOOLEAN]
    /\ sealed \in [Matches -> BOOLEAN]
    /\ pending \in SUBSET Orders
    /\ seatToken \in [Seats -> Tokens \cup {NoToken}]
    /\ seatConn \in [Seats -> Conns \cup {NoConn}]
    /\ binding \in [Tokens -> {NoBinding} \cup 0..GraceMs]
    /\ alive \in SUBSET Seats
    /\ away \in SUBSET Seats
    /\ ended \in [Matches -> BOOLEAN]
    /\ down \in BOOLEAN

Init ==
    /\ st = [c \in Conns |-> "absent"]
    /\ held = [c \in Conns |-> NoToken]
    /\ watching = [c \in Conns |-> NoMatch]
    /\ idle = [c \in Conns |-> 0]
    /\ ipCount = [i \in Ips |-> 0]
    /\ chan = [m \in Matches |-> "none"]
    /\ specOk = [m \in Matches |-> FALSE]
    /\ sealed = [m \in Matches |-> FALSE]
    /\ pending = {}
    /\ seatToken = [s \in Seats |-> NoToken]
    /\ seatConn = [s \in Seats |-> NoConn]
    /\ binding = [t \in Tokens |-> NoBinding]
    /\ alive = Seats
    /\ away = {}
    /\ ended = [m \in Matches |-> FALSE]
    /\ down = FALSE

----------------------------------------------------------------------------
(* Views of the state that the handlers compute. *)

\* The server's `connections' map.
Open == {c \in Conns : st[c] # "absent"}

SeatsOf(m) == {s \in Seats : MatchOf[s] = m}

\* MatchChannel.connections(): the seats' live connections, then spectators.
ChannelConns(m) ==
    {c \in Conns : watching[c] = m \/ \E s \in SeatsOf(m) : seatConn[s] = c}

\* EngineSession.status() is set: at most one player of the match is alive.
Decided(living, m) ==
    \A s1, s2 \in living : MatchOf[s1] = m /\ MatchOf[s2] = m => s1 = s2

\* Faulty variants, each named for its fault, stand before the definition they
\* vary; the properties are tested against them.
ActiveForever(t) == binding[t] # NoBinding

Active(t) == binding[t] # NoBinding /\ binding[t] < GraceMs
LapsedEarly(t) == binding[t] # NoBinding
LapsedNever(t) == binding[t] > GraceMs
Lapsed(t) == binding[t] = GraceMs

\* The seat that a player connection reclaims when its transport dies: its
\* own, if the seat still points at it.
SeatHeldBy(c, s) == held[c] # NoToken /\ SeatOf[held[c]] = s /\ seatConn[s] = c

----------------------------------------------------------------------------
(* Leaving: what every close path does through handleDisconnect. *)

IpCountForgotten(leaving) == ipCount

\* perIpCounts after the connections in `leaving' are gone.
IpCountWithout(leaving) ==
    [i \in Ips |-> ipCount[i] - Cardinality({c \in leaving : IpOf[c] = i})]

\* The connections in `leaving' close: they leave the connections map, the
\* per-address counters, their seats and the spectator lists.  Orders they
\* submitted stay queued.
Leave(leaving) ==
    /\ st' = [c \in Conns |-> IF c \in leaving THEN "absent" ELSE st[c]]
    /\ held' = [c \in Conns |-> IF c \in leaving THEN NoToken ELSE held[c]]
    /\ watching' = [c \in Conns |-> IF c \in leaving THEN NoMatch ELSE watching[c]]
    /\ idle' = [c \in Conns |-> IF c \in leaving THEN 0 ELSE idle[c]]
    /\ ipCount' = IpCountWithout(leaving)

Orphaned(leaving) ==
    {IF o.by \in leaving THEN [o EXCEPT !.by = NoConn] ELSE o : o \in pending}

VacatedOnlyRemoved(leaving, removed) ==
    [s \in Seats |-> IF s \in removed THEN NoConn ELSE seatConn[s]]

\* The seats' connections once the seats in `removed' are gone as well.
Vacated(leaving, removed) ==
    [s \in Seats |->
       IF s \in removed \/ seatConn[s] \in leaving THEN NoConn ELSE seatConn[s]]

\* Connection.close(): st is "closed" before onClose runs, so the seat is
\* vacated without a reconnect binding and without onSeatDisconnected.
CloseConns(leaving) ==
    /\ Leave(leaving)
    /\ pending' = Orphaned(leaving)
    /\ seatConn' = Vacated(leaving, {})

----------------------------------------------------------------------------
(* Connections *)

\* checkAdmission, incrementIpCount and attachConnection: the upgrade is
\* accepted under the global and the per-address cap.
Accept(c) ==
    /\ ~down
    /\ st[c] = "absent"
    /\ Cardinality(Open) < MaxGlobal
    /\ IpOf[c] \in Ips => ipCount[IpOf[c]] < MaxPerIp
    /\ st' = [st EXCEPT ![c] = "pending"]
    /\ ipCount' = [i \in Ips |-> IF i = IpOf[c] THEN ipCount[i] + 1 ELSE ipCount[i]]
    /\ UNCHANGED <<held, watching, idle>>
    /\ UNCHANGED <<chanVars, seatVars, hostVars>>

\* handleInbound: every frame marks its connection as alive.
Received(c) == idle' = [idle EXCEPT ![c] = Heard]

\* A frame that changes nothing but the liveness mark: ping, a malformed or
\* rate-limited frame, a rejected order, a join that answers with an error.
Frame(c) ==
    /\ st[c] # "absent"
    /\ Received(c)
    /\ UNCHANGED <<st, held, watching, ipCount>>
    /\ UNCHANGED <<chanVars, seatVars, hostVars>>

Hello(c) ==
    /\ st[c] # "absent"
    /\ st' = [st EXCEPT ![c] = IF @ = "pending" THEN "greeted" ELSE @]
    /\ Received(c)
    /\ UNCHANGED <<held, watching, ipCount>>
    /\ UNCHANGED <<chanVars, seatVars, hostVars>>

\* An envelope or a hello of another protocol version closes the connection,
\* in whatever state it is.
PolicyViolation(c) ==
    /\ st[c] # "absent"
    /\ CloseConns({c})
    /\ UNCHANGED <<chan, specOk, sealed, seatToken, binding>>
    /\ UNCHANGED hostVars

\* handleTransportClose: a joined or rejoined player keeps a claim on its
\* seat through a binding of age 0; any other connection just goes.
TransportLoss(c) ==
    /\ st[c] # "absent"
    /\ LET claims == st[c] \in {"joined", "rejoined"}
           seat   == {s \in Seats : SeatHeldBy(c, s)}
       IN  /\ binding' = [t \in Tokens |->
                 IF claims /\ t = held[c] /\ SeatOf[t] \in seat THEN 0 ELSE binding[t]]
           /\ away' = IF claims THEN away \cup seat ELSE away
    /\ CloseConns({c})
    /\ UNCHANGED <<chan, specOk, sealed, seatToken>>
    /\ UNCHANGED <<alive, ended, down>>

----------------------------------------------------------------------------
(* joinMatch *)

JoinedStateNoTerminal(m, s) == s

\* The state a fresh member of m is left in: the terminal frame follows the
\* joinAck when the match is over.
JoinedState(m, s) == IF sealed[m] /\ Decided(alive, m) THEN "terminal" ELSE s

\* attachSeat(playerId, token, connection), markJoined / markReconnected and
\* the bridge callback.
TakeSeat(c, s, t, state) ==
    /\ seatToken' = [seatToken EXCEPT ![s] = t]
    /\ seatConn' = [seatConn EXCEPT ![s] = c]
    /\ st' = [st EXCEPT ![c] = JoinedState(MatchOf[s], state)]
    /\ held' = [held EXCEPT ![c] = t]
    /\ away' = away \ {s}

MayJoin(c, m) == st[c] = "greeted" /\ chan[m] = "open"

ClaimableDuringGrace(s) == seatToken[s] # NoToken /\ seatConn[s] = NoConn

\* A seat the tokenless branch may hand out.
Claimable(s) ==
    /\ seatToken[s] # NoToken
    /\ seatConn[s] = NoConn
    /\ ~Active(seatToken[s])

\* joinMatch without a token: the free seat of the lowest PlayerId.
JoinTokenless(c, m) ==
    /\ MayJoin(c, m)
    /\ \E s \in SeatsOf(m) :
          /\ Claimable(s)
          /\ \A r \in SeatsOf(m) : Claimable(r) => Rank[s] <= Rank[r]
          /\ TakeSeat(c, s, seatToken[s], "joined")
    /\ Received(c)
    /\ UNCHANGED <<watching, ipCount, binding>>
    /\ UNCHANGED <<chanVars, alive, ended, down>>

\* joinMatch with a token that the registry does not know: the seat that has
\* this token, if it is free.
JoinByToken(c, t) ==
    LET s == SeatOf[t] IN
    /\ MayJoin(c, MatchOf[s])
    /\ binding[t] = NoBinding
    /\ seatToken[s] = t
    /\ seatConn[s] = NoConn
    /\ TakeSeat(c, s, t, "joined")
    /\ Received(c)
    /\ UNCHANGED <<watching, ipCount, binding>>
    /\ UNCHANGED <<chanVars, alive, ended, down>>

\* joinMatch with a token whose grace window is still open: the binding is
\* consumed, then restoreReconnectedSeat restores the seat, unless the seat
\* is gone or somebody else's.
Reconnect(c, t) ==
    LET s == SeatOf[t] IN
    /\ MayJoin(c, MatchOf[s])
    /\ Active(t)
    /\ binding' = [binding EXCEPT ![t] = NoBinding]
    /\ IF seatToken[s] # NoToken /\ seatConn[s] = NoConn
       THEN TakeSeat(c, s, t, "rejoined")
       ELSE UNCHANGED <<seatToken, seatConn, st, held, away>>
    /\ Received(c)
    /\ UNCHANGED <<watching, ipCount>>
    /\ UNCHANGED <<chanVars, alive, ended, down>>

\* joinMatch for m with a token whose grace window has lapsed: token_expired,
\* and the binding is consumed, whichever match it belongs to.
ReconnectLate(c, m, t) ==
    /\ MayJoin(c, m)
    /\ Lapsed(t)
    /\ binding' = [binding EXCEPT ![t] = NoBinding]
    /\ Received(c)
    /\ UNCHANGED <<st, held, watching, ipCount, seatToken, seatConn>>
    /\ UNCHANGED <<chanVars, hostVars>>

\* joinMatch as a spectator.
JoinSpectator(c, m) ==
    /\ MayJoin(c, m)
    /\ specOk[m]
    /\ st' = [st EXCEPT ![c] = JoinedState(m, "joined")]
    /\ watching' = [watching EXCEPT ![c] = m]
    /\ Received(c)
    /\ UNCHANGED <<held, ipCount>>
    /\ UNCHANGED <<chanVars, seatVars, hostVars>>

\* handleOrder: only a joined or rejoined player, for its own PlayerId, in a
\* match that is registered; the order waits for the tick boundary.
SubmitOrder(c) ==
    /\ st[c] \in {"joined", "rejoined"}
    /\ held[c] # NoToken
    /\ chan[MatchOf[SeatOf[held[c]]]] = "open"
    /\ Cardinality(pending) < MaxPending
    /\ pending' = pending \cup {[seat |-> SeatOf[held[c]], by |-> c]}
    /\ Received(c)
    /\ UNCHANGED <<st, held, watching, ipCount, chan, specOk, sealed>>
    /\ UNCHANGED <<seatVars, hostVars>>

----------------------------------------------------------------------------
(* The tick pipeline *)

SilentMember(c) ==
    idle[c] = IdleMs /\ (held[c] # NoToken \/ watching[c] # NoMatch)

\* The idle sweep: nothing received since the last sweep, and not for IdleMs.
Silent(c) == idle[c] = IdleMs

CrashClosesAll(failing) == IF failing = {} THEN {} ELSE Open

\* The error path closes the connections of the channels that threw.
CrashCloses(failing) == UNION {ChannelConns(m) : m \in failing}

\* The channels a tick advances.
Running == {m \in Matches : chan[m] = "open" /\ ~sealed[m]}

\* What the two sweeps leave: `told' have had the terminal frame, `leaving' are
\* gone, `bound' tokens keep a claim on their seats, `expired' bindings are
\* dropped and the seats in `removed' with them.
Swept(told, leaving, bound, expired, removed) ==
    /\ st' = [c \in Conns |-> IF c \in leaving THEN "absent"
                         ELSE IF c \in told THEN "terminal" ELSE st[c]]
    /\ held' = [c \in Conns |-> IF c \in leaving THEN NoToken ELSE held[c]]
    /\ watching' = [c \in Conns |-> IF c \in leaving THEN NoMatch ELSE watching[c]]
    /\ idle' = [c \in Conns |-> IF c \in leaving \/ idle[c] = Heard THEN 0 ELSE idle[c]]
    /\ ipCount' = IpCountWithout(leaving)
    /\ pending' = {o \in Orphaned(leaving) : MatchOf[o.seat] \notin Running}
    /\ seatConn' = Vacated(leaving, removed)
    /\ seatToken' = [s \in Seats |-> IF s \in removed THEN NoToken ELSE seatToken[s]]
    /\ binding' = [t \in Tokens |-> IF t \in bound THEN 0
                              ELSE IF t \in expired THEN NoBinding ELSE binding[t]]
    /\ away' = (away \cup {SeatOf[t] : t \in bound}) \ {SeatOf[t] : t \in expired}

\* One run of the pipeline.  Every running channel drains its orders, advances
\* the engine, which eliminates the players `lost', and either reports a result
\* or, in `failing', throws; then silent connections are reaped; then lapsed
\* bindings expire.
TickStep(failing, lost) ==
    LET living  == alive \ lost
        over    == {m \in Running \ failing : Decided(living, m)}
        crashed == CrashCloses(failing)
        \* markTerminal on the channels that are over
        told    == UNION {ChannelConns(m) : m \in over}
        \* the idle sweep: a silent player keeps a claim on its seat
        silent  == {c \in Open \ crashed : Silent(c)}
        claims  == {c \in silent \ told : st[c] \in {"joined", "rejoined"}}
        bound   == {t \in Tokens : \E c \in claims : held[c] = t /\ SeatHeldBy(c, SeatOf[t])}
        \* the grace sweep, on the registry the idle sweep left
        expired == {t \in Tokens \ bound : Lapsed(t)}
        removed == {s \in Seats : chan[MatchOf[s]] = "open"
                                     /\ \E t \in expired : SeatOf[t] = s}
        leaving == crashed \cup silent
                     \cup {c \in Conns : \E s \in removed : seatConn[s] = c}
    IN
    /\ alive' = living
    /\ sealed' = [m \in Matches |-> sealed[m] \/ m \in over \cup failing]
    /\ ended' = [m \in Matches |-> ended[m] \/ m \in over]
    /\ Swept(told, leaving, bound, expired, removed)
    /\ UNCHANGED <<chan, specOk, down>>

\* One fire of the scheduler.
Tick ==
    /\ ~down
    /\ \E failing \in SUBSET Running :
       \E lost \in SUBSET {s \in alive : MatchOf[s] \in Running} :
          TickStep(failing, lost)

\* Time passes between two events.
Elapse ==
    /\ \/ \E c \in Open : idle[c] \in 0..(IdleMs - 1)
       \/ \E t \in Tokens : Active(t)
    /\ idle' = [c \in Conns |-> IF c \in Open /\ idle[c] \in 0..(IdleMs - 1) THEN idle[c] + 1 ELSE idle[c]]
    /\ binding' = [t \in Tokens |-> IF Active(t) THEN binding[t] + 1 ELSE binding[t]]
    /\ UNCHANGED <<st, held, watching, ipCount, seatToken, seatConn>>
    /\ UNCHANGED <<chanVars, hostVars>>

----------------------------------------------------------------------------
(* The host's calls.  Match ids are never reused. *)

RegisterMatch(m) ==
    /\ ~down
    /\ chan[m] = "none"
    /\ Cardinality({n \in Matches : chan[n] = "open"}) < MaxMatches
    /\ chan' = [chan EXCEPT ![m] = "open"]
    /\ UNCHANGED <<specOk, sealed, pending>>
    /\ UNCHANGED <<connVars, seatVars, hostVars>>

DisplacedNobody(s, t) == {}

\* attachSeat: the connections that lose seat s when it is bound to token t.
\* The same token again changes nothing, another one replaces the binding.
Displaced(s, t) == IF seatToken[s] = t THEN {} ELSE {seatConn[s]} \ {NoConn}

AttachPlayer(t) ==
    LET s == SeatOf[t] IN
    /\ chan[MatchOf[s]] = "open"
    /\ CloseConns(Displaced(s, t))
    /\ seatToken' = [seatToken EXCEPT ![s] = t]
    /\ UNCHANGED <<chan, specOk, sealed, binding>>
    /\ UNCHANGED hostVars

\* detachPlayer / detachSeat: the seat goes, with its connection.
DetachPlayer(s) ==
    /\ chan[MatchOf[s]] = "open"
    /\ seatToken[s] # NoToken
    /\ CloseConns({seatConn[s]} \ {NoConn})
    /\ seatToken' = [seatToken EXCEPT ![s] = NoToken]
    /\ UNCHANGED <<chan, specOk, sealed, binding>>
    /\ UNCHANGED hostVars

SetSpectators(m, allowed) ==
    /\ chan[m] = "open"
    /\ specOk' = [specOk EXCEPT ![m] = allowed]
    /\ UNCHANGED <<chan, sealed, pending>>
    /\ UNCHANGED <<connVars, seatVars, hostVars>>

\* The host submits a surrender straight to the engine session (forfeit).
ForfeitSurrender(s) ==
    /\ chan[MatchOf[s]] = "open"
    /\ s \in alive
    /\ alive' = alive \ {s}
    /\ UNCHANGED <<away, ended, down>>
    /\ UNCHANGED <<connVars, chanVars, seatVars>>

\* The channels in `ms' are dropped with their seats and queued orders.
DropChannels(ms, leaving) ==
    /\ Leave(leaving)
    /\ chan' = [m \in Matches |-> IF m \in ms THEN "gone" ELSE chan[m]]
    /\ pending' = {o \in Orphaned(leaving) : MatchOf[o.seat] \notin ms}
    /\ seatConn' = Vacated(leaving, {s \in Seats : MatchOf[s] \in ms})
    /\ seatToken' = [s \in Seats |-> IF MatchOf[s] \in ms THEN NoToken ELSE seatToken[s]]
    /\ UNCHANGED <<specOk, sealed, binding, alive, away, ended>>

\* unregisterMatch closes the channel's connections and drops the channel;
\* the reconnect registry is left as it is.
UnregisterMatch(m) ==
    /\ chan[m] = "open"
    /\ DropChannels({m}, ChannelConns(m))
    /\ UNCHANGED down

\* Server.close(): the clock stops, every connection closes, all channels go.
CloseServer ==
    /\ ~down
    /\ DropChannels({m \in Matches : chan[m] = "open"}, Open)
    /\ down' = TRUE

----------------------------------------------------------------------------

ClientNext ==
    \E c \in Conns :
       \/ Accept(c) \/ Frame(c) \/ Hello(c)
       \/ PolicyViolation(c) \/ TransportLoss(c) \/ SubmitOrder(c)
       \/ \E m \in Matches : JoinTokenless(c, m) \/ JoinSpectator(c, m)
       \/ \E t \in Tokens : JoinByToken(c, t) \/ Reconnect(c, t)
       \/ \E m \in Matches, t \in Tokens : ReconnectLate(c, m, t)

HostNext ==
    \/ \E m \in Matches :
          \/ RegisterMatch(m) \/ UnregisterMatch(m)
          \/ \E allowed \in BOOLEAN : SetSpectators(m, allowed)
    \/ \E t \in Tokens : AttachPlayer(t)
    \/ \E s \in Seats : DetachPlayer(s) \/ ForfeitSurrender(s)
    \/ CloseServer

Next == ClientNext \/ HostNext \/ Tick \/ Elapse

Spec == Init /\ [][Next]_vars

\* The tick timer keeps firing and time keeps passing.
FairSpec == Spec /\ WF_vars(Tick) /\ WF_vars(Elapse)

----------------------------------------------------------------------------
(* Properties *)

\* A seat and the connection that plays it agree in both directions: the
\* seat's connection is open, a player, and holds the seat's current token;
\* and an open player connection is the connection of its seat.  So no two
\* connections ever play one seat, however joins, reconnects, displacement,
\* idle reaping and grace expiry interleave (match-channel.ts attachSeat,
\* server.ts handleJoinMatch, handleDisconnect).
SeatConnCoherent ==
    /\ \A s \in Seats : seatConn[s] # NoConn =>
          /\ st[seatConn[s]] \in SeatedStates
          /\ held[seatConn[s]] = seatToken[s]
          /\ SeatOf[seatToken[s]] = s
          /\ chan[MatchOf[s]] = "open"
    /\ \A c \in Conns : held[c] # NoToken => seatConn[SeatOf[held[c]]] = c

\* While a reconnect window is open the seat is kept for its owner: nobody
\* sits on it (server.ts:1198, hasActiveBinding in the tokenless claim).
ActiveBindingVacant ==
    \A t \in Tokens :
       Active(t) /\ seatToken[SeatOf[t]] = t => seatConn[SeatOf[t]] = NoConn

\* Once the match result was reported to the host, every connection of the
\* channel has had the terminal frame, those that joined, rejoined or began
\* to watch afterwards included (server.ts:548-551, 1125, 1227, 1320).
TerminalDelivered ==
    \A m \in Matches : ended[m] => \A c \in ChannelConns(m) : st[c] = "terminal"

\* The per-address counters are exact and the caps hold, whatever close path
\* a connection took (server.ts checkAdmission, handleDisconnect).
AdmissionExact ==
    /\ Cardinality(Open) <= MaxGlobal
    /\ \A i \in Ips :
          /\ ipCount[i] = Cardinality({c \in Open : IpOf[c] = i})
          /\ ipCount[i] <= MaxPerIp

\* A grace window that is still open ends only by the owner being back on the
\* seat, as long as the host left the seat to that token (server.ts:1164-1169,
\* reconnect.ts consume and expireOld).
GraceHonoured ==
    [][\A t \in Tokens :
          Active(t) /\ binding'[t] = NoBinding /\ seatToken[SeatOf[t]] = t
             => \E c \in Conns : held'[c] = t /\ seatConn'[SeatOf[t]] = c]_vars

\* Queued orders come from the connection that plays the seat, or from one
\* that has gone since; and once the result is reported nothing is queued any
\* more, since every later member of the channel is terminal from the start
\* (orders.ts acceptOrder, server.ts:544-562).
OrdersInPlay ==
    \A o \in pending :
       /\ o.by # NoConn => seatConn[o.seat] = o.by
       /\ ~ended[MatchOf[o.seat]]

\* The error path is contained: when a channel's tick throws, a connection of
\* another channel that is neither silent nor on a lapsed seat stays open
\* (server.ts:470-474).
CrashContained ==
    [][\A m \in Matches :
          sealed'[m] /\ ~sealed[m] /\ ~ended'[m] =>
             \A c \in Open \ ChannelConns(m) :
                \/ Silent(c)
                \/ \E t \in Tokens : Lapsed(t) /\ seatConn[SeatOf[t]] = c
                \/ \E n \in Matches \ {m} :
                      sealed'[n] /\ ~sealed[n] /\ ~ended'[n] /\ c \in ChannelConns(n)
                \/ st'[c] # "absent"]_vars

\* Every reconnect binding is resolved: it goes, or the seat is played again
\* (the scheduler's grace sweep, server.ts:611).
BindingResolved ==
    \A t \in Tokens :
       binding[t] # NoBinding ~>
          binding[t] = NoBinding \/ seatConn[SeatOf[t]] # NoConn \/ down

\* No socket leaks: a connection that stays silent is reaped, whether or not
\* it ever joined a match (server.ts:586-604).
SilentReaped == \A c \in Conns : []<>(idle[c] = Heard \/ st[c] = "absent")

----------------------------------------------------------------------------
(* What the repository's documents say and the code does not do. *)

\* contracts/matchmaking-to-networking.ts:244-246: after onSeatDisconnected the
\* server "will independently fire `onSeatExpired`"; so a disconnected seat is
\* eventually reclaimed or reported as expired, unless the host removes it.
DisconnectReported ==
    \A s \in Seats :
       s \in away ~> s \notin away \/ seatToken[s] = NoToken \/ down

============================================================================
