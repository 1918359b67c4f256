---------------------------- MODULE LobbyService ----------------------------
(***************************************************************************)
(* The lobby service (matchmaking/src/internal/lobbyService.ts): who is on *)
(* which connection, who is committed to which match, the rows the lobby   *)
(* shows and what each subscriber was last told.                           *)
(*                                                                         *)
(* The service runs on one thread and is called by the server's frame      *)
(* dispatch, by the matchmaker's lifecycle fan-out and, from inside        *)
(* matchmaker calls it made itself, by its own status listener; every such *)
(* call is one action here.  The matchmaker is reduced to what the lobby   *)
(* can tell apart: matches are created and joined through the lobby only,  *)
(* a seat is known by the guest on it, and a finished match is "over".     *)
(***************************************************************************)
EXTENDS IdentityRegistry

CONSTANTS
    Connections,
    Matches,
    Capacity,       \* settings.playerCount of a match
    Free, NoRow

ASSUME LobbyAssumption ==
    /\ Capacity \in [Matches -> 2 .. 4]
    /\ NoRow \notin [filled : 1 .. 4, status : {"waiting", "in_progress"}]
    /\ Free \notin [match : Matches, role : {"player", "spectator"}]

VARIABLES
    registry,
    connections,    \* the guest bound to a connection
    subscriptions,  \* connections that receive snapshots
    presence,       \* the match a guest is committed to, Free if none
    ledger,         \* the rows by match, [filled, status]; publishedEntries between calls
    told,           \* the rows a connection was last sent
    match           \* the matchmaker's records: [status, seat, forfeited, seeded, overdue]

vars == <<registry, connections, subscriptions, presence, ledger, told, match>>

Seats(m) == 0 .. (Capacity[m] - 1)

\* A match with these seats and nobody forfeited, and nobody waiting too long.
Record(status, seat) ==
    [status |-> status, seat |-> seat, forfeited |-> {}, overdue |-> FALSE]

NoMatch(m) == Record("absent", [i \in Seats(m) |-> NoGuest])

Init ==
    /\ registry = Empty
    /\ connections = [c \in Connections |-> NoGuest]
    /\ subscriptions = {}
    /\ presence = [g \in Guests |-> Free]
    /\ ledger = [m \in Matches |-> NoRow]
    /\ told = [c \in Connections |-> ledger]
    /\ match = [m \in Matches |-> NoMatch(m)]

----------------------------------------------------------------------------
(* The matchmaker, as the lobby sees it *)

Taken(r) == {i \in DOMAIN r.seat : r.seat[i] # NoGuest}

Open(r) == DOMAIN r.seat \ Taken(r)

\* toLobbyEntry: filling, open and with its first seat taken.
Listed(r) == r.status = "filling" /\ Open(r) # {} /\ r.seat[0] # NoGuest

InPlay(r) == {i \in Taken(r) : i \notin r.forfeited}

\* createMatch: the creator sits on the first seat.
Opened(r, g) == Record("filling", [r.seat EXCEPT ![0] = g])

Over(r) == Record("over", [i \in DOMAIN r.seat |-> NoGuest])

Due(ms) == {m \in Matches : ms[m].status = "filling" /\ ms[m].overdue}

SweptMatches(ms) ==
    LET due == Due(ms) IN [m \in Matches |-> IF m \in due THEN Over(ms[m]) ELSE ms[m]]

LowestOpen(r) == CHOOSE i \in Open(r) : \A j \in Open(r) : i <= j

\* joinMatch on the lowest open seat; the last one starts the match (autoStart).
SeatedWith(r, g) ==
    LET seat == [r.seat EXCEPT ![LowestOpen(r)] = g]
    IN  Record(IF Open(r) = {LowestOpen(r)} THEN "running" ELSE "filling", seat)

\* leaveMatch while filling: the last seat takes the match with it.
Vacated(r, i) ==
    IF Taken(r) = {i} THEN Over(r) ELSE Record("filling", [r.seat EXCEPT ![i] = NoGuest])

Marked(r, i) ==
    [status |-> "running", seat |-> r.seat, forfeited |-> r.forfeited \cup {i}, overdue |-> r.overdue]

\* A forfeit of a running match, which is torn down when nobody in it is alive:
\* when nobody else is in play, or when two forfeit between two ticks and the
\* engine has eliminated the others.
Forfeited(r, i) ==
    (IF InPlay(r) = {i} THEN {} ELSE {Marked(r, i)})
        \cup (IF InPlay(r) = {i} \/ r.forfeited # {} THEN {Over(r)} ELSE {})

\* leaveMatch of seat i, in either state.
Left(r, i) ==
    IF r.status = "filling" THEN {Vacated(r, i)}
    ELSE IF i \in r.forfeited THEN {r} ELSE Forfeited(r, i)

----------------------------------------------------------------------------
(* Publication *)

\* clearPresenceForMatch, for the matches that are over.
Uncommitted(pres, ms) ==
    [g \in Guests |-> IF pres[g] # Free /\ ms[pres[g].match].status = "over" THEN Free ELSE pres[g]]

\* Rows that only follow the listing.
KeptRows(rows, ms) ==
    [m \in Matches |->
        IF rows[m] # NoRow /\ Listed(ms[m])
        THEN [filled |-> Cardinality(Taken(ms[m])), status |-> "waiting"] ELSE rows[m]]

\* onStatusChanged drops the rows of what is over, reconcileFromMatchmaker takes
\* over what the listing says; what is not listed keeps its row.
Rows(rows, ms) ==
    [m \in Matches |->
        IF rows[m] = NoRow \/ ms[m].status = "over" THEN NoRow
        ELSE IF Listed(ms[m]) THEN [filled |-> Cardinality(Taken(ms[m])), status |-> "waiting"]
        ELSE rows[m]]

\* A comparison of the listed matches only.
ToldOfMatches(subs, rows) ==
    [c \in Connections |->
        IF c \in subs /\ \E m \in Matches : (rows[m] = NoRow) # (ledger[m] = NoRow)
        THEN rows ELSE told[c]]

\* broadcastSnapshots, if entriesEqual finds a difference.
Told(subs, rows) ==
    [c \in Connections |-> IF c \in subs /\ rows # ledger THEN rows ELSE told[c]]

\* reconcileFromMatchmaker, after a call that left the matches ms, the commitments
\* pres and the rows: the listing sweeps the matchmaker, whose status events come
\* back to the lobby before it is read.
Reconcile(ms, pres, rows) ==
    /\ match' = SweptMatches(ms)
    /\ presence' = Uncommitted(pres, match')
    /\ ledger' = Rows(rows, match')

\* recomputeAndPublish, to the subscribers subs.
Publish(ms, pres, rows, subs) == Reconcile(ms, pres, rows) /\ told' = Told(subs, ledger')

Unpublished == UNCHANGED <<match, ledger, told>>

----------------------------------------------------------------------------
(* Connections *)

\* A binding that leaves the guest on his old connection as well.
BoundTwice(c, g) == [connections EXCEPT ![c] = g]

\* bindConnection: a guest is on one connection, the latest.
Bound(c, g) ==
    [d \in Connections |-> IF d = c THEN g ELSE IF connections[d] = g THEN NoGuest ELSE connections[d]]

\* releaseConnection, for what it does to the guest: a spectator gives up his
\* commitment, and the identity waits out its grace.
PresenceReleased(g) ==
    [presence EXCEPT ![g] = IF @ # Free /\ @.role = "spectator" THEN Free ELSE @]

\* establishIdentity: a guest comes back with his current secret, or a new one is
\* minted (no claim, or one that is not honoured).  Coming back to the connection
\* that already is his changes nothing but what the client is sent.
Establish(c, g) ==
    LET swept == Swept(registry)
        before == connections[c]
        leaves == before \notin {NoGuest, g}
        established == IF Known(swept, g) THEN Reactivated(swept, g) ELSE WithNew(swept, g)
    IN
    /\ Known(swept, g) \/ swept.record[g].status = "unminted"
    /\ ~(g = before /\ registry.record[g].status = "active")
    /\ registry' = IF leaves THEN Disconnected(established, before) ELSE established
    /\ connections' = Bound(c, g)
    /\ subscriptions' = {d \in subscriptions : IF d = c THEN ~leaves ELSE connections[d] # g}
    /\ presence' = IF leaves THEN PresenceReleased(before) ELSE presence
    /\ Unpublished

ConnectionClosed(c) ==
    LET g == connections[c] IN
    /\ g # NoGuest
    /\ connections' = [connections EXCEPT ![c] = NoGuest]
    /\ subscriptions' = subscriptions \ {c}
    /\ presence' = PresenceReleased(g)
    /\ registry' = Disconnected(registry, g)
    /\ Unpublished

\* setHandle sweeps first: it throws when the guest himself is swept (a guest
\* in grace on an open connection), and keeps the name when another has it.
SetHandle(c, h) ==
    LET g == connections[c]
        swept == Swept(registry)
    IN
    /\ g # NoGuest
    /\ registry' = IF Known(swept, g) /\ ~TakenFor(swept, g, h) THEN Renamed(swept, g, h) ELSE swept
    /\ UNCHANGED <<connections, subscriptions, presence>>
    /\ Unpublished

\* subscribe: the reply carries the snapshot, whether or not one was broadcast.
Subscribe(c) ==
    /\ connections[c] # NoGuest
    /\ subscriptions' = subscriptions \cup {c}
    /\ Reconcile(match, presence, ledger)
    /\ told' = [Told(subscriptions, ledger') EXCEPT ![c] = ledger']
    /\ UNCHANGED <<registry, connections>>

----------------------------------------------------------------------------
(* Matches *)

\* A guard that only asks for a name.
MayPlayAgain(g) == g # NoGuest /\ Named(registry, g)

\* guardNamed and guardFree
MayPlay(g) == g # NoGuest /\ Named(registry, g) /\ presence[g] = Free

Commit(g, m, role) == [presence EXCEPT ![g] = [match |-> m, role |-> role]]

Create(c, m) ==
    LET g == connections[c] IN
    /\ MayPlay(g)
    /\ match[m].status = "absent"
    /\ Publish([match EXCEPT ![m] = Opened(match[m], g)],
               Commit(g, m, "player"),
               [ledger EXCEPT ![m] = [filled |-> 1, status |-> "waiting"]],
               subscriptions)
    /\ UNCHANGED <<registry, connections, subscriptions>>

\* The row after a join, which the listing does not correct once a match runs.
JoinedRow(m, i) ==
    LET row == ledger[m]
        filled == IF row.filled > i + 1 THEN row.filled ELSE i + 1
    IN  [filled |-> filled, status |-> IF filled >= Capacity[m] THEN "in_progress" ELSE row.status]

Join(c, m) ==
    LET g == connections[c] IN
    /\ MayPlay(g)
    /\ ledger[m] # NoRow
    /\ ledger[m].status = "waiting"
    /\ Open(match[m]) # {}
    /\ Publish([match EXCEPT ![m] = SeatedWith(match[m], g)],
               Commit(g, m, "player"),
               [ledger EXCEPT ![m] = JoinedRow(m, LowestOpen(match[m]))],
               subscriptions)
    /\ UNCHANGED <<registry, connections, subscriptions>>

\* The match cannot be started: the seat is rolled back and the join refused.
JoinFails(c, m) ==
    /\ MayPlay(connections[c])
    /\ ledger[m] # NoRow
    /\ ledger[m].status = "waiting"
    /\ Cardinality(Open(match[m])) = 1
    /\ match' = [match EXCEPT ![m] = Record("filling", match[m].seat)]
    /\ UNCHANGED <<registry, connections, subscriptions, presence, ledger, told>>

\* spectate needs no handle, and publishes nothing.
Spectate(c, m) ==
    LET g == connections[c] IN
    /\ g # NoGuest /\ presence[g] = Free
    /\ ledger[m] # NoRow
    /\ ledger[m].status = "in_progress"
    /\ presence' = Commit(g, m, "spectator")
    /\ UNCHANGED <<registry, connections, subscriptions>>
    /\ Unpublished

\* leave of a player: the seat goes with the commitment, the match may go too.
LeaveAsPlayer(c) ==
    LET g == connections[c]
        m == presence[g].match
        i == CHOOSE i \in DOMAIN match[m].seat : match[m].seat[i] = g
    IN
    /\ g # NoGuest /\ presence[g] # Free /\ presence[g].role = "player"
    /\ \E left \in Left(match[m], i) :
          Publish([match EXCEPT ![m] = left], [presence EXCEPT ![g] = Free], ledger, subscriptions)
    /\ UNCHANGED <<registry, connections, subscriptions>>

LeaveAsSpectator(c) ==
    LET g == connections[c] IN
    /\ g # NoGuest /\ presence[g] # Free /\ presence[g].role = "spectator"
    /\ presence' = [presence EXCEPT ![g] = Free]
    /\ UNCHANGED <<registry, connections, subscriptions>>
    /\ Unpublished

----------------------------------------------------------------------------
(* The matchmaker's lifecycle fan-out *)

\* onMatchTerminal, and the status "finished" with it.
MatchTerminal(m) ==
    /\ match[m].status = "running"
    /\ Publish([match EXCEPT ![m] = Over(match[m])], presence, ledger, subscriptions)
    /\ UNCHANGED <<registry, connections, subscriptions>>

\* onSeatExpired: the seat is forfeited first, which may end the match; then the
\* guest, if he is still committed and connected, is taken off his connection.
SeatExpired(m, i) ==
    /\ match[m].status = "running" /\ i \in InPlay(match[m])
    /\ \E left \in Forfeited(match[m], i) :
          LET g == match[m].seat[i]
              after == [match EXCEPT ![m] = left]
              there == Uncommitted(presence, after)
              cut == {c \in Connections : connections[c] = g /\ there[g] # Free
                                          /\ there[g] = [match |-> m, role |-> "player"]}
          IN
          /\ connections' = [c \in Connections |-> IF c \in cut THEN NoGuest ELSE connections[c]]
          /\ subscriptions' = subscriptions \ cut
          /\ Publish(after, IF cut = {} THEN there ELSE [there EXCEPT ![g] = Free], ledger, subscriptions')
    /\ UNCHANGED registry

\* onSeatDisconnected with the connection still open (a spectator detaches on
\* it): the identity waits out a grace although it is connected.
SeatDisconnected(c) ==
    /\ connections[c] # NoGuest
    /\ registry' = Disconnected(registry, connections[c])
    /\ Publish(match, presence, ledger, subscriptions)
    /\ UNCHANGED <<connections, subscriptions>>

\* onSeatReconnected on a connection of the lobby: the identity is active again,
\* or the connection has none if it was swept.
SeatReconnected(c) ==
    LET g == connections[c] IN
    /\ g # NoGuest
    /\ \/ /\ IsInGrace(registry, g)
          /\ registry' = Reactivated(registry, g)
          /\ UNCHANGED <<connections, subscriptions>>
       \/ /\ ~Known(registry, g)
          /\ connections' = [connections EXCEPT ![c] = NoGuest]
          /\ subscriptions' = subscriptions \ {c}
          /\ UNCHANGED registry
    /\ Publish(match, presence, ledger, subscriptions')

----------------------------------------------------------------------------

\* Time passes: graces run out, and matches nobody joins become due.
Elapse ==
    /\ registry' = Lapsed(registry)
    /\ match' = [m \in Matches |->
                    [status |-> match[m].status, seat |-> match[m].seat,
                     forfeited |-> match[m].forfeited, overdue |-> match[m].status = "filling"]]
    /\ UNCHANGED <<connections, subscriptions, presence, ledger, told>>

Next ==
    \/ \E c \in Connections :
          \/ \E g \in Guests : Establish(c, g)
          \/ \E h \in Handles : SetHandle(c, h)
          \/ ConnectionClosed(c) \/ Subscribe(c)
          \/ LeaveAsPlayer(c) \/ LeaveAsSpectator(c)
          \/ SeatDisconnected(c) \/ SeatReconnected(c)
          \/ \E m \in Matches : Create(c, m) \/ Join(c, m) \/ JoinFails(c, m) \/ Spectate(c, m)
    \/ \E m \in Matches : MatchTerminal(m) \/ \E i \in DOMAIN match[m].seat : SeatExpired(m, i)
    \/ Elapse

Spec == Init /\ [][Next]_vars

----------------------------------------------------------------------------
(* Properties *)

Committed(g, m, role) == presence[g] = [match |-> m, role |-> role]

Live(m) == match[m].status \in {"filling", "running"}

\* A guest is on one connection at a time, and only bound connections are
\* subscribed (bindConnection, releaseConnection, onSeatExpired).
TypeOK ==
    /\ RegistryTyped(registry)
    /\ connections \in [Connections -> Guests \cup {NoGuest}]
    /\ subscriptions \subseteq {c \in Connections : connections[c] # NoGuest}
    /\ presence \in [Guests -> [match : Matches, role : {"player", "spectator"}] \cup {Free}]
    /\ ledger \in [Matches -> [filled : 1 .. 4, status : {"waiting", "in_progress"}] \cup {NoRow}]
    /\ \A c, d \in Connections : connections[c] = connections[d] /\ c # d => connections[c] = NoGuest

\* No two guests go by the same name, whatever is renamed, swept, taken over on
\* another connection or disconnected (FR-006).
HandlesExclusive == Exclusive(registry)

\* Who plays is committed to that match and to no other, and the match he is
\* committed to is live: nobody takes a second seat while he may still win with
\* the first, and nobody is shut out by a match that is over.
OneMatchEach ==
    \A g \in Guests, m \in Matches :
        /\ Live(m) /\ (\E i \in InPlay(match[m]) : match[m].seat[i] = g) => Committed(g, m, "player")
        /\ presence[g] # Free /\ presence[g].match = m => Live(m)

\* The rows shown are the live matches, each open to who it says it is: waiting
\* while it fills, in progress while it runs, and with its seats counted unless
\* the listing hides it because its first seat is free.
RowsTruthful ==
    \A m \in Matches :
        /\ ledger[m] # NoRow <=> Live(m)
        /\ Live(m) => /\ ledger[m].status = "in_progress" <=> match[m].status = "running"
                      /\ match[m].seat[0] # NoGuest =>
                            ledger[m].filled = Cardinality(Taken(match[m]))

\* Every subscriber was last sent the rows that are current (FR-009).
SubscribersCurrent == \A c \in subscriptions : told[c] = ledger

SeatRecords ==
    [m \in Matches |->
        [status |-> match[m].status, seat |-> match[m].seat, forfeited |-> match[m].forfeited]]

Promised ==
    INSTANCE MatchSeats WITH
        Players <- Guests, Size <- Capacity, Nobody <- NoGuest, match <- SeatRecords

\* What the lobby takes the matchmaker to do, in whatever order its calls, the results
\* and the sweeps inside its own calls come, is no more than what the matchmaker
\* promises its callers (leaveMatch, handleSeatExpired, joinMatch, the sweeps).
SeatsAsPromised == Promised!Spec

=============================================================================
