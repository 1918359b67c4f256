----------------------------- MODULE Matchmaker -----------------------------
(***************************************************************************)
(* The matchmaker of packages/matchmaking: match records and their         *)
(* lifecycle filling -> running -> finished -> collected, seats and player *)
(* sessions, auto-start, forfeits, the rematch vote, the lazy sweeps and   *)
(* the capacity guard.                                                     *)
(*                                                                         *)
(* The matchmaker keeps no timers: every public method runs to completion  *)
(* and is one action; sweeps run inside the methods that call them.  The   *)
(* match server appears as `channel', the state of the channel it holds    *)
(* for a match, and through its two callbacks.                             *)
(*                                                                         *)
(* Abstractions.                                                           *)
(*  - A seat's session token is minted with the seat and dies with it, so  *)
(*    a caller who presents it is the holder of seat i of match m.         *)
(*    Requests that answer with an error and change nothing are left out.  *)
(*  - `age' is the time since lastActivityAtMs; the lifecycle stamps it    *)
(*    with finishedAtMs at the end of a match, so it is also the time      *)
(*    since then, which is what the rematch window is measured from.       *)
(*  - Records that were collected stay in the store and are never reused.  *)
(***************************************************************************)
EXTENDS Integers, FiniteSets

CONSTANTS
    Matches,        \* match ids
    Sessions,       \* player session ids
    PlayerCount,    \* settings.playerCount
    MaxMatches,     \* maxConcurrentMatches
    EmptyTtl,       \* emptyMatchTtlMs, in steps of Elapse
    RematchWindow,  \* rematchWindowMs
    ResultsTtl,     \* resultsTtlMs
    MaxAge,         \* bound of the model: ages are told apart up to here
    NoMatch, NoSession

ASSUME NullAssumption == NoMatch \notin Matches /\ NoSession \notin Sessions

ASSUME SizeAssumption ==
    /\ PlayerCount \in Nat /\ PlayerCount >= 2
    /\ MaxMatches \in Nat
    /\ IsFiniteSet(Matches) /\ IsFiniteSet(Sessions)

ASSUME TimeAssumption ==
    /\ EmptyTtl \in Nat /\ RematchWindow \in Nat /\ ResultsTtl \in Nat /\ MaxAge \in Nat
    /\ EmptyTtl <= MaxAge /\ ResultsTtl <= MaxAge /\ RematchWindow < MaxAge

VARIABLES
    status,     \* MatchRecord.status, "absent" before the record exists
    seat,       \* MatchRecord.seats: the session on a seat, NoSession if free
    forfeited,  \* seats <<m, i>> whose forfeitedAtMs is set
    seeded,     \* matches whose initialSeed is set
    age,        \* time since MatchRecord.lastActivityAtMs
    offer,      \* MatchRecord.rematch: made, acceptedBy, declinedBy
    store,      \* the sessions in the store
    bound,      \* PlayerSession.currentMatchId
    alive,      \* seats the match's engine has not eliminated
    channel,    \* the server's channel: "none", "live", or "sealed" (terminal)
    closed      \* close() was called

vars == <<status, seat, forfeited, seeded, age, offer, store, bound, alive, channel, closed>>

Indices == 0..(PlayerCount - 1)
NoOffer == [made |-> FALSE, accepted |-> {}, declined |-> {}]
Statuses == {"absent", "filling", "running", "finished", "collected"}

TypeOK ==
    /\ status \in [Matches -> Statuses]
    /\ seat \in [Matches -> [Indices -> Sessions \cup {NoSession}]]
    /\ forfeited \in SUBSET (Matches \X Indices)
    /\ seeded \in SUBSET Matches
    /\ age \in [Matches -> 0..MaxAge]
    /\ offer \in [Matches -> [made : BOOLEAN, accepted : SUBSET Sessions,
                              declined : SUBSET Sessions]]
    /\ store \in SUBSET Sessions
    /\ bound \in [Sessions -> Matches \cup {NoMatch}]
    /\ alive \in [Matches -> SUBSET Indices]
    /\ channel \in [Matches -> {"none", "live", "sealed"}]
    /\ closed \in BOOLEAN

Init ==
    /\ status = [m \in Matches |-> "absent"]
    /\ seat = [m \in Matches |-> [i \in Indices |-> NoSession]]
    /\ forfeited = {}
    /\ seeded = {}
    /\ age = [m \in Matches |-> 0]
    /\ offer = [m \in Matches |-> NoOffer]
    /\ store = {}
    /\ bound = [s \in Sessions |-> NoMatch]
    /\ alive = [m \in Matches |-> {}]
    /\ channel = [m \in Matches |-> "none"]
    /\ closed = FALSE

----------------------------------------------------------------------------
(* Views of the records *)

Live == {m \in Matches : status[m] \in {"filling", "running", "finished"}}
Taken(m) == {i \in Indices : seat[m][i] # NoSession}
Holders(m) == {seat[m][i] : i \in Taken(m)}
Free(m) == Indices \ Taken(m)

\* isWindowClosed of a stored or about-to-be-made offer: strictly past it.
WindowClosed(m) == age[m] > RematchWindow

\* What the public lobby lists: filling, with its first seat taken, and with
\* a free seat or a seed minted before the start.
Listed(m) ==
    /\ status[m] = "filling"
    /\ Free(m) # {} \/ m \in seeded
    /\ seat[m][0] # NoSession

----------------------------------------------------------------------------
(* Collection *)

\* Faulty variants, each named for its fault, stand before the definition they
\* vary; the properties are tested against them.
ReleasedNobody(ms, binding) == {}
ReleasedUnguarded(ms, binding) == {s \in store : \E m \in ms : s \in Holders(m)}

\* releaseMatchSessions: the seated sessions that `binding' still has bound to
\* the match are deleted; those rebound elsewhere are not.
Released(ms, binding) ==
    {s \in store : \E m \in ms : binding[s] = m /\ s \in Holders(m)}

ChannelKept(ms) == channel

StatusAfter(ms) == [m \in Matches |-> IF m \in ms THEN "collected" ELSE status[m]]
AgeAfter(ms) == [m \in Matches |-> IF m \in ms THEN 0 ELSE age[m]]
StoreAfter(ms) == store \ Released(ms, bound)
BoundAfter(ms) == [s \in Sessions |-> IF s \in Released(ms, bound) THEN NoMatch ELSE bound[s]]
ChannelAfter(ms) == [m \in Matches |-> IF m \in ms THEN "none" ELSE channel[m]]

\* collectMatch: unregisterMatch, the sessions, then the status.
Collect(ms) ==
    /\ status' = StatusAfter(ms)
    /\ age' = AgeAfter(ms)
    /\ store' = StoreAfter(ms)
    /\ bound' = BoundAfter(ms)
    /\ channel' = ChannelAfter(ms)

RematchLapsed(m) == status[m] = "finished" /\ offer[m].made /\ WindowClosed(m)

ResultsStaleAnyway(m) == status[m] = "finished" /\ age[m] >= ResultsTtl

ResultsStale(m) ==
    /\ status[m] = "finished" /\ age[m] >= ResultsTtl
    /\ offer[m].made => WindowClosed(m)

UnstartedStale(m) == status[m] = "filling" /\ age[m] >= EmptyTtl

\* What a lazy sweep collects now.
Due == {m \in Matches : RematchLapsed(m) \/ ResultsStale(m) \/ UnstartedStale(m)}

HasCapacityForOneMore == Cardinality(Live \ Due) <= MaxMatches

\* enforceCapacity, after its sweep: matches not collected, against the limit.
HasCapacity == Cardinality(Live \ Due) < MaxMatches

\* listPublicMatches and stats sweep, and so does a request that the capacity
\* guard then refuses.
Sweep ==
    /\ ~closed
    /\ Due # {}
    /\ Collect(Due)
    /\ UNCHANGED <<seat, forfeited, seeded, offer, alive, closed>>

----------------------------------------------------------------------------
(* Filling *)

\* createMatch: sweep, capacity, a new session on seat 0 of a new record.
CreateMatch(m, s) ==
    /\ ~closed
    /\ HasCapacity
    /\ status[m] = "absent"
    /\ s \notin store
    /\ status' = [StatusAfter(Due) EXCEPT ![m] = "filling"]
    /\ age' = AgeAfter(Due)
    /\ seat' = [seat EXCEPT ![m][0] = s]
    /\ store' = StoreAfter(Due) \cup {s}
    /\ bound' = [BoundAfter(Due) EXCEPT ![s] = m]
    /\ channel' = ChannelAfter(Due)
    /\ UNCHANGED <<forfeited, seeded, offer, alive, closed>>

\* addSeatToFillingMatch on the lowest free index.
TakeSeat(m, s) ==
    /\ \E i \in Free(m) :
          /\ \A k \in Free(m) : i <= k
          /\ seat' = [seat EXCEPT ![m][i] = s]
    /\ store' = store \cup {s}
    /\ bound' = [bound EXCEPT ![s] = m]

\* joinMatch that leaves a seat free.
JoinMatch(m, s) ==
    /\ ~closed
    /\ status[m] = "filling"
    /\ Cardinality(Free(m)) > 1
    /\ s \notin store
    /\ TakeSeat(m, s)
    /\ age' = [age EXCEPT ![m] = 0]
    /\ UNCHANGED <<status, forfeited, seeded, offer, alive, channel, closed>>

\* joinMatch that takes the last seat: autoStart seeds the match, registers
\* its channel and starts the engine.
JoinAndStart(m, s) ==
    /\ ~closed
    /\ status[m] = "filling"
    /\ Cardinality(Free(m)) = 1
    /\ s \notin store
    /\ TakeSeat(m, s)
    /\ status' = [status EXCEPT ![m] = "running"]
    /\ age' = [age EXCEPT ![m] = 0]
    /\ seeded' = seeded \cup {m}
    /\ alive' = [alive EXCEPT ![m] = Indices]
    /\ channel' = [channel EXCEPT ![m] = "live"]
    /\ UNCHANGED <<forfeited, offer, closed>>

\* autoStart throws (map generation, the server's own match cap): the seat and
\* the session are rolled back, the seed stays.
JoinStartFails(m) ==
    /\ ~closed
    /\ status[m] = "filling"
    /\ Cardinality(Free(m)) = 1
    /\ age' = [age EXCEPT ![m] = 0]
    /\ seeded' = seeded \cup {m}
    /\ UNCHANGED <<status, seat, forfeited, offer, store, bound, alive, channel, closed>>

\* leaveMatch before the start: the seat is freed and the session unbound; if
\* it was the last seat the session goes and the match is collected.
LeaveFilling(m, i) ==
    LET s == seat[m][i] IN
    /\ ~closed
    /\ status[m] = "filling"
    /\ i \in Taken(m)
    /\ seat' = [seat EXCEPT ![m][i] = NoSession]
    /\ bound' = [bound EXCEPT ![s] = NoMatch]
    /\ age' = [age EXCEPT ![m] = 0]
    /\ IF Taken(m) = {i}
       THEN /\ store' = store \ {s}
            /\ status' = [status EXCEPT ![m] = "collected"]
            /\ channel' = [channel EXCEPT ![m] = "none"]
       ELSE UNCHANGED <<store, status, channel>>
    /\ UNCHANGED <<forfeited, seeded, offer, alive, closed>>

----------------------------------------------------------------------------
(* Running *)

\* handleSeatExpired on a running match, reached from the server's grace sweep
\* (onSeatExpired) and from leaveMatch: the seat's player surrenders and is
\* marked; when nobody is left alive the match is torn down.
Forfeit(m, i) ==
    /\ ~closed
    /\ status[m] = "running"
    /\ i \in Taken(m)
    /\ <<m, i>> \notin forfeited
    /\ forfeited' = forfeited \cup {<<m, i>>}
    /\ alive' = [alive EXCEPT ![m] = @ \ {i}]
    /\ IF alive[m] \subseteq {i}
       THEN Collect({m})
       ELSE UNCHANGED <<status, age, store, bound, channel>>
    /\ UNCHANGED <<seat, seeded, offer, closed>>

\* A tick of the match's live channel: players may be eliminated; when at most
\* one is left the channel is sealed and onMatchTerminal finishes the match.
EngineTick(m) ==
    /\ ~closed
    /\ channel[m] = "live"
    /\ \E lost \in SUBSET alive[m] :
          LET left == alive[m] \ lost IN
          /\ alive' = [alive EXCEPT ![m] = left]
          /\ IF Cardinality(left) <= 1
             THEN /\ channel' = [channel EXCEPT ![m] = "sealed"]
                  /\ status' = [status EXCEPT ![m] =
                                   IF @ = "running" THEN "finished" ELSE @]
                  /\ age' = [age EXCEPT ![m] = IF status[m] = "running" THEN 0 ELSE @]
                  /\ offer' = [offer EXCEPT ![m] =
                                  IF status[m] = "running" THEN NoOffer ELSE @]
             ELSE UNCHANGED <<channel, status, age, offer>>
    /\ UNCHANGED <<seat, forfeited, seeded, store, bound, closed>>

\* A tick that throws: the server seals the channel and tells nobody.
TickError(m) ==
    /\ ~closed
    /\ channel[m] = "live"
    /\ channel' = [channel EXCEPT ![m] = "sealed"]
    /\ UNCHANGED <<status, seat, forfeited, seeded, age, offer, store, bound, alive, closed>>

----------------------------------------------------------------------------
(* Rematch *)

\* requestRematch: the first request opens the window, unless it is over.
RequestRematch(m, i) ==
    /\ ~closed
    /\ status[m] = "finished"
    /\ i \in Taken(m)
    /\ ~offer[m].made
    /\ ~WindowClosed(m)
    /\ offer' = [offer EXCEPT ![m] = [NoOffer EXCEPT !.made = TRUE]]
    /\ UNCHANGED <<status, seat, forfeited, seeded, age, store, bound, alive, channel, closed>>

\* The checks accept and decline share: a live offer and an original player,
\* not forfeited and with a session, who has not voted.
MayVote(m, i) ==
    /\ ~closed
    /\ status[m] = "finished"
    /\ offer[m].made
    /\ i \in Taken(m)
    /\ <<m, i>> \notin forfeited
    /\ seat[m][i] \in store
    /\ seat[m][i] \notin offer[m].accepted \cup offer[m].declined
    /\ ~WindowClosed(m)

EnoughAccepted(votes) == Cardinality(votes) >= PlayerCount - 1

\* castAcceptVote: every original player is in.
AllAccepted(votes) == Cardinality(votes) = PlayerCount

\* acceptRematch that does not complete the vote.
AcceptRematch(m, i) ==
    /\ MayVote(m, i)
    /\ HasCapacity
    /\ ~AllAccepted(offer[m].accepted \cup {seat[m][i]})
    /\ offer' = [offer EXCEPT ![m].accepted = @ \cup {seat[m][i]}]
    /\ Collect(Due)
    /\ UNCHANGED <<seat, forfeited, seeded, alive, closed>>

\* The last accept: a new record n with everyone on the same seat, seeded at
\* once and left filling; the sessions move to it; the original is collected.
CompleteRematch(m, i, n) ==
    LET rebound == [s \in Sessions |-> IF s \in Holders(m) THEN n ELSE bound[s]]
        gone    == Released(Due, bound) \cup Released({m}, rebound)
    IN
    /\ MayVote(m, i)
    /\ HasCapacity
    /\ AllAccepted(offer[m].accepted \cup {seat[m][i]})
    /\ status[n] = "absent"
    /\ offer' = [offer EXCEPT ![m].accepted = @ \cup {seat[m][i]}]
    /\ status' = [StatusAfter(Due \cup {m}) EXCEPT ![n] = "filling"]
    /\ seat' = [seat EXCEPT ![n] = seat[m]]
    /\ seeded' = seeded \cup {n}
    /\ age' = AgeAfter(Due \cup {m})
    /\ store' = store \ gone
    /\ bound' = [s \in Sessions |-> IF s \in gone THEN NoMatch ELSE rebound[s]]
    /\ channel' = ChannelAfter(Due \cup {m})
    /\ UNCHANGED <<forfeited, alive, closed>>

DeclineRematch(m, i) ==
    /\ MayVote(m, i)
    /\ offer' = [offer EXCEPT ![m].declined = @ \cup {seat[m][i]}]
    /\ Collect({m})
    /\ UNCHANGED <<seat, forfeited, seeded, alive, closed>>

----------------------------------------------------------------------------

ElapseUncapped ==
    /\ ~closed
    /\ age' = [m \in Matches |-> IF m \in Live THEN age[m] + 1 ELSE age[m]]
    /\ UNCHANGED <<status, seat, forfeited, seeded, offer, store, bound, alive, channel, closed>>

\* Time passes between two calls.
Elapse ==
    /\ ~closed
    /\ \E m \in Live : age[m] < MaxAge
    /\ age' = [m \in Matches |-> IF m \in Live /\ age[m] < MaxAge THEN age[m] + 1 ELSE age[m]]
    /\ UNCHANGED <<status, seat, forfeited, seeded, offer, store, bound, alive, channel, closed>>

\* close(): every record is unregistered and dropped, every session deleted.
Close ==
    /\ ~closed
    /\ closed' = TRUE
    /\ status' = [m \in Matches |-> "absent"]
    /\ seat' = [m \in Matches |-> [i \in Indices |-> NoSession]]
    /\ forfeited' = {}
    /\ seeded' = {}
    /\ age' = [m \in Matches |-> 0]
    /\ offer' = [m \in Matches |-> NoOffer]
    /\ store' = {}
    /\ bound' = [s \in Sessions |-> NoMatch]
    /\ alive' = [m \in Matches |-> {}]
    /\ channel' = [m \in Matches |-> "none"]

Next ==
    \/ \E m \in Matches :
          \/ \E s \in Sessions :
                CreateMatch(m, s) \/ JoinMatch(m, s) \/ JoinAndStart(m, s)
          \/ JoinStartFails(m) \/ EngineTick(m) \/ TickError(m)
          \/ \E i \in Indices :
                \/ LeaveFilling(m, i) \/ Forfeit(m, i) \/ RequestRematch(m, i)
                \/ AcceptRematch(m, i) \/ DeclineRematch(m, i)
                \/ \E n \in Matches : CompleteRematch(m, i, n)
    \/ Sweep \/ Elapse \/ Close

Spec == Init /\ [][Next]_vars

----------------------------------------------------------------------------
(* Properties *)

\* No session stays bound to a match that was collected: a bound session is in
\* the store, its match is live and it sits there (FR-025; matchLifecycle.ts
\* releaseMatchSessions, across every way a match is collected).
NoOrphanBinding ==
    \A s \in Sessions : bound[s] # NoMatch =>
       s \in store /\ bound[s] \in Live /\ s \in Holders(bound[s])

\* Every taken seat of a live match is backed by a stored session that is bound
\* to that match, and no session sits twice; so the rematch never misses an
\* original session (matchmaker.ts:1294-1304 throws if it does).
SeatsBacked ==
    \A m \in Live : \A i \in Taken(m) :
       /\ seat[m][i] \in store
       /\ bound[seat[m][i]] = m
       /\ \A j \in Taken(m) : seat[m][i] = seat[m][j] => i = j

\* The matches not yet collected never exceed maxConcurrentMatches: creation
\* and completed rematches count what their own sweep leaves (FR-022;
\* matchmaker.ts enforceCapacity).
CapacityBound == Cardinality(Live) <= MaxMatches

\* The server holds a channel for a match exactly while it is running or
\* finished, however it ended (FR-024), and a running match is full.
ChannelsReleased ==
    \A m \in Matches :
       /\ channel[m] # "none" <=> status[m] \in {"running", "finished"}
       /\ status[m] = "running" => Free(m) = {}

\* A live rematch offer is only ended by its vote: no sweep collects it, for
\* any relation of resultsTtlMs and rematchWindowMs (FR-020).
OfferNotSwept ==
    [][\A m \in Matches :
          status[m] = "finished" /\ offer[m].made /\ ~WindowClosed(m)
             /\ status'[m] = "collected"
             => offer'[m].declined # {} \/ offer'[m].accepted = Holders(m)]_vars

\* A match is born full only from a finished match all of whose players have
\* accepted and none of whom forfeited, and it seats the same players (FR-009).
RematchUnanimous ==
    [][\A n \in Matches :
          status[n] = "absent" /\ status'[n] = "filling" /\ Free(n)' = {}
             => \E m \in Matches :
                   /\ status[m] = "finished"
                   /\ offer'[m].accepted = Holders(m)
                   /\ \A i \in Indices : <<m, i>> \notin forfeited
                   /\ seat'[n] = seat[m]]_vars

\* The seats of the matches as callers know them: of a match that is over
\* nobody may rely on the seats.
SeatRecords ==
    [m \in Matches |->
        [status    |-> IF status[m] \in {"finished", "collected"} THEN "over" ELSE status[m],
         seat      |-> [i \in Indices |->
                           IF status[m] \in {"filling", "running"} THEN seat[m][i] ELSE NoSession],
         forfeited |-> {i \in Indices : status[m] = "running" /\ <<m, i>> \in forfeited}]]

Sizes == [m \in Matches |-> PlayerCount]

Promised ==
    INSTANCE MatchSeats WITH
        Players <- Sessions, Size <- Sizes, Nobody <- NoSession, match <- SeatRecords

\* Joins, leaves, forfeits, results, rematches and sweeps, several of them in one
\* call, do to the seats no more than callers are promised: nobody sits in two
\* matches, a match starts with its last seat, and no match comes back (FR-007, FR-009 to
\* FR-011; matchLifecycle.ts, forfeit.ts, matchmaker.ts).
SeatsAsPromised == Promised!Spec

----------------------------------------------------------------------------
(* What the repository's documents say and the code does not do. *)

\* FR-007 (specs/006-match-lifecycle-matchmaking/spec.md:123): "When all seats
\* fill, the server MUST atomically" generate the map, initialize the engine
\* "and begin ticking"; so no match waits full.
FullMatchStarts == \A m \in Matches : status[m] = "filling" => Free(m) # {}

\* contracts/match-types.ts:218: a 'public' match "appears in
\* `listPublicMatches()`"; so one that is open and has a free seat is listed
\* (lobby.ts:54 takes a record without its first seat for unreachable).
OpenMatchListed ==
    \A m \in Matches : status[m] = "filling" /\ Free(m) # {} => Listed(m)

=============================================================================
