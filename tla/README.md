# A formal model of Europa Neo

Europa Neo is a browser strategy game with an authoritative server, written as a
TypeScript monorepo (`src/packages/*`). This directory holds TLA+ modules that model
its server, its lobby, the rules of the game, the boards it is played on and the browser's connections, TLC
configurations that check them on small instances, and proofs that hold for every
instance. Paths below are relative to `src/packages/` unless they
start with `src/`.

## 1. Inventory

| part | state it keeps | operations | who it talks to |
|---|---|---|---|
| **match server** `networking/src/server.ts`, `match-channel.ts`, `spectator.ts`, `orders.ts` | open connections, per-address counters, one channel per match (seats, spectators, queued orders, terminal flag) | upgrade admission, hello, joinMatch (token, tokenless, reconnect, spectator), order, tick pipeline, register / unregister / attach / detach, close | the clock calls it; it calls the engine session and the matchmaker bridge (`onSeatClaimed`, `onSeatDisconnected`, `onSeatExpired`, `onMatchTerminal`) |
| **connection** `networking/src/connection.ts` | state, token, heartbeat marks, sequence counters, token bucket | frames in and out, sweep, close, idle close | owned by the server, calls back on close |
| **reconnect registry** `networking/src/reconnect.ts` | token -> binding with its time | register, lookup, consume, hasActiveBinding, expireOld | called by the server |
| **clock, resync buffer** `networking/src/clock.ts`, `resync.ts` | an interval; a ring of recent views | start/stop; push, getSince, clear | server |
| **broadcast** `networking/src/broadcast.ts` | the last view sent per connection | build, compare, send, or skip | server; the console's reducer receives |
| **wire validation** `networking/src/validate.ts`, `frame.ts` | none | parse, check | server, console |
| **matchmaker** `matchmaking/src/matchmaker.ts`, `matchLifecycle.ts`, `forfeit.ts`, `rematch.ts`, `store.ts`, `lobby.ts` | match records, seats, sessions, rematch offers | create, join with auto-start, leave, list, stats, rematch request / accept / decline, close; server callbacks | calls `registerMatch`, `attachPlayer`, `unregisterMatch`; runs its sweeps inside its own methods |
| **identity registry** `matchmaking/src/internal/identityRegistry.ts`, `handleValidation.ts` | identities with their grace, handle reservations | restore or mint, rename, disconnect, sweep | lobby service |
| **lobby service** `matchmaking/src/internal/lobbyService.ts` | who is on which connection, subscriptions, commitments to matches, rows, roster | establish, setHandle, subscribe, create, join, spectate, leave; callbacks of the matchmaker; snapshots to subscribers | called by the server's frame dispatch; calls the matchmaker, which calls it back in the middle of the call |
| **engine** `engine/src` | world: troops, owners, cities, pipes, reserves; staged orders | applyCommand, tick phases, terminal check, serialise, replay | engine session wrapper `matchmaking/src/engineSession.ts` |
| **fog** `fog/src` | none | visible sets, masks, event filter | server, through `broadcast.ts` |
| **terrain** `terrain/src` | none | board generation with bounded retries, city placement | matchmaker at auto-start |
| **core** `core/src` | none (PRNG state is passed on) | player ids, flow rates, RNG | everything |
| **console connections** `console/src/net` | a lobby connection (phase, timers, pending actions) and a leg per match (boot, acks, heartbeat) | connect, establish, redial with back-off, correlated commands, join, order, close | the two WebSocket protocols |
| **console state** `console/src/state`, `console/src/internal/lobby-runtime.tsx` | view mode, session, latest view, action phases | reducers, lobby controller, mounting and disposing of legs | the connections below, the views above |
| **console input** `console/src/input`, `qol/hotkeys.ts`, `state/local-preflight.ts` | last pointer sample, selection, exclusive mode | keys, clicks and buttons to orders, local check | reads the latest view; its orders pass the gate of the server and are judged by the engine |
| **self-hosted process** `console/scripts/host.ts` | the composed services | start, shutdown | everything |
| **console presentation**, **design**, **logging**, **version**, `src/europa-source` | - | rendering, plumbing, archive | - |

Node runs each handler to completion, so there are no data races in the server. The
hard behaviour lies in the *order* of frames, transport losses, host calls and timer
fires: a seat is at the same time a record in the channel, the identity of a
connection and a promise in the reconnect registry, and three different paths (a join,
the idle sweep and the grace sweep) change it. In the matchmaker it lies in sweeps
that run lazily inside other calls, in sessions that move between matches when a
rematch completes, and in callbacks that end a match while calls about it are under
way. The lobby is called back by the matchmaker inside calls it made itself. In the
engine it lies in the order of the phases of a tick, which read the board as it was at
different moments, and in the fog, which must say of a moved board what each player may
know. In the browser every wait has to end although any answer may be lost.
`PROJECT.json` lists the hazards at their lines.

What makes each part correct:

* server: one connection per seat and back; a reserved seat is not given away; a
  result reaches everybody; nothing of a finished match stays queued; counters are
  exact; one failing match harms no other; nothing silent stays.
* matchmaker: seats, sessions and bindings agree; capacity; channels are released
  on every way a match ends; a rematch needs everybody; a live offer is not swept.
* stream of a seat: the resync buffer retains the newest entries; skipped ticks and
  replayed ones leave no client behind; the view shown never goes back.
* identity: names and reservations agree, so a handle belongs to one guest.
* lobby: a guest is on one connection and in one match; the rows tell the truth about
  the live matches; every subscriber has the current rows.
* engine: the board stays within its capacities; troops do not appear from nothing;
  who stands in a city holds it; the records of the players agree with the board; the
  order in which two players are heard does not matter; a match replays from its
  fixture and comes back from its binary image.
* terrain: a board is the same for every player after a turn by half a circle, and every
  player starts in the band of his own slot with as many cities as the others.
* fog: sight is mutual, and a player is told only what happened where he sees.
* console: nothing waits for what cannot come, every attempt ends, and a final state of
  the lobby connection stays final whatever arrives late; what its input sends, the
  engine takes, and what it holds back, the engine would refuse.

## 2. Plan

Done, in the order of importance of the behaviour:

1. `MatchServer` with `MCMatchServer` and `MatchServerProofs`.
2. `Matchmaker` with `MCMatchmaker` and `MatchmakerProofs`, and the abstract `MatchSeats`
   it refines.
3. `SeatStream` with `MCSeatStream`, the abstract `NewestEntries` its record refines,
   and `SeatStreamProofs`.
4. `Engine`, on which `Replay` and `Fog` build, with `MCEngine` and `EngineProofs`.
5. `IdentityRegistry`, used by `LobbyService`, with `MCLobby` and `LobbyProofs`; the
   matchmaker the lobby sees refines `MatchSeats` too.
6. `LobbyClient` and `MatchClient`, composed by `Console`, with `MCConsole` and
   `ConsoleProofs`.
7. `Terrain`, which builds on `Engine` and whose boards `MCEngine` plays, with
   `MatchProofs`, which is also about `Replay`.
8. `OrderInput`, which builds on `Engine` and `Fog` and is checked in the matches of
   `MCEngine`.
9. `FoldProofs`, and with it the proofs about whole ticks in `EngineProofs`.

Next, in this order:

10. `MatchHost`: matchmaker and server composed through the bridge (forfeit callbacks,
   unregistration inside a tick), with the matchmaker's `channel` variable as the
   abstraction of the server's.
11. The roster of the lobby, the token buckets of the lobby and of orders, and the
   startup and shutdown of the self-hosted process.

## 3. Modules

### `MatchServer`

One action per handler. `Accept` is the upgrade with `checkAdmission`; `Hello`,
`Frame`, `PolicyViolation` and `TransportLoss` are the paths of `connection.ts`;
`JoinTokenless`, `JoinByToken`, `Reconnect`, `ReconnectLate` and `JoinSpectator` are the
branches of `handleJoinMatch`; `SubmitOrder` is `acceptOrder`; `Tick` is one run of
`runTickPipeline`, with the channel loop, the idle sweep and the grace sweep in the
code's order; the rest are the host's calls. Every close path goes through `Leave`, as
in the code every path goes through `handleDisconnect`.

| variable | code |
|---|---|
| `st`, `held`, `watching`, `idle` | `Connection.st`, `sessionToken`, the spectator's match, time since `lastSeenAtMs` (`Heard` while `receivedSinceSweep`) |
| `ipCount` | `perIpCounts` |
| `chan`, `specOk`, `sealed`, `pending` | the channel map, `spectatorsAllowed`, `terminalSent`, `pendingOrders` |
| `seatToken`, `seatConn` | `SeatBinding.sessionToken`, `SeatBinding.connection` |
| `binding` | `ReconnectRegistry.bindings`, as the age of the token's binding |
| `alive`, `ended`, `away` | players left in the engine session, `onMatchTerminal` delivered, seats the bridge last heard are disconnected |
| `down` | `close()` was called |

Abstractions. Time is an age capped at the threshold the code compares it with, and
advances in steps of `Elapse` between handlers. The engine is external: each tick may
eliminate any players, and any subset of channels may throw. Tokens are never minted
twice, so a token determines its seat. Views, payloads, rate limits and sequence
numbers are not modelled, so an invalid or limited frame is the liveness mark alone
(`Frame`). `MaxPending` bounds the queue, and match ids are not reused.

### `Matchmaker`

One action per public method and outcome: `CreateMatch`, `JoinMatch`, `JoinAndStart`,
`JoinStartFails`, `LeaveFilling`, `Forfeit`, the rematch calls, `Sweep` (list and stats),
`Close`; `EngineTick` and `TickError` are what the server does to a match. A call that
sweeps (creation, acceptance) collects `Due` within the same action. `status`, `seat`,
`forfeited`, `seeded`, `offer` are fields of the record; `store` and `bound` are the
sessions and their `currentMatchId`; `channel` is the server's channel of the match.
`age` counts from `lastActivityAtMs`, which the end of a match stamps together with
`finishedAtMs`, so one age serves the three thresholds. Handles, names, visibility and
tokens are left out; `Listed` is the lobby projection of a public match. A rollback of
auto-start puts seat and session back, so `JoinStartFails` changes the age and the seed
only. Collected records are never reused, which the number of match ids bounds.

### `MatchSeats`

What the matchmaker promises about seats, as its callers know them: one variable `match`
with the status (`absent`, `filling`, `running`, `over`), the seats and the forfeited seats
of every match. A call brings one match to one of its `Outcomes` and may end `Waiting`
matches besides, since any call may sweep. A match is joined on its lowest open seat and
runs from its last; who plays in a match enters no other; what is over stays over; a match
of players who meet again is born full. When a running match ends is left open.

Two modules refine it, each with a property `SeatsAsPromised` and a record function
`SeatRecords`. In `Matchmaker` a finished or collected match is over, a player is a
session, and all matches have `PlayerCount` seats. In `LobbyService` a player is a guest,
and the sizes differ. So what the lobby's model assumes of the matchmaker and what the
matchmaker's model does are bounded by the same specification; that the first allows
everything the second does is not claimed.

### `SeatStream`, `NewestEntries`

What one seat is sent, from the tick pipeline to the board the console shows. `Tick` is
the part of `runTickPipeline` about the seat: broadcast with the skip-send cache, record,
and clearing on a result; `Crash` is its catch block. `Join`, `Reconnect`, `Lose`,
`Expire`, `Detach` and `Attach` are what gives the seat a connection, takes it away, or
takes the seat away; who may do so and when is the business of `MatchServer`, so here a
seat without a connection may be joined or restored at any time. `Receive` is the
console's reducer.

| variable | code |
|---|---|
| `entries`, `firstTick`, `lastTick` | `ResyncBuffer.entries` and its cursors |
| `tick`, `over`, `seated` | `tickCounter`, `terminalSent`, the seat being in `seats` |
| `now` | what `computePlayerView` returns for the seat |
| `joined`, `lastSent` | the seat's connection, and `lastSentView` of it |
| `wire`, `shown` | frames in flight, `latestView` |

A view is what `viewsEqual` looks at: the cells, as one value, and the events, of which
it compares the numbers (`Size`). The world's tick in a view and the channel's counter
advance together and are one number here. Frames of a lost connection may still arrive
until the next connection replaces the wire. `getSince` sorts, so `GetSince` is the set
of ascending enumerations of the stored ticks, which has one element. `NewestEntries` is
what the record promises, without cursors; `RetainsNewest` is the refinement. `MaxTick`
bounds the ticks of a match.

### `Engine`

The rules of the game as operators over a world, composed in the order of the code.
`ValidateCommand` and `ApplyCommand` are what happens when a command arrives (a surrender
counts at once, the rest is staged); `TickResult` is one `tick`: `SortedOrders` and
`OrderEffect` for the staged orders, `Production`, `Paratroop` and `Gun` in `Fired`, then
`Flow`, and `Combat`, `Capture`, `Decay` and `Standing` in `Resolved`. `Submit` and `Advance` are the two methods of the engine
session.

| variable | code |
|---|---|
| `world` | `World`: `scenario` is board and configuration, `tick`, `players`, and `state` with the arrays of `WorldState` as functions of the cells |
| `pending` | the orders staged in the world's private slot |
| `events` | the `TickEvents` of the last tick |
| `log` | what a capture records: every command with its tick |

A cell is a coordinate; sets of directions stand for pipe masks; player ids are numbers
in the order of their UTF-16 text, and an owner is the rank of an id (`Dense`). All
amounts are constants, so that small numbers can stand for the real ones; the flow rate
by slope and the rounding of reserves are arithmetic as in the code. `PipesOf` and
`Transfers` enumerate the pipes as the code does, row by row and clockwise, since a
transfer sees what earlier ones left. `MaxTick`, `MaxStaged` and `MaxOrders` bound a match.

### `Replay`, `Fog`

`Serialize` and `Deserialize` are the binary image of a world, with the identity table
in canonical order and the slots as indices into it, fields cut to their width, masks
and status bytes. `RecordSpec` adds to a match the replay of its own log: a match that is
`Recorded` is played again by `ReplayTick`, as `replayMatch` does from a fixture. `Encodable`
is what `encodePayload` accepts; more cities, troops or cells than their fields can hold
make it throw. Header, checksum, scalar settings and display names are left out, and so is the minimal size of
a board.

`Fog` is `computePlayerView`: `VisibleSet`, the filter of the events, and what a spectator
or a stranger gets. It has no state.

### `Terrain`

`GenerateBoard` is `generateBoard`: clamp the settings, even out the cities of three
players, and try one board after another until `ValidateBoard` accepts one. `BuildBoard`
is one attempt: mirror, smooth, flood the lowest pairs, place cities in the bands of the
first slots, and add the others by the turn. There is no state; an accepted board becomes
a scenario of `Engine` (`GeneratedMatches`), slot `k` going to the `k`-th player id as in
`autoStart`.

The noise is an input: a request brings a map of heights for each attempt, so that seeds
and substreams are left out, and the order of the generator's draws with them. A ratio of
water is a percentage. `placeCitiesInBand` sorts stably and draws no number that decides
anything, so a placement is a function of band and water; its walk (`Candidates`) is by the
distance to the middle of the band and then by row and column. The two distance fields,
which are breadth-first searches from all water, are distances here. The mirroring is in
place: the cell that is walked first overwrites its partner, so `FirstOf` names the one
whose height both keep. Checks of the shape of a request, statistics and the hash of a
board are left out.

### `OrderInput`

From a gesture to a verdict, without state: a console is what its input reads (player,
cells of the last view, selection, exclusive mode, pointer). `TranslateKey`, `PressKey`,
`Click` and `PressButton` draft an action, `Reduced` checks it against the view
(`Preflight`) and makes it an order, `PassesGate` is the server's gate, and the verdict is
`ValidateCommand` of `Engine`. The view is `ViewOf` of `Fog`, so what the console can know
and what the engine knows differ as they do in a match.

A pointer is a position in tenths of a cell, which the thresholds of `axisOffset` and
the middle of a cell are multiples of, and it is fresh or stale. Zoom and pan, bindings
other than the default ones, settings, feedback, focus and confirmation dialogs are left
out; the middle button pans before the input sees it.

### `IdentityRegistry`, `LobbyService`

The registry is a value and its operations are operators on it, because the lobby runs
several of them in one call: `Swept`, `WithNew`, `Reactivated`, `Disconnected`, `Renamed`.
`LobbyService` has one action per call of the facade (`Establish`, `ConnectionClosed`,
`SetHandle`, `Subscribe`, `Create`, `Join`, `JoinFails`, `Spectate`, `LeaveAsPlayer`,
`LeaveAsSpectator`) and per callback (`MatchTerminal`, `SeatExpired`, `SeatDisconnected`,
`SeatReconnected`).

| variable | code |
|---|---|
| `registry` | the records and `handleOwners` of the identity registry |
| `connections`, `subscriptions`, `presence` | the maps of the same names |
| `ledger` | the ledger; between calls also `publishedEntries` |
| `told` | what each connection was last sent; not in the code |
| `match` | the matchmaker's records, reduced to what the lobby can tell apart |

Abstractions. A call into the matchmaker returns to the lobby through its status
listener; the nested publications of one call are one here, since nothing else runs
between them (`Reconcile` does what they do together). Whether a claim carries the
current secret is part of the choice of `Establish`: with it the guest comes back, in
every other case an identity is minted. Matches come from the lobby only; a rematch
never enters the ledger. Whether a forfeit ends the match depends on who is alive in the
engine, which the lobby does not know: it ends when nobody else is in play, and may end
when somebody has forfeited before (`Forfeited`). The roster, private matches and
`close()` are left out.

### `LobbyClient`, `MatchClient`, `Console`

`LobbyClient` is one browser's lobby connection: an establish cycle of hello, claim and
subscription under one timer, bounded redials with back-off, and commands that wait for
the echo of their id. `MatchClient` is a leg: the socket client, the console client
around it, and as much of the reducer and of the boot as the connection decides.
`Console` composes them: a command that was accepted changes the view, the view and the
lobby's snapshot mount a leg, and leaving disposes of it.

| variable | code |
|---|---|
| `client` | the closure variables of `createWsLobbyClient` |
| `pending`, `asked` | `pendingActions`; requests on the socket that the peer has not answered |
| `stragglers` | sockets that were dropped and whose close event is to come |
| `leg`, `due` | the clients of the leg and the requests on its socket |
| `viewMode`, `role`, `started`, `notice` | what decides whether a leg is on the page |

The peer answers, refuses, drops, stays silent or closes, at any point. A promise and
the continuation that runs in the same task are one step. Claims, handles, revisions,
the roster, routes and deep links, `resumeMatch` and everything drawn are left out. So is
a `newSocket(url)` that throws at once (`net/ws-lobby-client.ts:929`): the URL is the same
for every attempt, so it is a wrong configuration and no step of a protocol. A command
that cannot be sent is rejected on the spot and is no step, except that `ReturnToLobby`
takes the notice away all the same. Action
ids are reused when nothing waits for them any more; `Actions` and `Orders` bound what
is in flight at once.

### `MCMatchServer`, `MCMatchmaker`, `MCSeatStream`, `MCEngine`, `MCLobby`, `MCConsole`

Instances, symmetry sets and views for TLC.

* `ConnSymmetry`, `IdSymmetry`, `CellSymmetry`: no action names a connection, match, session
  or content of the board; the
  addresses of `server_seats` are the same for all connections. `server_play` has mixed
  addresses and uses no symmetry, and the liveness runs use none either.
* `LobbySymmetry`: no action of the lobby names a guest or a connection. `LobbyView` drops
  what a connection was told before it unsubscribed; a subscription always comes with a
  snapshot of its own. `MCEngine` and `MCConsole` use neither.
* `ReadView` leaves out `away` (no action reads it), who exactly is alive in a decided
  match, the flags of removed channels, and everything once the server is down, when
  no action but the harmless passing of time is left. `UncollectedView` leaves out what
  nobody reads of collected records. No property of a run with a view depends on what
  the view drops.

## 4. Runs

| run | instance | what it shows |
|---|---|---|
| `server_seats` | 1 match, 2 seats, 2 connections, 3 tokens (two for one seat) | `SeatConnCoherent`: a seat and its connection agree in both directions. `ActiveBindingVacant`: nobody sits on a reserved seat. `TerminalDelivered`: after the result every member of the channel has had it, latecomers included. `GraceHonoured`: an open window ends only by its owner's return. |
| `server_play` | 3 connections (2 on one address, 1 without), caps 2 and 1, 2 tokens for one seat, 1 queued order | `AdmissionExact`: counters and caps on every close path. `OrdersInPlay`: a queued order belongs to the seat's connection or to one that left, and to an undecided match. |
| `server_two_matches` | 2 matches, 4 seats, 1 connection | `CrashContained`: a throwing tick closes only its own channel's connections. |
| `server_liveness` | 1 match, 2 connections, 1 token, fairness | `BindingResolved` and `SilentReaped`. |
| `matchmaker_lifecycle` | 3 matches, 4 sessions, 3 seats each, capacity 2 | `NoOrphanBinding`, `SeatsBacked`, `CapacityBound`, `ChannelsReleased`, `OfferNotSwept`, `RematchUnanimous`. `SeatsAsPromised`: the matchmaker refines `MatchSeats`. |
| `seat_stream` | 5 ticks, record of depth 2, 2 boards, ticks with and without events | `RetainsNewest`: the ring buffer keeps the newest entries. `ClientCurrent`: with nothing in flight a connected client shows the current cells. `StreamOrdered`: ticks in flight ascend. `ViewNeverGoesBack`. |
| `engine_play` | 2 scenarios on 16 cells, 3 ticks, 3 commands out of 8 or 7; 15 generated boards for 2, 3 and 4 players, no commands | `TypeOK`: capacities, owners, water. `NoTroopsFromNothing`. `CityHeldByOccupant`. `FairStart`: on a generated board until somebody orders something, all players have as many cities, in the band of their slot, and board and troops look the same after the turn. `ArrivalOrderIrrelevant`: swapping two staged orders of different players changes nothing. `ReplayMatches`: the replay gives the world back, and so does its binary image if `encodePayload` accepts the world. `NoUnseenWatcher`, `EventsWithinSight`. `SentOrdersStand`, `BlockedOrdersFall`: for every player, selection, aim, key, click and button, console and engine judge an order alike, but for the cases they name. |
| `lobby` | 3 guests, 3 handles of which 2 share a key, 2 connections, a match of 2 seats and one of 3 | `HandlesExclusive`, `OneMatchEach`, `RowsTruthful`, `SubscribersCurrent`. |
| `console` | 2 action ids, 4 kinds of commands, 2 redials, 1 order in flight, fairness | `AlwaysWoken`: behind every wait is a timer or a live socket. `AttemptsEnd`: every attempt of the lobby connection and every boot of a leg ends, and the end is final. |
| `doc_disconnect_reported`, `doc_full_starts`, `doc_open_listed` | small instances | three statements of the documents that the code does not keep, section 7. |

Why the bounds are enough. A seat race needs a connection that loses the seat and one
that takes it: two connections. Displacement needs a second token for one seat, and the
choice among free seats needs a second seat. A cap is interesting one connection above
it: three against a global cap of two, two on one address against a cap of one. Ages of
one step tell "inside the window", "at the threshold" and "fresh" apart, which is all
the code compares. For the matchmaker, three seats separate "the last seat" from "a
seat" and a majority from everybody; four sessions allow an outsider next to a full
match; three match ids allow an original, its rematch and a neighbour under a capacity
of two; `MaxAge` exceeds the rematch window by one, because the window closes strictly
after it.

The cursor of the ring buffer goes wrong at the earliest two evictions after a gap, which
a depth of two reaches in five ticks; two boards are enough to tell a current view from
an old one, since every property compares two views at a time.

For the engine the amounts are scaled down so that every threshold is near: a cell
holds five, a city makes two a tick up to four, a drop costs two for each side, a shot
one. The slope scenario has a
downhill, an uphill and a water neighbour and slots against the order of the ids; the
ring has three players around one cell, so that a fight of three, a tie and an
outsider's order occur. Three ticks let troops be produced, arrive, and fight over a
city on the third.

The generator gets boards of four by four cells, the smallest on which four quadrants, three
layers and two halves have room for a city away from water; the limits of the settings are
scaled down with it (`MCSafe`, water of 10 to 25 percent, pools of two). Its noise is every
choice of two low cells in the half that is walked first, and cliffs for the smoothing.
The four requests ask for too much water and get it clamped, for an odd number of cells to
flood, for no attempt and get one, and for one city per player of three and get two; where
two attempts are allowed the first meets a plain, which the validator rejects. It accepts
15 of the boards (4, 7 and 4 for two, three and four players).

The input is tried in every state that follows a tick, when the views are fresh, so its
gestures are an invariant and not actions. Selections are the cells one arrow key away
from a city or from the middle; `MCPointers` has a point for each of the quarters, for
offsets of one and two to every side, and one off the board. `ParatroopRange` is two, the
reach of the pointer (`SUBCELL_RANGE`), as in the code. A ring order drops out of range.

The lobby needs a second connection for a take-over, a third guest for a full match
with an outsider, two handles of one key, and two matches for a second commitment. The
console needs two action ids for two commands in flight, and two redials to tell "the
last one" from "another one"; `createMatch` behaves as `joinMatch` and is left out.

`CHECK_DEADLOCK FALSE` is set because the systems really stop: after `close()` nothing
happens any more, match ids run out, and a match or its record ends.

Fairness (`FairSpec` of `MatchServer`): weak fairness of `Tick`, which the interval timer
of `clock.ts` gives as long as the server is open, and of `Elapse`, that is, time
passes. No fairness is assumed of clients or of the host. `Tick` makes progress whatever
the engine does, since a throwing channel is contained inside it.

Fairness of `Console`: weak fairness of the establish timers of both clients and of the
back-off timer, which the browser fires; of the close event of a socket that is closing;
and of the answer to a join on an open socket, because every branch of
`handleJoinMatch` in `networking/src/server.ts` sends an ack, a snapshot or an error. The
last one is needed: a join has no timer of its own. Nothing else is assumed of the
server; it need not accept a socket or answer a hello, a claim or a subscription.

## 5. Proofs

`MatchServerProofs` proves, for any set of matches, seats, tokens and connections, any
timeouts and any caps (finiteness of the connections is the only finiteness assumed):

* `TypeCorrect` - types.
* `Inductive` - `IInv`: types, `SeatsBound`, `SeatConnCoherent`, `ActiveBindingVacant`.
  `SeatsBound` is the strengthening: a seat's token was minted for that seat, and only
  open channels have seats. Without it a tokenless join, which gives the connection the
  token stored on the seat, could not be shown to bind a connection to its own seat.
  `SeatsCoherent` and `WindowKeepsSeat` follow.
* `PlayInductive` - `PlayInv` adds `EndedSealed` (a reported result is sealed and stays
  decided), from which `ResultReachesAll` and `OrdersStayInPlay` follow.
* `WindowHonoured` - the action property `GraceHonoured`, from `IInv`: the grace sweep
  takes lapsed bindings only, a late reconnect too, and a reconnect in time finds the
  seat vacant by `ActiveBindingVacant` and so takes it.
* `CapsHold` - `AdmissionExact`, with `WatchersJoined` to know that what a channel closes
  are open connections, so that the cardinalities subtract exactly.

* `CrashIsContained` - the action property `CrashContained`, from `PlayInv`: a connection
  belongs to one channel at most, so what a crash closes is not in another.

The layout is the same throughout: a lemma for the close paths, one per group of
actions, the step lemma, and the temporal step. The assumptions are those `MatchServer`
states of its constants: tokens and seats belong to their matches, the order of
PlayerIds is strict within a match, null values are not members, timeouts are positive,
connections are finite. TLC evaluates all of them on every run.

`MatchmakerProofs` proves all the properties of `matchmaker_lifecycle`, for any number of
matches, sessions, seats per match (two at least) and any capacity and time limits:

* `SessionsBound` and `SeatsStayBacked`, from `SeatInv`: types, `NoOrphanBinding`,
  `SeatsBacked` and `AbsentEmpty` (a record that does not exist has no players; without it
  a new record could have seats its creation does not fill). The two properties need
  each other: a collection deletes the sessions that are *bound* to the match, which are
  the ones on its *seats* only as long as both hold. One lemma shows what a collection
  leaves (`CollectedSeats`), and one each what a new seat, a leave and a completed rematch
  do to it.
* `ChannelsStayReleased` - inductive as it stands, given types.
* `CapacityHolds` - inductive as it stands, by the arithmetic of `CapacityArithmetic`: a
  step keeps a subset of the live matches, or adds one to what its sweep left under the
  guard.
* `OffersNotSwept` and `RematchesUnanimous`, action properties from `VoteInv`, which adds
  `VotesOfPlayers`: a finished match is full, and those who accepted are players of it who
  did not forfeit. `AllIn` counts: as many votes as seats, of players only, are all the
  players, because the seats map onto the players.

* `SeatsKeptAsPromised` - the refinement of `MatchSeats`, from `PromiseInv`, which adds
  `ForfeitsOut`: only a started match has forfeited seats, and while it runs nobody on them is
  alive. Without it a forfeit could mark the last seat in play, or a match start with a seat
  given up. Each action owes one of two lemmas: `OnlyExpiries` (callers know what they knew,
  but for waiting matches that expired) or `OneOutcome` (and one match came to an outcome).
  That a rematch moves its players from nowhere else is `SeatsBacked`, and that it seats them
  all is `VotesOfPlayers`.

Its assumptions: null values are not members, at least two players, finite sets of
matches and sessions, limits within the bound of the ages.

`SeatStreamProofs` proves all the properties of `seat_stream`, for any depth, number of
ticks, views and logs:

* `RingImplementsNewest` - the refinement of `NewestEntries`. `RingOK` is the
  strengthening: the cursor is at the oldest entry whenever there is one, and there are no
  more than `Depth`. `NewestWithRoom` and `NewestWhenFull` count the entries newer than a
  given one; `PushKeepsNewest` shows that the walk over a gap ends at the oldest entry
  left.
* `TicksAscend` and `ViewAdvances`, from `OrderInv`, which adds `OrderOK`: nothing in flight
  or shown is of the future, ticks in flight ascend, and a full view is at the head of the
  wire and not older than the view shown.
* `ClientCatchesUp`, from `CurrentInv`. A connected client is `Settled` (shows the current
  cells, and the rest in flight is dropped or as fresh) or a frame in flight is `Arriving`
  (current, not dropped because of what precedes it, not undone by what follows). The
  replay of old ticks after a snapshot is the hard step: they are older than the
  snapshot, except an entry of the same tick, which the invariant keeps current.

Its assumptions: a positive depth, a log for views without events, and null values that
are not members.

`FoldProofs` holds what proofs about folds need and the library of the prover lacks. The
induction theorems of that library take a predicate, which the provers cannot instantiate;
here a *set* stands for the predicate, and induction is an argument about the least number
outside it (`NatInductionInSet`, `FoldGrows`, `SubsetInduction`). From that follow what a
`FoldLeft` keeps when each of its steps keeps it (`FoldKept`, `FoldTyped`), what
`FlattenSeq` contains, that the ranks of a strict total order number a finite set
(`RanksNumber`, `RanksNumberSet`), which is what the sorting and selecting operators of
`Engine` are, and the sums over a board (`TotalTakes`, `TotalChanges`, `TotalBelow`).

`EngineProofs` proves of the engine, the fog and the console's input, for any board,
scenario, amounts and commands:

* `CitiesHeldByOccupants` and `AliveHoldsAfterTick` (the records of the players agree with
  the board, and nobody is alive with nothing; no run checks it), from `ShapeKept` (the world is the
  record `createWorld` builds, with one record per player). What the phases before the
  capture do is left open: whatever they yield, the capture comes after them, decay only
  takes owners away, and the records are counted last.
* `NobodyWatchedUnseen`: cells in range are so in both directions, also at the edge of
  the board, and the stack that is seen is itself one that sees.
* `AttritionKeeps` and `TransferKeeps`, which bound a fight of two and one transfer of the
  flow, with the rounding of the reserves.
* `WorldTyped` - `TypeOK`, from the inductive invariant `Sound`: the shape of the world, a
  scenario of the menu, a tick within its bound, a board in `BoardStates`, known statuses,
  and a queue of orders that the menu offers. `BoardStates` is the strengthening: beyond
  the types it says that troops have an owner and that water is bare. Every phase of a
  tick maps it into itself, and for the flow there is an invariant of its own between two
  transfers, in which a cell that is both source and target may already have been filled,
  emptied and handed over.
* `TroopsOnlyFromCities` - the action property `NoTroopsFromNothing`: the troops of a
  player are a sum over the board; production adds the rate for each of his cities,
  an order or a transfer moves or burns what is there, and without a fight the combat phase
  settles every cell with what reached it.
* `ToldWithinSight` - `EventsWithinSight`: what the filter keeps lies in what the view shows.
  `Sound` is not needed, only that the events of a tick are sequences (`Reported`).
* `ArrivalOrderKept` - `ArrivalOrderIrrelevant`, from `Sound`: orders of different players
  are never tied in the sorting key, so exchanging two neighbours permutes the
  places but not the sorted sequence, of which everything else is a function.
* `BlockedFall` - `BlockedOrdersFall`, and `SentStand` - `SentOrdersStand` wherever
  `BanksInSight` holds: water next to a cell that the player holds is shown to him. The
  condition is needed. A player sees around his troops, not around a city that stands empty, and
  the console lets him lay a pipe from such a city, at the edge of what other troops
  see, into water that he is not shown; the engine refuses it. In the matches of
  `engine_play` no state has such a city.

`Sound` and `BanksInSight` hold in every state of `engine_play`'s matches, which TLC was
asked before the proofs. The assumptions are the rules of the engine (`RulesAssumption`:
positive capacities, rates that are numbers), scenarios as `createWorld` accepts them and
orders as the parser lets them through (`MenuAssumption`: two to four players with
different ids, heights are bytes, cities are on land and have one owner, only pipes have a
direction), and `RangeAssumption`: the range of paratroops is the
number of subcells a pointer can aim over. `PARATROOP_MAX_RANGE` in
`engine/src/validate.ts:56` and `SUBCELL_RANGE` in
`console/src/contracts/console-types.ts:296` are two constants with one value, and the
console's check would let an order through, or hold one back, if one were changed alone.

`MatchProofs` proves of the generator, for boards of any size, any noise and any settings:

* `ElevationTurns` and `WaterTurns`: heights and water are the same after the turn, for any
  noise and any number of cells asked for, from the two facts that the turn is its own
  inverse and that a cell and its partner agree on which of them is walked first.
* `CitiesInOwnBand`: the added cities lie in the band of the slot they are given to, if
  those that are placed do; for four players it needs a board of even size (section 7).
* `FlowCheckIdle`: the flow check of the validator is its land check.
* `StartIsFair` - `FairStart`, for four players on boards of even size. The generator never
  counts what it places: a band may run out of room. That all slots come out equal is an
  argument about totals (`ValidEven`). No slot gets more than its quota, since a walk stops
  at its count, a partner gets the turn of what is placed, and the middle band of three gets
  half its quota and the turn of it (`SlotsFilled`); the validator wants the total to be
  the quotas together; so no slot can have less. Then the engine: `Unplayed` says that as
  long as nobody has ordered anything no order is staged, there are no pipes, the cities are
  as `createWorld` dealt them, and all hold equally many troops. It is inductive given `Sound`
  (`UnplayedKept`), with a lemma for each phase of the tick: production adds to all alike, and shots,
  flow, combat, capture and decay change nothing.

and of the record of a match, for any board, rules, ids and orders:

* `ReplayKept` - `ReplayMatches`. `History` is a function from the ticks played so far to
  the world and the queue each of them began with: the first is `createWorld`, and each
  follows from the one before by `PlayTick` with that tick's orders in the log. The
  invariant `LogTells` says that there is such a history, that its last entry becomes the
  present world and queue when it is given the orders of the current tick, and that the
  copy is its entry `played`. A command extends the log at its end, and so changes the orders of no
  earlier tick (`OrdersAppend`); a tick extends the history. When the copy has played all,
  no orders are left over, and it is the match.
* `ImageBack`, on which it rests: reading undoes writing, by fields. Four bytes hold a number
  below 2^32 (`FitsU32`); a mask below 16 is its bits; the table and the slots together give
  the ids back, because the canonical ranks number them; row by row and back is the
  identity on cells. Every check of `decodePayload` accepts what `encodePayload` writes.

Both theorems are under the assumptions of the engine. `RequestsAssumption` adds for the
generator that settings are numbers, two to four players ask, and there is noise for every
attempt; `FieldsAssumption`, for the record, that the capacity of a cell and the ticks of a
match fit four bytes (`troopCounts` is a `Uint32Array`). `ReplayKept` needs no bound on what
the players hold together, because `ReplayMatches` itself asks for the image only where
`encodePayload` gives one.

`LobbyProofs` proves all the properties of `lobby`, for any guests, handles, connections,
matches and capacities:

* `HandlesStayExclusive`, from `Sound`: the registry is exclusive and no name is on an id
  that is not known, without which a sweep or a new identity could share a name. One
  lemma for each operation of the registry.
* `OneMatchAtATime` and `RowsStayTruthful`, from `LobbyAgrees`, which relates matches,
  commitments and rows. A call leaves a weaker relation (`Early`: a match may be over that
  is still shown and committed to), and publishing turns it into agreement; so each
  action owes only `Early`.
* `LobbyTyped` and `SubscribersStayCurrent`, which add that a guest is on one connection
  and that a call which does not publish changes no row.
* `LobbyReliesOnPromise` - the refinement of `MatchSeats`, from `LobbyAgrees`, with the same
  two lemmas: a guest who is committed to nothing plays nowhere (`FreeGuestIdle`), so who joins
  is free to; publishing sweeps every match but the one of the call. No run of
  the project lists it: it would take the time of `lobby` up by more than half. TLC found it
  to hold on that instance before it was proved.

`ConsoleProofs` proves, for any commands among which is `leaveMatch`, action ids, orders and number of redials:

* `NothingWaitsForever`, from `PageKept`. The strengthening says which requests can be
  outstanding in which phase: a greeting is answered only while its cycle still runs,
  and a join only while its boot waits, so an answer cannot restart what a timer ended.
* `FinalUntilConnect`, the part of `AttemptsEnd` about final states: a late close of a
  dropped socket changes nothing, and a final state has no timer armed.

Only model-checked: the liveness properties `BindingResolved`, `SilentReaped` and
`AttemptsEnd`, since liveness under fairness is out of the prover's reach. Every invariant
and every safety action property the runs check is a theorem too.

## 6. Not modelled

See `components` in `PROJECT.json`. In short:

* parsing and formatting of frames, statistics, id generation, rendering, the design
  system, logging, versioning and the archived program: no protocol state of their own;
* the noise of the terrain, which is floating-point arithmetic, its seeds, and the hash of a board;
* the roster of the lobby and its revisions, which are a second publication beside the
  rows with the same shape;
* rate limits and sequence numbers of the match protocol. An ack that crosses a reconnect
  would need them;
* zoom and pan, key bindings by configuration, and what of the input is feedback;
* the persistence and redaction of the browser's claim, routes and deep links;
* the wiring of the self-hosted process.

## 7. Where documents and code disagree

Shown by runs:

* `doc_disconnect_reported`. `networking/src/contracts/matchmaking-to-networking.ts:245`
  says that after a disconnection the server "will independently fire `onSeatExpired`".
  A reconnect that comes after the window has lapsed and before the next sweep consumes
  the binding (`networking/src/server.ts:1150-1155`) and answers `token_expired`. The
  sweep then finds nothing, so the seat is neither detached nor forfeited.
* `doc_full_starts`. A completed rematch vote creates a record with every seat taken in
  status `filling` (`matchmaking/src/matchLifecycle.ts:337`). Only the join that takes the
  last seat starts a match, so this one is collected by the empty-match sweep; FR-007 of
  `src/specs/006-match-lifecycle-matchmaking/spec.md:123` says a full match begins ticking.
* `doc_open_listed`. When the creator leaves seat 0 of a filling match the lobby hides
  the match (`matchmaking/src/lobby.ts:52`), which its comment calls unreachable and
  `contracts/match-types.ts:218` excludes.

Seen while modelling, without a run of their own:

* `specs/004-multiplayer-networking/tasks.md:90` and the header of `broadcast.ts` say that a
  tick is skipped for identical views. `viewsEqual` compares the event lists by their
  lengths (`broadcast.ts:167`), so a tick with the same cells and other events of the same
  number is skipped, and its events are never sent. `ClientCurrent` is about the cells.
* The ticks replayed after a snapshot are older than it, and the reducer drops them
  (`console/src/state/reducer.ts:521`): the replay is never shown.
* A tokenless join may take a seat whose binding has lapsed and is not swept; the next
  sweep then evicts the newcomer and reports the seat as expired (`server.ts:1198`, `:611`).
* `unregisterMatch` leaves reconnect bindings in the registry, although
  `networking/README.md:140` lists "grace-timer cancellation"; they expire by the sweep and
  report a seat of a match that is gone.
* After `attachPlayer` re-binds a seat, a reconnect with the old token still restores the
  seat and puts the old token back (`server.ts:1254`; `networking/README.md:141`).
* A channel whose tick threw is sealed, not removed: it accepts joins and orders
  (`server.ts:563`), and the matchmaker is not told, so the match stays `running`.
* An order ack goes to the seat's connection at the boundary, which may not be the one
  that sent the order (`server.ts:479`), although
  `specs/004-multiplayer-networking/data-model.md:433` says "to source connection". Sequence
  numbers start again on every connection, so the ack of an old order may be taken for
  that of a new one.

Seen in the lobby service (`matchmaking/src/internal/`):

* `onSeatExpired` takes the guest off a connection that is still open without
  disconnecting the identity (`lobbyService.ts:1073-1078`): it stays active for ever, and
  its handle reserved.
* A spectator who detaches on a connection he shares with the lobby puts his identity
  into its grace although he is connected (`lobbyService.ts:1015`). After the grace a sweep
  releases it, and his next `setHandle` throws.
* A match whose first seat is free again is not listed, so its row keeps the number of
  seats of the last listing; `RowsTruthful` makes the exception.
* Spectating and leaving as a spectator change what `activeMatchId` of a snapshot is and
  publish nothing; removals from the roster are broadcast with the next snapshot only
  (`lobbyService.ts:528-537`).
* The deltas of two guests who change within half a second carry the same revision, the one
  at the time they are sent (`lobbyService.ts:593`). The client drops the second as stale
  (`ws-lobby-client.ts:1323`), and for the same reason every full roster (`:1298`) until the
  roster changes again or the client reconnects. The rules of
  `specs/010-public-lobby-match-browser/contracts/roster-wire.md:145-146` ask for the gate and
  do not say that a revision may be sent twice.
* The resume secret is rotated by `establish`: a client that loses the answer cannot
  resume, and its own handle is taken until the grace is over.

Seen in the engine (`engine/src/`):

* Combat takes the garrison as it stood before the flow (`resolution/combat.ts:117`), so
  what a contested cell sent away in the same tick is counted on both sides:
  `NoTroopsFromNothing` is about ticks without a fight.
* A comment in `applyCommand.ts` says that `resolveTerminal` emits the elimination event of
  a surrender; it never does, since the player is already out when it runs
  (`resolution/terminal.ts:98`).
* `setPipesExclusive` does not check its target cell as `setPipe` does. Of a `setPipe` and a
  `clearPipe` in one tick the kinds decide which is last, not the order of arrival.
* Orders of players who are out still validate. A surrender after the end turns a win
  into a draw.
* A match ended by a surrender at tick `t` is captured with `t` as its last tick
  (`scripts/capture.ts:303`), and a replay stops before it would apply the surrender
  (`replay/replay.ts:137`); `ReplayMatches` leaves such matches out.
* A restored world has none of the orders that were staged on it.

Seen in the terrain (`terrain/src/`):

* The validator's INV-16 "catches maps where land connectivity (INV-12) passes but extreme
  elevation gradients block pipe flow" (`validate.ts:552`). It catches none: an edge
  counts if either direction moves troops, and downhill always does (`FlowCheckIdle`).
* `generate.ts` says that out-of-range settings are never rejected and "the generator must
  always produce a Board". A ratio of 0.02, or anything below it, asks for 20 cells of a
  board of 32 x 32, which is less than 0.02 of it; 0.25 on a board of 10 x 10 floods 26
  cells, since an odd number takes a whole pair (`water.ts:126`, whose comment says this
  "stays within the water ratio tolerance bounds"). The validator rejects every attempt,
  and the request fails whatever the seed.
* On a board of odd size for four players the middle column belongs to the band of slot 2
  and turns into that of slot 4, so a city that is added there for slot 3 lies in the band
  of slot 4 (`city-band.ts:60`, `city-symmetry.ts:96`). The validator does not look at
  bands. Boards in the model are even.

Seen in the console (`console/src/`):

* Nothing but a close settles a `joinMatch` or an order ack; the promise of an order that
  is refused with an error is kept until then (`net/ws-match-client.ts:542`).
* A leg that rejoins by a snapshot is not told its PlayerId, and the reducer drops all its
  orders without a word (`state/reducer.ts:513`, `:316`).
* After a transport loss a leg shows "reconnecting", and nothing reconnects it.
* `returnToLobby` uncovers the page before the leave is accepted, or when none can be
  sent, so a new leg boots in between; and it sends a second leave while one is loading,
  which the leave button does not (`internal/lobby-runtime.tsx:203`).
* Any identity event settles every pending rename (`net/ws-lobby-client.ts:1205`).
* `failAttempt` arms its timer after it has told the listeners; one that calls
  `disconnect()` there leaves a timer that dials a closed client
  (`net/ws-lobby-client.ts:1027`). The listeners in this repository do not.

Seen in the input of the console (`console/src/`):

* The console does not check the source of a drop or a shot, so the engine may refuse one
  that was confirmed to the player (`state/local-preflight.ts:79`); a gun on visible water
  is blocked, and the engine would take it. `setPipesExclusive` is checked like `setPipe`,
  which the engine does not do. `SentOrdersStand` and `BlockedOrdersFall` name these cases.
* Before the first tick a player without troops on the board sees nothing, not even his
  own city, so orders to it are refused as out of bounds that the engine would take.
* Whether a key sets or clears a pipe is read from the last view, so pressing it twice
  within a tick sends the same order twice (`input/order-draft.ts:126`).
* The header of `order-draft.ts` says that keyboard and "mouse button 1 behave identically".
  In the sticky exclusive mode the mouse sets an exclusive pipe and the key toggles
  (`input/region-select.ts:87`).
* `HotkeyController` replaced `OrderDraftController` with the same semantics by its
  comments, but drops the feedback for a drop or shot that the local check refuses
  (`qol/hotkeys.ts:267`).
