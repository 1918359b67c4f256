---------------------------- MODULE MatchClient ----------------------------
(***************************************************************************)
(* The browser's connection to one match, called a leg: the socket client  *)
(* (packages/console/src/net/ws-match-client.ts), the console client that  *)
(* wraps it (net/client.ts), the part of the console state that the        *)
(* connection decides (state/reducer.ts) and the boot sequence of          *)
(* createMatchLeg and createSpectatorLeg (internal/lobby-runtime.tsx).     *)
(*                                                                         *)
(* `due' holds the requests of the leg's socket without an answer.  A leg  *)
(* makes one attempt: it is made for a match, boots, and is disposed of.   *)
(* Views and their order are the matter of module SeatStream.              *)
(***************************************************************************)
CONSTANTS
    Orders          \* orders in flight at once, a bound of the model

VARIABLES
    leg,            \* the leg's clients, NoLeg when none is mounted
    due             \* requests on the leg's socket without an answer

legVars == <<leg, due>>

Leg ==
    [boot : {"none", "connect", "join", "done", "failed"},
     connection : {"pending", "greeted", "joined", "rejoined", "terminal",
                   "disconnected", "closed"},
     socket : {"none", "dialing", "open", "closing"},
     establishTimer : BOOLEAN,
     heartbeat : BOOLEAN,       \* heartbeatTimer is armed
     pendingAcks : SUBSET Orders,
     status : {"connecting", "live", "reconnecting", "game_over"},
     seated : BOOLEAN]          \* session.playerId is known to the reducer

ASSUME OrderAssumption == Orders \cap {"hello", "join"} = {}

NoLeg ==
    [boot |-> "none", connection |-> "pending", socket |-> "none",
     establishTimer |-> FALSE, heartbeat |-> FALSE, pendingAcks |-> {},
     status |-> "connecting", seated |-> FALSE]

LegTypeOK ==
    /\ leg \in Leg
    /\ due \subseteq {"hello", "join"} \cup Orders

LegInit == leg = NoLeg /\ due = {}

-----------------------------------------------------------------------------
\* connect()'s promise is pending in boot stage "connect", joinMatch()'s in
\* stage "join"; rejecting either ends the boot in failure.
Rejected(boot) == IF boot \in {"connect", "join"} THEN "failed" ELSE boot

FlushedAcksOnly(l) == [l EXCEPT !.establishTimer = FALSE, !.pendingAcks = {}]

\* flushPendingRejections
Flushed(l) ==
    [l EXCEPT !.establishTimer = FALSE, !.pendingAcks = {},
              !.boot = Rejected(l.boot)]

WasJoined(l) == l.connection \in {"joined", "rejoined"}

\* The leg answers `request'.
Replied(request) ==
    /\ leg.socket = "open"
    /\ request \in due

-----------------------------------------------------------------------------
\* createMatchLeg or createSpectatorLeg, and boot(): the socket is dialled.
LegMounted ==
    /\ leg = NoLeg
    /\ leg' = [NoLeg EXCEPT !.boot = "connect", !.socket = "dialing",
                            !.establishTimer = TRUE]
    /\ UNCHANGED due

\* dispose(): disconnect() of the client; the boot that is cut short is not
\* reported, and nothing of the leg is kept.
LegDisposed ==
    /\ leg # NoLeg
    /\ leg' = NoLeg
    /\ due' = {}

LegOpened ==
    /\ leg.socket = "dialing"
    /\ leg' = [leg EXCEPT !.socket = "open"]
    /\ due' = {"hello"}

\* helloAck: the promise of connect() resolves, and boot() sends the join.
LegGreeted ==
    /\ Replied("hello")
    /\ leg' = [leg EXCEPT !.connection = "greeted", !.establishTimer = FALSE,
                          !.heartbeat = TRUE, !.boot = "join"]
    /\ due' = (due \ {"hello"}) \cup {"join"}

\* helloAck of another version: the client closes, but keeps the socket until
\* its close event.
LegVersionMismatch ==
    /\ Replied("hello")
    /\ leg' = [leg EXCEPT !.connection = "closed", !.establishTimer = FALSE,
                          !.socket = "closing", !.boot = Rejected(leg.boot)]
    /\ due' = due \ {"hello"}

\* joinAck; a spectator's carries no PlayerId.
LegJoined(role) ==
    /\ Replied("join")
    /\ leg' = [leg EXCEPT !.connection = "joined", !.boot = "done",
                          !.status = "live", !.seated = (role = "player")]
    /\ due' = due \ {"join"}

\* A snapshot answers the join of a player whose seat token is in its
\* reconnect window; it names no PlayerId.
LegRejoined(role) ==
    /\ role = "player"
    /\ Replied("join")
    /\ leg' = [leg EXCEPT !.connection = "rejoined", !.boot = "done",
                          !.status = "live"]
    /\ due' = due \ {"join"}

\* An error envelope while the join is pending rejects it; the connection
\* stays greeted.
LegJoinRefused ==
    /\ Replied("join")
    /\ leg' = [leg EXCEPT !.boot = Rejected(leg.boot)]
    /\ due' = due \ {"join"}

\* The reducer passes an order on in a live leg that knows its PlayerId, and
\* sendOrder takes it in a joined one.
LegOrder(order) ==
    /\ leg.status = "live" /\ leg.seated
    /\ WasJoined(leg)
    /\ leg.socket = "open"
    /\ order \notin due \cup leg.pendingAcks
    /\ leg' = [leg EXCEPT !.pendingAcks = leg.pendingAcks \cup {order}]
    /\ due' = due \cup {order}

LegOrderAcked(order) ==
    /\ Replied(order)
    /\ leg' = [leg EXCEPT !.pendingAcks = leg.pendingAcks \ {order}]
    /\ due' = due \ {order}

\* An order refused with an error envelope: no ack names it, its promise waits
\* for the end of the connection.
LegOrderRefused(order) ==
    /\ Replied(order)
    /\ due' = due \ {order}
    /\ UNCHANGED leg

\* The match is over: no more heartbeats, so the server will close.
LegTerminal ==
    /\ leg.socket = "open"
    /\ WasJoined(leg)
    /\ leg' = [leg EXCEPT !.connection = "terminal", !.heartbeat = FALSE,
                          !.status = "game_over"]
    /\ due' = due \ Orders

\* failEstablish
LegEstablishTimeout ==
    /\ leg.establishTimer
    /\ leg' = [Flushed(leg) EXCEPT !.heartbeat = FALSE, !.socket = "none",
                                   !.connection = "closed"]
    /\ due' = {}

LegClosing ==
    /\ leg.socket = "open"
    /\ leg' = [leg EXCEPT !.socket = "closing"]
    /\ UNCHANGED due

\* onclose: a joined connection is "disconnected", which the console shows as
\* reconnecting; any other is closed.
LegClosed ==
    /\ leg.socket # "none"
    /\ leg' = [Flushed(leg) EXCEPT
                 !.heartbeat = FALSE, !.socket = "none",
                 !.connection = IF WasJoined(leg) THEN "disconnected" ELSE "closed",
                 !.status = IF WasJoined(leg) THEN "reconnecting" ELSE leg.status]
    /\ due' = {}

-----------------------------------------------------------------------------
\* What the leg waits for can still come: a boot that connects has its
\* establish timer, a boot that joins and every order that waits for its ack
\* have a live socket, and so has the heartbeat (ws-match-client.ts:280-323,
\* 365-400, 614-662).
LegWoken ==
    /\ leg.boot = "connect" <=> leg.establishTimer
    /\ leg.boot = "join"
           => leg.connection = "greeted" /\ leg.socket # "none"
    /\ leg.socket = "none"
           => /\ leg.boot \notin {"connect", "join"}
              /\ leg.pendingAcks = {} /\ due = {} /\ ~leg.heartbeat
=============================================================================
