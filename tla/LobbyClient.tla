---------------------------- MODULE LobbyClient ----------------------------
(***************************************************************************)
(* The browser's lobby connection                                          *)
(* (packages/console/src/net/ws-lobby-client.ts): one socket at a time, an *)
(* establish cycle of hello, identity claim and subscription guarded by    *)
(* one timer, a back-off loop that redials a bounded number of times, and  *)
(* commands that wait for the echo of their action id.                     *)
(*                                                                         *)
(* The peer is the match server: `asked' holds what the client has sent on *)
(* its current socket and what has not been answered; the server answers   *)
(* it, refuses it, drops it (a rate-limited or failing handler answers     *)
(* with a transport error that no action id correlates), closes the        *)
(* socket, or stays silent.  A promise and the continuation that runs in   *)
(* the same task are one step.  Handles, claims, snapshots and the roster  *)
(* are left out.                                                           *)
(***************************************************************************)
EXTENDS Naturals

CONSTANTS
    Commands,       \* kinds of commands the interface sends
    Actions,        \* action ids in use at once, a bound of the model
    MaxRetries,     \* maxReconnectAttempts
    AutoReconnect   \* whether a lost connection is dialled again

ASSUME RetryAssumption == MaxRetries \in Nat /\ AutoReconnect \in BOOLEAN

\* 0 stands for the requests of the establish cycle
ASSUME CommandAssumption == 0 \notin Actions

VARIABLES
    client,         \* the closure's own state, without the actions
    pending,        \* pendingActions: commands whose promise is unsettled
    asked,          \* requests on the current socket without an answer
    stragglers      \* close events of discarded sockets may still arrive

lobbyVars == <<client, pending, asked, stragglers>>

LobbyConnectionState ==
    {"idle", "connecting", "ready", "disconnected", "reconnecting", "failed",
     "closed"}
EstablishPhase == {"none", "identity", "subscribe"}
Wire == {"none", "dialing", "open", "closing"}

Client ==
    [connection : LobbyConnectionState, phase : EstablishPhase, socket : Wire,
     greeted : BOOLEAN,            \* between helloAck and teardown, pinging
     subscribing : BOOLEAN,        \* the subscribe action is pending
     connecting : BOOLEAN,         \* connect()'s promise is unsettled
     establishTimer : BOOLEAN, reconnectTimer : BOOLEAN,
     reconnectAttempt : 0 .. MaxRetries + 1, closedByUs : BOOLEAN]

Hello == <<0, "hello">>
Claim == <<0, "claim">>
Subscription == <<0, "subscribe">>
Request == {Hello, Claim, Subscription} \cup (Actions \X Commands)

LobbyClientTypeOK ==
    /\ client \in Client
    /\ pending \subseteq Actions \X Commands
    /\ asked \subseteq Request
    /\ stragglers \in BOOLEAN

LobbyClientInit ==
    /\ client = [connection |-> "idle", phase |-> "none", socket |-> "none",
                 greeted |-> FALSE, subscribing |-> FALSE, connecting |-> FALSE,
                 establishTimer |-> FALSE, reconnectTimer |-> FALSE,
                 reconnectAttempt |-> 0, closedByUs |-> FALSE]
    /\ pending = {}
    /\ asked = {}
    /\ stragglers = FALSE

-----------------------------------------------------------------------------
\* Faulty variants, each named for its fault, stand before the definition they
\* vary; the properties are tested against them.

AttemptUntimed(c) ==
    [c EXCEPT !.socket = "dialing", !.phase = "identity", !.greeted = FALSE]

\* startAttempt: a new socket and the timer that bounds the whole cycle.
Attempt(c) ==
    [c EXCEPT !.socket = "dialing", !.phase = "identity", !.greeted = FALSE,
              !.establishTimer = TRUE]

\* What every teardown gives up: the socket, the cycle and its timer, the
\* heartbeat, and the promises of connect() and of the subscription.
Torn(c) ==
    [c EXCEPT !.socket = "none", !.phase = "none", !.greeted = FALSE,
              !.subscribing = FALSE, !.connecting = FALSE,
              !.establishTimer = FALSE]

Exhausted(c) == c.reconnectAttempt + 1 > MaxRetries

\* failAttempt
Failed(c) ==
    IF c.closedByUs THEN [Torn(c) EXCEPT !.connection = "closed"]
    ELSE IF ~AutoReconnect THEN [Torn(c) EXCEPT !.connection = "disconnected"]
    ELSE [Torn(c) EXCEPT
            !.connection = IF Exhausted(c) THEN "failed" ELSE "reconnecting",
            !.reconnectTimer = ~Exhausted(c),
            !.reconnectAttempt = c.reconnectAttempt + 1]

\* finishEstablish, in the task that settles the subscription.
Established(c) ==
    [c EXCEPT !.connection = "ready", !.phase = "none", !.subscribing = FALSE,
              !.connecting = FALSE, !.establishTimer = FALSE,
              !.reconnectAttempt = 0]

\* flushPendings: no command outlives its socket.
Teardown(c) ==
    /\ client' = c
    /\ pending' = {}
    /\ asked' = {}

HeedsAll(current) == TRUE

\* The guard of every socket callback: epoch === attemptEpoch and the socket
\* is the current one.
Heeds(current) == current

Unused(n) == \A k \in Commands : <<n, k>> \notin pending \cup asked

-----------------------------------------------------------------------------
\* connect()
Connect ==
    /\ client.socket = "none"
    /\ client.connection \notin {"connecting", "reconnecting", "ready"}
    /\ client' = Attempt([client EXCEPT !.closedByUs = FALSE,
                                        !.reconnectAttempt = 0,
                                        !.connection = "connecting",
                                        !.connecting = TRUE])
    /\ UNCHANGED <<pending, asked, stragglers>>

\* onopen: hello goes out.
SocketOpened ==
    /\ client.socket = "dialing"
    /\ client' = [client EXCEPT !.socket = "open"]
    /\ asked' = {Hello}
    /\ UNCHANGED <<pending, stragglers>>

\* An answer to `request' reaches onmessage.
Answered(request) ==
    /\ client.socket = "open"
    /\ request \in asked

\* helloAck of this protocol version: the claim goes out.
HelloAcknowledged ==
    /\ Answered(Hello)
    /\ client' = [client EXCEPT !.greeted = TRUE]
    /\ asked' = (asked \ {Hello}) \cup {Claim}
    /\ UNCHANGED <<pending, stragglers>>

\* protocolFatal: another protocol version is final.
VersionMismatch ==
    /\ Answered(Hello)
    /\ Teardown([Torn(client) EXCEPT !.connection = "failed"])
    /\ stragglers' = TRUE

\* applyIdentity in phase identity, and beginSubscription.
IdentityDelivered ==
    /\ Answered(Claim)
    /\ client' = [client EXCEPT !.phase = "subscribe", !.subscribing = TRUE]
    /\ asked' = (asked \ {Claim}) \cup {Subscription}
    /\ UNCHANGED <<pending, stragglers>>

\* The first snapshot settles the subscription, if it still waits for it.
Subscribed ==
    /\ Answered(Subscription)
    /\ client' = IF client.subscribing THEN Established(client) ELSE client
    /\ asked' = asked \ {Subscription}
    /\ UNCHANGED <<pending, stragglers>>

\* The server refuses the subscription: only the establish timer goes on.
SubscribeRefused ==
    /\ Answered(Subscription)
    /\ client' = [client EXCEPT !.subscribing = FALSE]
    /\ asked' = asked \ {Subscription}
    /\ UNCHANGED <<pending, stragglers>>

\* A request is dropped: no answer names it.
Dropped(request) ==
    /\ Answered(request)
    /\ asked' = asked \ {request}
    /\ UNCHANGED <<client, pending, stragglers>>

\* sendCorrelatedAction in a ready connection with an open socket; otherwise
\* the promise is rejected at once.
Send(n, kind) ==
    /\ client.connection = "ready"
    /\ client.socket = "open"
    /\ Unused(n)
    /\ pending' = pending \cup {<<n, kind>>}
    /\ asked' = asked \cup {<<n, kind>>}
    /\ UNCHANGED <<client, stragglers>>

\* actionAccepted: the echo settles the action of this id, unless its timer
\* went first.  A rename is not settled by it.
Accepted(n, kind) ==
    /\ kind # "setHandle"
    /\ Answered(<<n, kind>>)
    /\ asked' = asked \ {<<n, kind>>}
    /\ pending' = pending \ {<<n, kind>>}
    /\ UNCHANGED <<client, stragglers>>

\* The identity event that answers a rename settles every pending rename.
Renamed(n) ==
    /\ Answered(<<n, "setHandle">>)
    /\ asked' = asked \ {<<n, "setHandle">>}
    /\ pending' = {action \in pending : action[2] # "setHandle"}
    /\ UNCHANGED <<client, stragglers>>

\* An error event with an action id.
Refused(n, kind) ==
    /\ Answered(<<n, kind>>)
    /\ asked' = asked \ {<<n, kind>>}
    /\ pending' = pending \ {<<n, kind>>}
    /\ UNCHANGED <<client, stragglers>>

\* The timer of an action: its answer may still come.
ActionTimeout(n, kind) ==
    /\ <<n, kind>> \in pending
    /\ pending' = pending \ {<<n, kind>>}
    /\ UNCHANGED <<client, asked, stragglers>>

SubscribeTimeout ==
    /\ client.subscribing
    /\ client' = [client EXCEPT !.subscribing = FALSE]
    /\ UNCHANGED <<pending, asked, stragglers>>

EstablishTimeout ==
    /\ client.establishTimer
    /\ Teardown(Failed(client))
    /\ stragglers' = TRUE

BackoffElapsed ==
    /\ client.reconnectTimer
    /\ client' = Attempt([client EXCEPT !.reconnectTimer = FALSE])
    /\ UNCHANGED <<pending, asked, stragglers>>

\* The peer or the network closes: nothing can be sent any more, and the close
\* event is still to come.
SocketClosing ==
    /\ client.socket = "open"
    /\ client' = [client EXCEPT !.socket = "closing"]
    /\ UNCHANGED <<pending, asked, stragglers>>

\* onclose, of the current socket or of a discarded one: handleTransportClose
\* behind the callback's guard.
OnClose(current) ==
    IF Heeds(current)
    THEN Teardown(Failed(client))
    ELSE UNCHANGED <<client, pending, asked>>

SocketClosed ==
    /\ client.socket # "none"
    /\ OnClose(TRUE)
    /\ UNCHANGED stragglers

LateClose ==
    /\ stragglers
    /\ OnClose(FALSE)
    /\ stragglers' \in BOOLEAN

\* disconnect()
Disconnect ==
    /\ client.connection # "closed"
    /\ Teardown([Torn(client) EXCEPT !.connection = "closed",
                                     !.reconnectTimer = FALSE,
                                     !.closedByUs = TRUE])
    /\ stragglers' = (stragglers \/ client.socket # "none")

-----------------------------------------------------------------------------
\* Every state the lobby connection waits in has a timer that ends the wait:
\* an establish cycle has its establish timer, a back-off its reconnect timer,
\* never both and never either without a need; and what waits for an answer
\* (a command, a subscription, connect() itself) waits on a live socket.  A
\* callback or a teardown that forgets one of the timers or flushes too little
\* leaves a console that waits for ever (ws-lobby-client.ts:737-749, 920-1070,
\* 1422-1458).
LobbyWoken ==
    /\ client.connection = "connecting" => client.establishTimer
    /\ client.connection = "reconnecting"
           => client.establishTimer # client.reconnectTimer
    /\ client.connection \notin {"connecting", "reconnecting"}
           => ~client.establishTimer /\ ~client.reconnectTimer
    /\ client.establishTimer <=> client.phase # "none"
    /\ client.phase # "none" => client.socket # "none"
    /\ client.connection = "ready" => client.socket # "none"
    /\ client.socket = "none"
           => pending = {} /\ asked = {} /\ ~client.greeted /\ ~client.subscribing
    /\ client.subscribing => client.phase = "subscribe"
    /\ client.connecting => client.connection = "connecting"
=============================================================================
