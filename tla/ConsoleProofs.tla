--------------------------- MODULE ConsoleProofs ---------------------------
(***************************************************************************)
(* Proofs about module Console, for any number of actions, orders and      *)
(* retries.  Each connection has an inductive invariant of its own: what   *)
(* LobbyWoken and LegWoken say, the types, and what ties the socket and    *)
(* the timers to the connection state.                                     *)
(***************************************************************************)
EXTENDS Console, TLAPS

LobbyIInv ==
    /\ LobbyClientTypeOK
    /\ LobbyWoken
    /\ client.socket # "none"
           => /\ client.connection \in {"connecting", "reconnecting", "ready"}
              /\ client.reconnectAttempt <= MaxRetries
    /\ client.reconnectTimer
           => client.socket = "none" /\ client.reconnectAttempt <= MaxRetries
    /\ client.socket = "dialing" => client.phase = "identity"
    /\ Claim \in asked => client.phase = "identity"
    /\ Hello \in asked => client.phase = "identity" /\ Claim \notin asked

LegIInv ==
    /\ LegTypeOK
    /\ LegWoken
    /\ leg.socket = "dialing" => leg.boot = "connect"
    /\ "join" \in due => leg.boot = "join"
    /\ "hello" \in due => leg.boot = "connect"

PageOK ==
    /\ viewMode \in {"lobby", "match"}
    /\ role \in {"player", "spectator"}
    /\ started \in BOOLEAN
    /\ notice \in BOOLEAN

-----------------------------------------------------------------------------
\* The handshake requests and the commands are different requests.
LEMMA Handshake ==
    /\ Hello \in Request /\ Claim \in Request /\ Subscription \in Request
    /\ Hello # Claim /\ Hello # Subscription /\ Claim # Subscription
    /\ \A n \in Actions, k \in Commands :
           <<n, k>> \in Request /\ <<n, k>> \notin {Hello, Claim, Subscription}
  BY CommandAssumption DEF Request, Hello, Claim, Subscription

\* The attempts counted so far.
LEMMA Counting ==
    /\ 0 \in 0 .. MaxRetries + 1 /\ 0 <= MaxRetries
    /\ \A a \in 0 .. MaxRetries : a + 1 \in 0 .. MaxRetries + 1
    /\ \A a \in 0 .. MaxRetries + 1 : a <= MaxRetries => a \in 0 .. MaxRetries
  BY RetryAssumption

\* What an attempt sets and what it leaves.
LEMMA Attempting ==
    ASSUME NEW c \in Client
    PROVE  /\ Attempt(c) \in Client
           /\ Attempt(c).socket = "dialing" /\ Attempt(c).phase = "identity"
           /\ Attempt(c).establishTimer
           /\ Attempt(c).connection = c.connection
           /\ Attempt(c).subscribing = c.subscribing
           /\ Attempt(c).connecting = c.connecting
           /\ Attempt(c).reconnectTimer = c.reconnectTimer
           /\ Attempt(c).reconnectAttempt = c.reconnectAttempt
  BY DEF Attempt, Client, EstablishPhase, Wire

\* What a teardown gives up and what it leaves.
LEMMA Tearing ==
    ASSUME NEW c \in Client
    PROVE  /\ Torn(c) \in Client
           /\ Torn(c).socket = "none" /\ Torn(c).phase = "none"
           /\ ~Torn(c).greeted /\ ~Torn(c).subscribing /\ ~Torn(c).connecting
           /\ ~Torn(c).establishTimer
           /\ Torn(c).reconnectTimer = c.reconnectTimer
           /\ Torn(c).reconnectAttempt = c.reconnectAttempt
  BY DEF Torn, Client, EstablishPhase, Wire

\* Opening a socket: connect() and the end of a back-off.
LEMMA Dialling ==
    ASSUME LobbyIInv, Connect \/ BackoffElapsed
    PROVE  LobbyIInv'
  <1>1. CASE Connect
    <2>1. PICK c : c = [client EXCEPT !.closedByUs = FALSE,
                                      !.reconnectAttempt = 0,
                                      !.connection = "connecting",
                                      !.connecting = TRUE]
      OBVIOUS
    <2>2. /\ c \in Client
          /\ c.connection = "connecting" /\ c.connecting
          /\ c.reconnectAttempt = 0
          /\ c.subscribing = client.subscribing
          /\ c.reconnectTimer = client.reconnectTimer
      BY <2>1, Counting
      DEF LobbyIInv, LobbyClientTypeOK, Client, LobbyConnectionState
    <2>3. client' = Attempt(c)
      BY <1>1, <2>1 DEF Connect
    <2> QED
      BY <1>1, <2>2, <2>3, Attempting, RetryAssumption
      DEF LobbyIInv, LobbyClientTypeOK, LobbyWoken, Connect
  <1>2. CASE BackoffElapsed
    <2>1. PICK c : c = [client EXCEPT !.reconnectTimer = FALSE]
      OBVIOUS
    <2>2. /\ c \in Client
          /\ ~c.reconnectTimer
          /\ c.connection = client.connection
          /\ c.connecting = client.connecting
          /\ c.reconnectAttempt = client.reconnectAttempt
          /\ c.subscribing = client.subscribing
      BY <2>1 DEF LobbyIInv, LobbyClientTypeOK, Client
    <2>3. client' = Attempt(c)
      BY <1>2, <2>1 DEF BackoffElapsed
    <2> QED
      BY <1>2, <2>2, <2>3, Attempting, RetryAssumption
      DEF LobbyIInv, LobbyClientTypeOK, LobbyWoken, BackoffElapsed
  <1> QED BY <1>1, <1>2

\* The establish cycle moves on.
LEMMA Establishing ==
    ASSUME LobbyIInv,
           \/ SocketOpened \/ HelloAcknowledged \/ IdentityDelivered
           \/ Subscribed \/ SubscribeRefused \/ SubscribeTimeout \/ SocketClosing
    PROVE  LobbyIInv'
  <1> USE Handshake DEF LobbyIInv, LobbyClientTypeOK, Client, LobbyWoken, LobbyConnectionState,
        EstablishPhase, Wire, Answered
  <1>1. CASE SocketOpened
    BY <1>1 DEF SocketOpened
  <1>2. CASE HelloAcknowledged
    BY <1>2 DEF HelloAcknowledged
  <1>3. CASE IdentityDelivered
    BY <1>3 DEF IdentityDelivered
  <1>4. CASE Subscribed
    <2>1. CASE client.subscribing
      BY <1>4, <2>1, Counting DEF Subscribed, Established
    <2>2. CASE ~client.subscribing
      BY <1>4, <2>2 DEF Subscribed
    <2> QED BY <2>1, <2>2
  <1>5. CASE SubscribeRefused
    BY <1>5 DEF SubscribeRefused
  <1>6. CASE SubscribeTimeout
    BY <1>6 DEF SubscribeTimeout
  <1>7. CASE SocketClosing
    BY <1>7 DEF SocketClosing
  <1> QED BY <1>1, <1>2, <1>3, <1>4, <1>5, <1>6, <1>7

\* A failed attempt is retried with a timer, or ends without one.
LEMMA Failing ==
    ASSUME LobbyIInv, client.socket # "none", Teardown(Failed(client)),
           stragglers' \in BOOLEAN
    PROVE  LobbyIInv'
  <1>1. PICK c : c = Torn(client)
    OBVIOUS
  <1>2. /\ c \in Client
        /\ c.socket = "none" /\ c.phase = "none"
        /\ ~c.greeted /\ ~c.subscribing /\ ~c.connecting /\ ~c.establishTimer
        /\ ~c.reconnectTimer
        /\ c.reconnectAttempt = client.reconnectAttempt
    BY <1>1, Tearing DEF LobbyIInv, LobbyClientTypeOK
  <1>3. client.reconnectAttempt + 1 \in 0 .. MaxRetries + 1
    BY Counting DEF LobbyIInv, LobbyClientTypeOK, Client
  <1> USE DEF LobbyIInv, LobbyClientTypeOK, Client, LobbyConnectionState, LobbyWoken,
              Teardown
  <1>4. CASE client.closedByUs
    BY <1>1, <1>2, <1>4 DEF Failed
  <1>5. CASE ~client.closedByUs /\ ~AutoReconnect
    BY <1>1, <1>2, <1>5 DEF Failed
  <1>6. CASE ~client.closedByUs /\ AutoReconnect /\ Exhausted(client)
    BY <1>1, <1>2, <1>3, <1>6 DEF Failed
  <1>7. CASE ~client.closedByUs /\ AutoReconnect /\ ~Exhausted(client)
    <2>1. client.reconnectAttempt + 1 <= MaxRetries
      BY <1>7, <1>3, RetryAssumption DEF Exhausted
    <2> QED BY <1>1, <1>2, <1>3, <1>7, <2>1 DEF Failed
  <1> QED BY <1>4, <1>5, <1>6, <1>7, RetryAssumption

\* The ways a socket goes.
LEMMA TearingDown ==
    ASSUME LobbyIInv,
           \/ VersionMismatch \/ EstablishTimeout \/ SocketClosed \/ LateClose
           \/ Disconnect
    PROVE  LobbyIInv'
  <1>1. CASE VersionMismatch
    BY <1>1
    DEF LobbyIInv, LobbyClientTypeOK, Client, LobbyWoken, LobbyConnectionState,
        EstablishPhase, Wire, VersionMismatch, Answered, Teardown, Torn
  <1>2. CASE EstablishTimeout
    <2>1. client.socket # "none"
      BY <1>2 DEF EstablishTimeout, LobbyIInv, LobbyWoken
    <2> QED BY <1>2, <2>1, Failing DEF EstablishTimeout
  <1>3. CASE SocketClosed
    <2>1. stragglers' \in BOOLEAN
      BY <1>3 DEF SocketClosed, LobbyIInv, LobbyClientTypeOK
    <2> QED BY <1>3, <2>1, Failing DEF SocketClosed, OnClose, Heeds
  <1>4. CASE LateClose
    BY <1>4
    DEF LobbyIInv, LobbyClientTypeOK, LobbyWoken, LateClose, OnClose, Heeds
  <1>5. CASE Disconnect
    BY <1>5
    DEF LobbyIInv, LobbyClientTypeOK, Client, LobbyWoken, LobbyConnectionState,
        EstablishPhase, Wire, Disconnect, Teardown, Torn
  <1> QED BY <1>1, <1>2, <1>3, <1>4, <1>5

\* Commands and what becomes of them.
LEMMA Commanding ==
    ASSUME LobbyIInv, NEW n \in Actions, NEW k \in Commands,
           \/ Send(n, k) \/ Accepted(n, k) \/ Refused(n, k)
           \/ ActionTimeout(n, k) \/ Renamed(n)
    PROVE  LobbyIInv'
  <1> USE Handshake DEF LobbyIInv, LobbyClientTypeOK, LobbyWoken, Answered
  <1>1. CASE Send(n, k)
    BY <1>1 DEF Send
  <1>2. CASE Accepted(n, k)
    BY <1>2 DEF Accepted
  <1>3. CASE Refused(n, k)
    BY <1>3 DEF Refused
  <1>4. CASE ActionTimeout(n, k)
    BY <1>4 DEF ActionTimeout
  <1>5. CASE Renamed(n)
    BY <1>5 DEF Renamed
  <1> QED BY <1>1, <1>2, <1>3, <1>4, <1>5

\* A request that is never answered.
LEMMA Dropping ==
    ASSUME LobbyIInv, NEW request \in asked, Dropped(request)
    PROVE  LobbyIInv'
  BY DEF Dropped, Answered, LobbyIInv, LobbyClientTypeOK, LobbyWoken

\* Whatever the lobby connection does by itself keeps its invariant.
LEMMA LobbyMoves ==
    ASSUME LobbyIInv, LobbyAlone
    PROVE  LobbyIInv'
  <1>1. CASE Connect \/ BackoffElapsed
    BY <1>1, Dialling
  <1>2. CASE \/ SocketOpened \/ HelloAcknowledged \/ IdentityDelivered
             \/ Subscribed \/ SubscribeRefused \/ SubscribeTimeout \/ SocketClosing
    BY <1>2, Establishing
  <1>3. CASE \/ VersionMismatch \/ EstablishTimeout \/ SocketClosed \/ LateClose
             \/ Disconnect
    BY <1>3, TearingDown
  <1>4. CASE \E request \in asked : Dropped(request)
    BY <1>4, Dropping
  <1>5. CASE \E n \in Actions, k \in Commands : Refused(n, k) \/ ActionTimeout(n, k)
    BY <1>5, Commanding
  <1>6. CASE \E n \in Actions : Renamed(n)
    BY <1>6 DEF Renamed, Answered, LobbyIInv, LobbyClientTypeOK, LobbyWoken
  <1> QED BY <1>1, <1>2, <1>3, <1>4, <1>5, <1>6 DEF LobbyAlone

-----------------------------------------------------------------------------
\* Mounting and disposing of a leg.
LEMMA Hosting ==
    ASSUME LegIInv, LegMounted \/ LegDisposed
    PROVE  LegIInv'
  <1>1. CASE LegMounted
    <2>1. leg' = [boot |-> "connect", connection |-> "pending",
                  socket |-> "dialing", establishTimer |-> TRUE,
                  heartbeat |-> FALSE, pendingAcks |-> {},
                  status |-> "connecting", seated |-> FALSE]
      BY <1>1 DEF LegMounted, NoLeg
    <2>2. leg' \in Leg
      BY <2>1 DEF Leg
    <2> QED BY <1>1, <2>1, <2>2 DEF LegMounted, NoLeg, LegIInv, LegTypeOK, LegWoken
  <1>2. CASE LegDisposed
    <2>1. leg' = NoLeg /\ leg' \in Leg
      BY <1>2 DEF LegDisposed, NoLeg, Leg
    <2> QED BY <1>2, <2>1 DEF LegDisposed, NoLeg, LegIInv, LegTypeOK, LegWoken
  <1> QED BY <1>1, <1>2

\* The boot of a leg moves on.
LEMMA Booting ==
    ASSUME LegIInv,
           \/ LegOpened \/ LegGreeted \/ LegVersionMismatch
           \/ LegJoined(role) \/ LegRejoined(role) \/ LegJoinRefused
    PROVE  LegIInv'
  <1> USE OrderAssumption DEF LegIInv, LegTypeOK, Leg, LegWoken, Replied, Rejected
  <1>1. CASE LegOpened
    BY <1>1 DEF LegOpened
  <1>2. CASE LegGreeted
    BY <1>2 DEF LegGreeted
  <1>3. CASE LegVersionMismatch
    BY <1>3 DEF LegVersionMismatch
  <1>4. CASE LegJoined(role)
    BY <1>4 DEF LegJoined
  <1>5. CASE LegRejoined(role)
    BY <1>5 DEF LegRejoined
  <1>6. CASE LegJoinRefused
    BY <1>6 DEF LegJoinRefused
  <1> QED BY <1>1, <1>2, <1>3, <1>4, <1>5, <1>6

\* Orders and their acks.
LEMMA Ordering ==
    ASSUME LegIInv, NEW o \in Orders,
           LegOrder(o) \/ LegOrderAcked(o) \/ LegOrderRefused(o)
    PROVE  LegIInv'
  <1> USE OrderAssumption DEF LegIInv, LegTypeOK, Leg, LegWoken, Replied
  <1>1. CASE LegOrder(o)
    BY <1>1 DEF LegOrder
  <1>2. CASE LegOrderAcked(o)
    BY <1>2 DEF LegOrderAcked
  <1>3. CASE LegOrderRefused(o)
    BY <1>3 DEF LegOrderRefused
  <1> QED BY <1>1, <1>2, <1>3

\* The end of a match, of a socket, of an attempt.
LEMMA Ending ==
    ASSUME LegIInv,
           LegTerminal \/ LegEstablishTimeout \/ LegClosing \/ LegClosed
    PROVE  LegIInv'
  <1> USE DEF LegIInv, LegTypeOK, Leg, LegWoken, Flushed, Rejected, WasJoined
  <1>1. CASE LegTerminal
    BY <1>1 DEF LegTerminal
  <1>2. CASE LegEstablishTimeout
    BY <1>2 DEF LegEstablishTimeout
  <1>3. CASE LegClosing
    BY <1>3 DEF LegClosing
  <1>4. CASE LegClosed
    BY <1>4 DEF LegClosed
  <1> QED BY <1>1, <1>2, <1>3, <1>4

\* Whatever the leg does by itself keeps its invariant.
LEMMA LegMoves ==
    ASSUME LegIInv, LegAlone
    PROVE  LegIInv'
  <1>1. CASE \/ LegOpened \/ LegGreeted \/ LegVersionMismatch
             \/ LegJoined(role) \/ LegRejoined(role) \/ LegJoinRefused
    BY <1>1, Booting
  <1>2. CASE \E o \in Orders : LegOrder(o) \/ LegOrderAcked(o) \/ LegOrderRefused(o)
    BY <1>2, Ordering
  <1>3. CASE LegTerminal \/ LegEstablishTimeout \/ LegClosing \/ LegClosed
    BY <1>3, Ending
  <1> QED BY <1>1, <1>2, <1>3 DEF LegAlone

-----------------------------------------------------------------------------
\* The page starts with nothing waiting.
LEMMA PageStarts ==
    ASSUME Init
    PROVE  LobbyIInv /\ LegIInv /\ PageOK
  <1> USE DEF Init
  <1>1. client \in Client
    BY RetryAssumption
    DEF LobbyClientInit, Client, LobbyConnectionState, EstablishPhase, Wire
  <1>2. LobbyIInv
    BY <1>1, RetryAssumption
    DEF LobbyClientInit, LobbyIInv, LobbyClientTypeOK, LobbyWoken
  <1>3. leg \in Leg
    BY DEF LegInit, NoLeg, Leg
  <1>4. LegIInv
    BY <1>3 DEF LegInit, NoLeg, LegIInv, LegTypeOK, LegWoken
  <1>5. PageOK
    BY DEF PageOK
  <1> QED BY <1>2, <1>4, <1>5

\* A step of the page is a step of one connection, and leaves the other alone.
LEMMA PageMoves ==
    ASSUME LobbyIInv, LegIInv, PageOK, Next
    PROVE  LobbyIInv' /\ LegIInv' /\ PageOK'
  <1> DEFINE LobbyStays == UNCHANGED lobbyVars
             LegStays == UNCHANGED legVars
  <1>1. LobbyStays => LobbyIInv'
    BY DEF lobbyVars, LobbyIInv, LobbyClientTypeOK, LobbyWoken
  <1>2. LegStays => LegIInv'
    BY DEF legVars, LegIInv, LegTypeOK, LegWoken
  <1>3. CASE LobbyAlone
    <2>1. LobbyIInv'
      BY <1>3, LobbyMoves
    <2>2. LegStays /\ UNCHANGED pageVars
      BY <1>3 DEF LobbyAlone, legVars, pageVars
    <2> QED BY <1>2, <2>1, <2>2 DEF PageOK, pageVars
  <1>4. CASE \E n \in Actions, k \in Commands : Command(n, k)
    <2>1. PICK n \in Actions, k \in Commands : Command(n, k)
      BY <1>4
    <2>2. LobbyIInv'
      BY <2>1, Commanding DEF Command
    <2>3. LegStays
      BY <2>1 DEF Command
    <2>4. PageOK'
      BY <2>1 DEF Command, PageOK, pageVars
    <2> QED BY <1>2, <2>2, <2>3, <2>4
  <1>5. CASE \E n \in Actions, k \in Commands : CommandAccepted(n, k)
    <2>1. PICK n \in Actions, k \in Commands : CommandAccepted(n, k)
      BY <1>5
    <2>2. LobbyIInv'
      BY <2>1, Commanding DEF CommandAccepted
    <2>3. LegStays
      BY <2>1 DEF CommandAccepted
    <2>4. PageOK'
      BY <2>1 DEF CommandAccepted, PageOK, RoleOf
    <2> QED BY <1>2, <2>2, <2>3, <2>4
  <1>6. CASE SnapshotApplied
    BY <1>6, <1>1, <1>2 DEF SnapshotApplied, PageOK
  <1>7. CASE Mount \/ Unmount
    <2>1. LegIInv'
      BY <1>7, Hosting DEF Mount, Unmount
    <2>2. LobbyStays /\ UNCHANGED pageVars
      BY <1>7 DEF Mount, Unmount
    <2> QED BY <1>1, <2>1, <2>2 DEF PageOK, pageVars
  <1>8. CASE LegAlone
    <2>1. LegIInv'
      BY <1>8, LegMoves
    <2>2. LobbyStays
      BY <1>8 DEF LegAlone
    <2>3. PageOK'
      BY <1>8 DEF LegAlone, PageOK
    <2> QED BY <1>1, <2>1, <2>2, <2>3
  <1>9. CASE ReturnToLobby
    <2>1. ASSUME NEW n \in Actions, Send(n, "leaveMatch")
          PROVE  LobbyIInv'
      BY <2>1, LeaveAssumption, Commanding
    <2>2. LobbyIInv'
      BY <1>9, <1>1, <2>1 DEF ReturnToLobby
    <2>3. LegStays
      BY <1>9 DEF ReturnToLobby
    <2>4. PageOK'
      BY <1>9 DEF ReturnToLobby, PageOK
    <2> QED BY <1>2, <2>2, <2>3, <2>4
  <1> QED BY <1>3, <1>4, <1>5, <1>6, <1>7, <1>8, <1>9 DEF Next

\* A step that changes nothing of the page.
LEMMA PageStutters ==
    ASSUME LobbyIInv, LegIInv, PageOK, UNCHANGED vars
    PROVE  LobbyIInv' /\ LegIInv' /\ PageOK'
  BY DEF vars, lobbyVars, legVars, pageVars, LobbyIInv, LobbyClientTypeOK,
         LobbyWoken, LegIInv, LegTypeOK, LegWoken, PageOK

\* Both connections keep their invariants in every behaviour of the page: what
\* waits has a timer or a live socket behind it, and the state of the socket
\* fits the state of the connection.
THEOREM PageKept == Spec => [](LobbyIInv /\ LegIInv /\ PageOK)
  <1>1. Init => LobbyIInv /\ LegIInv /\ PageOK
    BY PageStarts
  <1>2. LobbyIInv /\ LegIInv /\ PageOK /\ [Next]_vars
            => (LobbyIInv /\ LegIInv /\ PageOK)'
    BY PageMoves, PageStutters
  <1> QED BY <1>1, <1>2, PTL DEF Spec

\* The page is type correct.
THEOREM PageTyped == Spec => []TypeOK
  <1>1. LobbyIInv /\ LegIInv /\ PageOK => TypeOK
    BY DEF LobbyIInv, LegIInv, PageOK, TypeOK
  <1> QED BY <1>1, PageKept, PTL

\* Nothing on the page waits for what cannot come any more.
THEOREM NothingWaitsForever == Spec => []AlwaysWoken
  <1>1. LobbyIInv /\ LegIInv => AlwaysWoken
    BY DEF LobbyIInv, LegIInv, AlwaysWoken
  <1> QED BY <1>1, PageKept, PTL

-----------------------------------------------------------------------------
\* Only connect() takes the lobby connection out of a final state.
LEMMA FinalStep ==
    ASSUME LobbyIInv, [Next]_vars, client.connection \in {"failed", "closed"}
    PROVE  client'.connection \in {client.connection, "closed"} \/ Connect
  <1> DEFINE Final == client'.connection \in {client.connection, "closed"}
  <1>0. /\ client.socket = "none"
        /\ ~client.establishTimer /\ ~client.reconnectTimer
        /\ ~client.subscribing
    BY DEF LobbyIInv, LobbyWoken
  <1>1. UNCHANGED client => Final
    OBVIOUS
  <1>2. CASE LobbyAlone
    <2>1. CASE Connect
      BY <2>1
    <2>2. CASE Disconnect
      BY <2>2 DEF Disconnect, Teardown, Torn, LobbyIInv, LobbyClientTypeOK, Client
    <2>3. ~(SocketOpened \/ HelloAcknowledged \/ VersionMismatch \/ IdentityDelivered
            \/ Subscribed \/ SubscribeRefused \/ SubscribeTimeout
            \/ EstablishTimeout \/ BackoffElapsed \/ SocketClosing \/ SocketClosed)
      BY <1>0 DEF SocketOpened, HelloAcknowledged, VersionMismatch,
         IdentityDelivered, Subscribed, SubscribeRefused, SubscribeTimeout,
         EstablishTimeout, BackoffElapsed, SocketClosing, SocketClosed, Answered
    <2>4. CASE LateClose
      BY <2>4, <1>1 DEF LateClose, OnClose, Heeds
    <2>5. CASE \/ \E request \in asked : Dropped(request)
               \/ \E n \in Actions, k \in Commands :
                      Refused(n, k) \/ ActionTimeout(n, k)
               \/ \E n \in Actions : Renamed(n)
      BY <2>5, <1>1 DEF Dropped, Refused, ActionTimeout, Renamed
    <2> QED BY <1>2, <2>1, <2>2, <2>3, <2>4, <2>5 DEF LobbyAlone
  <1>3. CASE \E n \in Actions, k \in Commands : Command(n, k) \/ CommandAccepted(n, k)
    BY <1>3, <1>1 DEF Command, CommandAccepted, Send, Accepted
  <1>4. CASE ReturnToLobby
    BY <1>4, <1>1 DEF ReturnToLobby, Send, lobbyVars
  <1>5. CASE SnapshotApplied \/ Mount \/ Unmount \/ LegAlone \/ UNCHANGED vars
    BY <1>5, <1>1 DEF SnapshotApplied, Mount, Unmount, LegAlone, vars, lobbyVars
  <1> QED BY <1>2, <1>3, <1>4, <1>5 DEF Next

\* A failed or closed lobby connection stays so until connect() is called,
\* whatever close events and timers of earlier attempts are still to come.
THEOREM FinalUntilConnect == Spec => FinalStays
  <1>1. LobbyIInv /\ [Next]_vars
            => [client.connection \in {"failed", "closed"}
                    => \/ client'.connection \in {client.connection, "closed"}
                       \/ Connect]_vars
    BY FinalStep
  <1> QED BY <1>1, PageKept, PTL DEF Spec, FinalStays
=============================================================================
