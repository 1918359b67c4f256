------------------------------ MODULE Console ------------------------------
(***************************************************************************)
(* The console page: the lobby connection, the lobby controller and store  *)
(* above it (packages/console/src/state/lobby-controller.ts,               *)
(* lobby-reducer.ts) and LobbyRoot with MatchLegHost                       *)
(* (internal/lobby-runtime.tsx), which mount a leg to a started match and  *)
(* dispose of it when the page leaves the match.                           *)
(*                                                                         *)
(* The page is reduced to what decides which connections live: whether the *)
(* match or the lobby is shown, the role of the visitor, whether the lobby *)
(* snapshot lists the match as started, and whether a notice covers the    *)
(* page.  Routes, deep links and resumeMatch are left out.                 *)
(***************************************************************************)
EXTENDS LobbyClient, MatchClient

VARIABLES
    viewMode,       \* LobbyState.viewMode
    role,           \* LegIntent.role
    started,        \* the snapshot's entry of the match is in_progress
    notice          \* noticeKind # null: the notice covers the page

pageVars == <<viewMode, role, started, notice>>
vars == <<lobbyVars, legVars, pageVars>>

SeatCommands == {"createMatch", "joinMatch", "spectateMatch"}

ASSUME LeaveAssumption == "leaveMatch" \in Commands

TypeOK ==
    /\ LobbyClientTypeOK
    /\ LegTypeOK
    /\ viewMode \in {"lobby", "match"}
    /\ role \in {"player", "spectator"}
    /\ started \in BOOLEAN
    /\ notice \in BOOLEAN

Init ==
    /\ LobbyClientInit
    /\ LegInit
    /\ viewMode = "lobby"
    /\ role = "player"
    /\ started = FALSE
    /\ notice = FALSE

-----------------------------------------------------------------------------
\* Steps of the lobby connection that the page does not react to.
LobbyAlone ==
    /\ \/ Connect \/ Disconnect
       \/ SocketOpened \/ HelloAcknowledged \/ VersionMismatch
       \/ IdentityDelivered \/ Subscribed \/ SubscribeRefused
       \/ SubscribeTimeout \/ EstablishTimeout \/ BackoffElapsed
       \/ SocketClosing \/ SocketClosed \/ LateClose
       \/ \E request \in asked : Dropped(request)
       \/ \E n \in Actions, k \in Commands : Refused(n, k) \/ ActionTimeout(n, k)
       \/ \E n \in Actions : Renamed(n)
    /\ UNCHANGED <<legVars, pageVars>>

\* The interface: seat commands and renames from the lobby view, the leave
\* button of the match view; one of a kind at a time, its button is disabled
\* while the action is loading.  A notice stands in place of both views.
Command(n, kind) ==
    /\ ~notice
    /\ kind = "leaveMatch" <=> viewMode = "match"
    /\ \A action \in pending : action[2] # kind
    /\ Send(n, kind)
    /\ UNCHANGED <<legVars, pageVars>>

\* What the lobby connection needs to send a command or to hear of the matches.
Online ==
    /\ client.connection = "ready"
    /\ client.socket = "open"

\* returnToLobby, from the notice or from the dialog at the end of a match: the
\* notice goes at once, and from the match view a leave is sent if it can be,
\* even while another one is loading.
ReturnToLobby ==
    /\ notice \/ (viewMode = "match" /\ leg.status = "game_over")
    /\ notice' = FALSE
    /\ \/ viewMode = "match" /\ \E n \in Actions : Send(n, "leaveMatch")
       \/ ~(viewMode = "match" /\ Online) /\ UNCHANGED lobbyVars
    /\ UNCHANGED <<legVars, viewMode, role, started>>

RoleOf(kind) == IF kind = "spectateMatch" THEN "spectator" ELSE "player"

\* runSeatCommand and runCommand after the echo: a command that still waits
\* switches the view, a late echo does not.  Entering a match takes a notice
\* away (the effect that writes the new path), leaving one does not.
CommandAccepted(n, kind) ==
    LET waiting == <<n, kind>> \in pending
    IN  /\ Accepted(n, kind)
        /\ viewMode' = IF ~waiting THEN viewMode
                       ELSE IF kind \in SeatCommands THEN "match" ELSE "lobby"
        /\ role' = IF waiting /\ kind \in SeatCommands THEN RoleOf(kind) ELSE role
        /\ notice' = (notice /\ ~(waiting /\ kind \in SeatCommands))
        /\ UNCHANGED <<legVars, started>>

\* A lobby snapshot changes what the page knows of the match.
SnapshotApplied ==
    /\ Online
    /\ started' \in BOOLEAN
    /\ UNCHANGED <<lobbyVars, legVars, viewMode, role, notice>>

\* MatchLegHost is on the page.
Hosted == viewMode = "match" /\ ~notice

\* The first render of a started match makes the leg.
Mount ==
    /\ Hosted /\ started
    /\ LegMounted
    /\ UNCHANGED <<lobbyVars, pageVars>>

\* The leg goes with its host, a spectator's also with the match's row.
Unmount ==
    /\ ~Hosted \/ (role = "spectator" /\ ~started)
    /\ LegDisposed
    /\ UNCHANGED <<lobbyVars, pageVars>>

\* Steps of the leg; a boot that fails while it is mounted shows the notice.
LegAlone ==
    /\ \/ LegOpened \/ LegGreeted \/ LegVersionMismatch
       \/ LegJoined(role) \/ LegRejoined(role) \/ LegJoinRefused
       \/ \E o \in Orders : LegOrder(o) \/ LegOrderAcked(o) \/ LegOrderRefused(o)
       \/ LegTerminal \/ LegEstablishTimeout \/ LegClosing \/ LegClosed
    /\ notice' = (notice \/ (leg.boot # "failed" /\ leg'.boot = "failed"))
    /\ UNCHANGED <<lobbyVars, viewMode, role, started>>

Next ==
    \/ LobbyAlone
    \/ \E n \in Actions, k \in Commands : Command(n, k) \/ CommandAccepted(n, k)
    \/ ReturnToLobby
    \/ SnapshotApplied
    \/ Mount
    \/ Unmount
    \/ LegAlone

JoinAnswered == LegJoined(role) \/ LegRejoined(role) \/ LegJoinRefused
CloseReported == leg.socket = "closing" /\ LegClosed

\* Timers fire, a join on an open socket is answered (every branch of the
\* server's handleJoinMatch sends an ack, a snapshot or an error), and a socket
\* that is closing reports it.  Nothing else is assumed of the peer: it may
\* never accept a socket nor answer a hello, a claim or a subscription.
Fairness ==
    /\ WF_vars(EstablishTimeout /\ LobbyAlone)
    /\ WF_vars(BackoffElapsed /\ LobbyAlone)
    /\ WF_vars(LegEstablishTimeout /\ LegAlone)
    /\ WF_vars(JoinAnswered /\ LegAlone)
    /\ WF_vars(CloseReported /\ LegAlone)

Spec == Init /\ [][Next]_vars /\ Fairness

-----------------------------------------------------------------------------
\* Nothing on the page waits for what cannot come any more: the lobby
\* connection and the leg each keep a timer or a live socket behind every
\* promise, whatever close, timeout, late callback, refusal or disposal comes
\* between (ws-lobby-client.ts:737-1070, ws-match-client.ts:365-400, 614-671).
AlwaysWoken == LobbyWoken /\ LegWoken

\* A final state is final: only an explicit connect() leaves "failed" and
\* "closed" (disconnect() turns either into "closed"), whatever timer or close
\* event of a discarded socket is still to come (ws-lobby-client.ts:153-154,
\* 464-469, 983-988).
FinalStays ==
    [][client.connection \in {"failed", "closed"}
           => \/ client'.connection \in {client.connection, "closed"}
              \/ Connect]_vars

\* Every attempt ends, against a peer that is half open or silent: the lobby
\* connection becomes ready or reports a final state after its bounded retries,
\* and a leg's boot is done, failed or disposed of; and the end is final
\* (ws-lobby-client.ts:932-940, 1003-1034; ws-match-client.ts:653-660;
\* lobby-runtime.tsx:562-570).
AttemptsEnd ==
    /\ client.connection \in {"connecting", "reconnecting"}
           ~> client.connection \in {"ready", "disconnected", "failed", "closed"}
    /\ leg.boot \in {"connect", "join"} ~> leg.boot \notin {"connect", "join"}
    /\ FinalStays
=============================================================================
