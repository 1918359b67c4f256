----------------------------- MODULE SeatStream -----------------------------
(***************************************************************************)
(* The stream of views that packages/networking sends to one seat, up to   *)
(* the view the console shows: the tick broadcast with its skip-send       *)
(* cache, the ring buffer that records the seat's views also while nobody  *)
(* is connected, the snapshot and replay of a reconnect, the frames in     *)
(* flight, and the console's guard against old ticks.                      *)
(*                                                                         *)
(* A view is what `viewsEqual' looks at: the visible cells, and the tick's *)
(* events, of which it compares the numbers only.  Who may take the seat   *)
(* and when its reconnect window lapses is the business of MatchServer;    *)
(* here a seat without a connection may be joined or restored at any time. *)
(***************************************************************************)
EXTENDS Integers, FiniteSets, Sequences

CONSTANTS
    Depth,      \* ResyncBuffer.depth
    MaxTick,    \* bound of the model: ticks of the match
    Cells,      \* contents of visibleCells
    Logs,       \* the events of a tick
    NoLog,      \* those of a view computed without events
    Size,       \* the numbers of events in a log, as viewsEqual sees them
    None

Views == [cells : Cells, log : Logs]
Pictures == [tick : 0..MaxTick, view : Views]

ASSUME StreamAssumption ==
    /\ Depth \in Nat \ {0} /\ MaxTick \in Nat
    /\ NoLog \in Logs
    /\ None \notin Views \cup Pictures

VARIABLES
    entries, firstTick, lastTick,   \* the ResyncBuffer of the seat
    tick,       \* channel.tickCounter
    now,        \* the view of the seat on the current world
    seated,     \* the channel has the seat
    joined,     \* the seat has a connection
    lastSent,   \* channel.lastSentView of that connection
    wire,       \* frames on their way to the client
    shown,      \* the console's latestView with its tick
    over        \* channel.terminalSent

buffer == <<entries, firstTick, lastTick>>
vars == <<entries, firstTick, lastTick, tick, now, seated, joined, lastSent, wire, shown, over>>

Frames == [kind : {"full", "tick"}, tick : 0..MaxTick, view : Views]

TypeOK ==
    /\ DOMAIN entries \subseteq 1..MaxTick
    /\ entries \in [DOMAIN entries -> Views]
    /\ firstTick \in 0..MaxTick /\ lastTick \in -1..MaxTick
    /\ tick \in 0..MaxTick
    /\ now \in Views
    /\ seated \in BOOLEAN /\ joined \in BOOLEAN /\ over \in BOOLEAN
    /\ lastSent \in Views \cup {None}
    /\ wire \in Seq(Frames)
    /\ shown \in Pictures \cup {None}

Empty == [t \in {} |-> t]

Init ==
    /\ entries = Empty /\ firstTick = 0 /\ lastTick = -1
    /\ tick = 0
    /\ \E c \in Cells : now = [cells |-> c, log |-> NoLog]
    /\ seated = TRUE
    /\ joined = FALSE
    /\ lastSent = None
    /\ wire = <<>>
    /\ shown = None
    /\ over = FALSE

----------------------------------------------------------------------------
(* The ring buffer *)

\* Faulty variants, each named for its fault, stand before the definition they
\* vary; the properties are tested against them.
StepTo(t) == {firstTick + 1}
StepBeyond(t) == {t + 1}

\* Where the eviction cursor of push(t) may stop: it walks over the ticks that
\* are not stored, up to t at most.
Stops(t) == {u \in DOMAIN entries : u > firstTick} \cup {t}

\* push(tick, view).  The tick counter only grows, so t is a new tick and
\* beyond the cursor.
Push(t, v) ==
    LET full == Cardinality(DOMAIN entries) >= Depth
        kept == DOMAIN entries \ (IF full THEN {firstTick} ELSE {})
    IN
    /\ IF full
       THEN firstTick' \in Stops(t) /\ \A u \in Stops(t) : firstTick' <= u
       ELSE firstTick' = IF entries = Empty THEN t ELSE firstTick
    /\ lastTick' = IF t > lastTick THEN t ELSE lastTick
    /\ entries' = [u \in kept \cup {t} |-> IF u = t THEN v ELSE entries[u]]

Clear ==
    /\ entries' = Empty
    /\ firstTick' = 0
    /\ lastTick' = -1

NewestFirst(t) ==
    LET due == {u \in DOMAIN entries : u > t} IN
    {s \in [1..Cardinality(due) -> due] : \A i, j \in DOMAIN s : i < j => s[i] > s[j]}

\* What getSince(t) may return: the stored ticks after t, oldest first.
GetSince(t) ==
    LET due == {u \in DOMAIN entries : u > t} IN
    {s \in [1..Cardinality(due) -> due] : \A i, j \in DOMAIN s : i < j => s[i] < s[j]}

----------------------------------------------------------------------------
(* The server *)

AlikeInLog(v, w) == Size[v.log] = Size[w.log]

\* viewsEqual: cell by cell, and the lengths of the event lists.
Alike(v, w) == v.cells = w.cells /\ Size[v.log] = Size[w.log]

Frame(k, t, v) == [kind |-> k, tick |-> t, view |-> v]

\* buildTickBroadcast: the connection is skipped if its last view is alike.
Sends(v) == joined /\ ~(lastSent # None /\ Alike(lastSent, v))

\* sendTickBroadcast, for the seat's connection.
WireAfter(t, v) == IF Sends(v) THEN Append(wire, Frame("tick", t, v)) ELSE wire

\* One tick of the channel: advance, broadcast, record the seat's view whether
\* or not somebody saw it, and, if the match is decided, drop the record.
Tick ==
    /\ ~over
    /\ tick < MaxTick
    /\ tick' = tick + 1
    /\ now' \in Views
    /\ wire' = WireAfter(tick + 1, now')
    /\ lastSent' = IF Sends(now') THEN now' ELSE lastSent
    /\ over' \in BOOLEAN
    /\ IF over' THEN Clear
       ELSE IF seated THEN Push(tick + 1, now') ELSE UNCHANGED buffer
    /\ UNCHANGED <<seated, joined, shown>>

\* The connection goes.  What is in flight may still arrive, until the client
\* opens its next connection.
Cut ==
    /\ joined' = FALSE
    /\ lastSent' = None

\* The pipeline throws, before the counter moved or after, and then before the
\* seat was sent its view or after: connections are closed and the record is
\* dropped.
Crash ==
    /\ ~over
    /\ \/ UNCHANGED <<tick, now, wire>>
       \/ /\ tick < MaxTick /\ tick' = tick + 1
          /\ now' \in Views
          /\ wire' \in {wire, WireAfter(tick + 1, now')}
    /\ over' = TRUE
    /\ Cut
    /\ Clear
    /\ UNCHANGED <<seated, shown>>

\* A join without a reconnect binding: a joinAck with the view of the moment.
Join ==
    /\ seated /\ ~joined
    /\ joined' = TRUE
    /\ lastSent' = None
    /\ wire' = <<Frame("full", tick, [cells |-> now.cells, log |-> NoLog])>>
    /\ UNCHANGED <<entries, firstTick, lastTick, tick, now, seated, shown, over>>

\* restoreReconnectedSeat: the snapshot first, then all the record.
Reconnect ==
    /\ seated /\ ~joined
    /\ joined' = TRUE
    /\ lastSent' = None
    /\ \E stored \in GetSince(0) :
          wire' = <<Frame("full", tick, now)>>
                     \o [i \in DOMAIN stored |-> Frame("tick", stored[i], entries[stored[i]])]
    /\ UNCHANGED <<entries, firstTick, lastTick, tick, now, seated, shown, over>>

\* Transport loss, idle close, or the seat bound to another token by the host.
Lose ==
    /\ joined
    /\ Cut
    /\ UNCHANGED <<entries, firstTick, lastTick, tick, now, seated, wire, shown, over>>

\* The grace sweep detaches the seat and clears its record.
Expire ==
    /\ seated
    /\ seated' = FALSE
    /\ Cut
    /\ Clear
    /\ UNCHANGED <<tick, now, wire, shown, over>>

\* detachPlayer leaves the record alone.
Detach ==
    /\ seated
    /\ seated' = FALSE
    /\ Cut
    /\ UNCHANGED <<entries, firstTick, lastTick, tick, now, wire, shown, over>>

\* attachPlayer brings the seat back, without a connection.
Attach ==
    /\ ~seated
    /\ seated' = TRUE
    /\ UNCHANGED <<entries, firstTick, lastTick, tick, now, joined, lastSent, wire, shown, over>>

----------------------------------------------------------------------------
(* The console *)

TakesAny(frame) == TRUE

\* joined and reconnected replace the view; a tick older than the view shown
\* is dropped.
Takes(frame) == frame.kind = "full" \/ shown = None \/ frame.tick >= shown.tick

Receive ==
    /\ wire # <<>>
    /\ wire' = Tail(wire)
    /\ shown' = IF Takes(Head(wire))
                THEN [tick |-> Head(wire).tick, view |-> Head(wire).view]
                ELSE shown
    /\ UNCHANGED <<entries, firstTick, lastTick, tick, now, seated, joined, lastSent, over>>

Next ==
    \/ Tick \/ Crash \/ Join \/ Reconnect \/ Lose \/ Expire \/ Detach \/ Attach
    \/ Receive

Spec == Init /\ [][Next]_vars

----------------------------------------------------------------------------
(* Properties *)

Retained == INSTANCE NewestEntries WITH kept <- entries, Ticks <- 1..MaxTick

\* The cursors of the ring buffer implement "the newest Depth entries", over
\* gaps, clearings and overwritten matches (resync.ts push and clear).
RetainsNewest == Retained!Spec

\* Once everything in flight has arrived, a connected client shows the current
\* cells: neither the skip-send cache nor the replay of old ticks after the
\* snapshot leaves it behind (broadcast.ts, server.ts restoreReconnectedSeat).
ClientCurrent == joined /\ wire = <<>> => shown # None /\ shown.view.cells = now.cells

\* The ticks in flight to a client ascend, replayed ones before live ones, and
\* none is sent twice (resync.ts getSince; server.ts restoreReconnectedSeat).
StreamOrdered ==
    \A i, j \in DOMAIN wire :
       i < j /\ wire[i].kind = "tick" /\ wire[j].kind = "tick" => wire[i].tick < wire[j].tick

\* What the console shows never goes back in time, over losses and reconnects
\* (reducer.ts; broadcast.ts stamps the tick counter).
ViewNeverGoesBack == [][shown # None => shown'.tick >= shown.tick]_vars

=============================================================================
