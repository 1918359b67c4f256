---------------------------- MODULE LobbyProofs ----------------------------
(***************************************************************************)
(* Proofs about the identity registry and the lobby service, for any       *)
(* guests, handles, connections and matches.                               *)
(*                                                                         *)
(* Handles: every operation of the registry keeps it sound, that is typed, *)
(* exclusive and with no name on an id that is not known, and the lobby    *)
(* changes the registry by those operations only.                          *)
(*                                                                         *)
(* Matches: Agreed relates the matches, the commitments and the rows.  A   *)
(* call leaves them Early, and publishing (Reconcile) makes them agree.    *)
(***************************************************************************)
EXTENDS LobbyService, FiniteSetTheorems, TLAPS

Entry == [status : {"unminted", "active", "grace", "released"},
          handle : Handles \cup {NoHandle}, lapsed : BOOLEAN]

\* A registry that is typed and exclusive, and whose names are those of known ids.
Sound(reg) ==
    /\ reg = [record |-> reg.record, owner |-> reg.owner]
    /\ reg.record \in [Guests -> Entry]
    /\ reg.owner \in [Keys -> Guests \cup {NoGuest}]
    /\ Exclusive(reg)
    /\ \A g \in Guests : ~Known(reg, g) => reg.record[g].handle = NoHandle

\* The registry of a lobby that opens is sound.
LEMMA EmptySound == Sound(Empty)
BY GuestAssumption DEF Sound, Empty, Unminted, Entry, Exclusive, Known

\* What it takes to replace one record: a known id keeps its handle.
LEMMA RecordSound ==
    ASSUME NEW reg, Sound(reg), NEW g \in Guests, NEW r \in Entry,
           r.handle = reg.record[g].handle,
           r.status \in {"unminted", "released"} => r.handle = NoHandle
    PROVE  Sound(WithRecord(reg, g, r))
<1> DEFINE new == WithRecord(reg, g, r)
<1>1. new = [record |-> new.record, owner |-> new.owner] /\ new.owner = reg.owner
  BY DEF WithRecord
<1>2. new.record = [reg.record EXCEPT ![g] = r]
  BY DEF WithRecord
<1> HIDE DEF new
<1>3. new.record \in [Guests -> Entry]
  BY <1>2 DEF Sound
<1>4. \A f \in Guests : new.record[f].handle = reg.record[f].handle
  BY <1>2 DEF Sound
<1>5. Exclusive(new)
  BY <1>1, <1>4 DEF Sound, Exclusive
<1>6. ASSUME NEW f \in Guests, ~Known(new, f)
      PROVE  new.record[f].handle = NoHandle
  <2>1. CASE f = g
    BY <1>2, <1>6, <2>1 DEF Sound, Known, Entry
  <2>2. CASE f # g
    BY <1>2, <1>6, <2>2 DEF Sound, Known
  <2> QED BY <2>1, <2>2
<1>7. Sound(new)
  BY <1>1, <1>3, <1>5, <1>6 DEF Sound
<1> QED BY <1>7 DEF new

\* A sweep releases names and reservations together (sweepExpired).
LEMMA SweptSound ==
    ASSUME NEW reg, Sound(reg)
    PROVE  Sound(Swept(reg))
<1> DEFINE new == Swept(reg)
<1>1. /\ new = [record |-> new.record, owner |-> new.owner]
      /\ new.record = [g \in Guests |-> IF g \in Expired(reg) THEN Released ELSE reg.record[g]]
      /\ new.owner = [k \in Keys |-> IF reg.owner[k] \in Expired(reg) THEN NoGuest ELSE reg.owner[k]]
  BY DEF Swept
<1> HIDE DEF new
<1>2. Released \in Entry /\ Released.handle = NoHandle
  BY DEF Released, Entry
<1>3. new.record \in [Guests -> Entry]
  BY <1>1, <1>2 DEF Sound
<1>4. new.owner \in [Keys -> Guests \cup {NoGuest}]
  BY <1>1 DEF Sound
<1>5. Exclusive(new)
  <2> SUFFICES ASSUME NEW g \in Guests, NEW k \in Keys
               PROVE  new.owner[k] = g <=>
                        new.record[g].handle # NoHandle /\ KeyOf[new.record[g].handle] = k
    BY DEF Exclusive
  <2>1. CASE g \in Expired(reg)
    BY <1>1, <1>2, <2>1, GuestAssumption DEF Sound
  <2>2. CASE g \notin Expired(reg)
    BY <1>1, <2>2, GuestAssumption DEF Sound, Exclusive
  <2> QED BY <2>1, <2>2
<1>6. \A g \in Guests : ~Known(new, g) => new.record[g].handle = NoHandle
  BY <1>1, <1>2 DEF Sound, Known
<1>7. Sound(new)
  BY <1>1, <1>3, <1>4, <1>5, <1>6 DEF Sound
<1> QED BY <1>7 DEF new

\* A new id has no name yet (mintIdentity).
LEMMA NewSound ==
    ASSUME NEW reg, Sound(reg), NEW g \in Guests, ~Known(reg, g)
    PROVE  Sound(WithNew(reg, g))
<1>1. Minted \in Entry /\ Minted.handle = reg.record[g].handle /\ Minted.status = "active"
  BY DEF Sound, Minted, Entry
<1> QED BY <1>1, RecordSound DEF WithNew

\* Coming back keeps the name (restoreIdentity, reactivate).
LEMMA ReactivatedSound ==
    ASSUME NEW reg, Sound(reg), NEW g \in Guests
    PROVE  Sound(Reactivated(reg, g))
<1> DEFINE r == [status |-> "active", handle |-> reg.record[g].handle, lapsed |-> FALSE]
<1>1. r \in Entry
  BY DEF Sound, Entry
<1> QED BY <1>1, RecordSound DEF Reactivated

\* A grace keeps the name (disconnect).
LEMMA DisconnectedSound ==
    ASSUME NEW reg, Sound(reg), NEW g \in Guests
    PROVE  Sound(Disconnected(reg, g))
<1>1. Grace(reg, g, FALSE) \in Entry
  BY DEF Sound, Entry, Grace
<1> QED BY <1>1, RecordSound DEF Disconnected, Grace

\* Time takes no name away before the sweep does.
LEMMA LapsedSound ==
    ASSUME NEW reg, Sound(reg)
    PROVE  Sound(Lapsed(reg))
<1> DEFINE new == Lapsed(reg)
<1>1. /\ new = [record |-> new.record, owner |-> new.owner] /\ new.owner = reg.owner
      /\ new.record = [g \in Guests |-> IF IsInGrace(reg, g) THEN Grace(reg, g, TRUE) ELSE reg.record[g]]
  BY DEF Lapsed
<1> HIDE DEF new
<1>2. new.record \in [Guests -> Entry]
  BY <1>1 DEF Sound, Entry, Grace
<1>3. \A g \in Guests : new.record[g].handle = reg.record[g].handle
  BY <1>1 DEF Grace
<1> HIDE DEF new
<1>4. Exclusive(new)
  <2>1. new.owner = reg.owner /\ Exclusive(reg)
    BY <1>1 DEF Sound
  <2> QED BY <2>1, <1>3 DEF Exclusive
<1>5. \A g \in Guests : ~Known(new, g) => new.record[g].handle = NoHandle
  BY <1>1, <1>3 DEF Sound, Known, Grace, IsInGrace
<1>6. Sound(new)
  BY <1>1, <1>2, <1>4, <1>5 DEF Sound
<1> QED BY <1>6 DEF new

\* A name that is free moves its reservation with it (setHandle).
LEMMA RenamedSound ==
    ASSUME NEW reg, Sound(reg), NEW g \in Guests, NEW h \in Handles,
           Known(reg, g), ~TakenFor(reg, g, h)
    PROVE  Sound(Renamed(reg, g, h))
<1> DEFINE new == Renamed(reg, g, h)
<1>1. /\ new = [record |-> new.record, owner |-> new.owner]
      /\ new.record = [reg.record EXCEPT ![g] = Called(reg, g, h)]
      /\ new.owner = [k \in Keys |-> IF k = KeyOf[h] THEN g
                                     ELSE IF reg.owner[k] = g THEN NoGuest ELSE reg.owner[k]]
  BY DEF Renamed
<1> HIDE DEF new
<1>2. KeyOf[h] \in Keys /\ h # NoHandle
  BY GuestAssumption DEF Keys
<1>3. Called(reg, g, h) \in Entry
  BY DEF Sound, Entry, Called
<1>4. new.record \in [Guests -> Entry] /\ new.owner \in [Keys -> Guests \cup {NoGuest}]
  BY <1>1, <1>3 DEF Sound
<1>5. Exclusive(new)
  <2> SUFFICES ASSUME NEW f \in Guests, NEW k \in Keys
               PROVE  new.owner[k] = f <=>
                        new.record[f].handle # NoHandle /\ KeyOf[new.record[f].handle] = k
    BY DEF Exclusive
  <2>1. CASE f = g
    BY <1>1, <1>2, <2>1, GuestAssumption DEF Sound, Called
  <2>2. CASE f # g
    <3>1. new.record[f] = reg.record[f]
      BY <1>1, <2>2 DEF Sound
    <3>2. reg.owner[KeyOf[h]] # f
      BY <1>2, <2>2, GuestAssumption DEF TakenFor
    <3>3. new.owner[k] = f <=> reg.owner[k] = f
      BY <1>1, <2>2, <3>2, GuestAssumption DEF Sound
    <3> QED BY <3>1, <3>3 DEF Sound, Exclusive
  <2> QED BY <2>1, <2>2
<1>6. \A f \in Guests : ~Known(new, f) => new.record[f].handle = NoHandle
  BY <1>1 DEF Sound, Known, Called
<1>7. Sound(new)
  BY <1>1, <1>4, <1>5, <1>6 DEF Sound
<1> QED BY <1>7 DEF new

----------------------------------------------------------------------------
(* The registry of the lobby *)

ConnectionsTyped == connections \in [Connections -> Guests \cup {NoGuest}]

\* Every call leaves a sound registry: it changes it by the operations above, for
\* guests that are on a connection.
LEMMA RegistryStep ==
    ASSUME Sound(registry), ConnectionsTyped, [Next]_vars
    PROVE  Sound(registry') /\ ConnectionsTyped'
<1> USE DEF ConnectionsTyped
<1>1. CASE UNCHANGED vars
  BY <1>1 DEF vars
<1>2. ASSUME NEW c \in Connections, NEW g \in Guests, Establish(c, g)
      PROVE  Sound(registry') /\ ConnectionsTyped'
  <2> DEFINE swept == Swept(registry)
             established == IF Known(swept, g) THEN Reactivated(swept, g) ELSE WithNew(swept, g)
             before == connections[c]
  <2>1. Sound(swept)
    BY SweptSound
  <2>2. Sound(established)
    BY <2>1, ReactivatedSound, NewSound
  <2>3. registry' = (IF before \notin {NoGuest, g} THEN Disconnected(established, before)
                                                   ELSE established)
    BY <1>2 DEF Establish
  <2> HIDE DEF established
  <2>4. before \notin {NoGuest, g} => before \in Guests
    OBVIOUS
  <2>5. Sound(registry')
    BY <2>2, <2>3, <2>4, DisconnectedSound
  <2>6. ConnectionsTyped'
    BY <1>2 DEF Establish, Bound
  <2> QED BY <2>5, <2>6
<1>3. ASSUME NEW c \in Connections, ConnectionClosed(c)
      PROVE  Sound(registry') /\ ConnectionsTyped'
  <2>1. connections[c] \in Guests /\ registry' = Disconnected(registry, connections[c])
    BY <1>3 DEF ConnectionClosed
  <2>2. ConnectionsTyped'
    BY <1>3 DEF ConnectionClosed
  <2> QED BY <2>1, <2>2, DisconnectedSound
<1>4. ASSUME NEW c \in Connections, NEW h \in Handles, SetHandle(c, h)
      PROVE  Sound(registry') /\ ConnectionsTyped'
  <2> DEFINE swept == Swept(registry)
             g == connections[c]
  <2>1. g \in Guests /\ connections' = connections
    BY <1>4 DEF SetHandle
  <2>2. registry' = (IF Known(swept, g) /\ ~TakenFor(swept, g, h) THEN Renamed(swept, g, h)
                                                                 ELSE swept)
    BY <1>4 DEF SetHandle
  <2>3. Sound(swept)
    BY SweptSound
  <2> HIDE DEF swept
  <2> QED BY <2>1, <2>2, <2>3, RenamedSound
<1>5. ASSUME NEW c \in Connections, SeatDisconnected(c)
      PROVE  Sound(registry') /\ ConnectionsTyped'
  <2>1. connections[c] \in Guests /\ registry' = Disconnected(registry, connections[c])
    BY <1>5 DEF SeatDisconnected
  <2>2. connections' = connections
    BY <1>5 DEF SeatDisconnected
  <2> QED BY <2>1, <2>2, DisconnectedSound
<1>6. ASSUME NEW c \in Connections, SeatReconnected(c)
      PROVE  Sound(registry') /\ ConnectionsTyped'
  <2>1. connections[c] \in Guests /\ ConnectionsTyped'
    BY <1>6 DEF SeatReconnected
  <2>2. registry' = registry \/ registry' = Reactivated(registry, connections[c])
    BY <1>6 DEF SeatReconnected
  <2> QED BY <2>1, <2>2, ReactivatedSound
<1>7. CASE Elapse
  BY <1>7, LapsedSound DEF Elapse
<1>8. ASSUME NEW m \in Matches, NEW i, SeatExpired(m, i)
      PROVE  Sound(registry') /\ ConnectionsTyped'
  BY <1>8 DEF SeatExpired
<1>9. ASSUME NEW c \in Connections,
             \/ Subscribe(c) \/ LeaveAsPlayer(c) \/ LeaveAsSpectator(c)
             \/ \E m \in Matches : Create(c, m) \/ Join(c, m) \/ JoinFails(c, m) \/ Spectate(c, m)
      PROVE  Sound(registry') /\ ConnectionsTyped'
  BY <1>9 DEF Subscribe, LeaveAsPlayer, LeaveAsSpectator, Create, Join, JoinFails, Spectate
<1>10. ASSUME NEW m \in Matches, MatchTerminal(m)
       PROVE  Sound(registry') /\ ConnectionsTyped'
  BY <1>10 DEF MatchTerminal
<1> QED BY <1>1, <1>2, <1>3, <1>4, <1>5, <1>6, <1>7, <1>8, <1>9, <1>10 DEF Next

----------------------------------------------------------------------------
(* A match *)

Last(m) == Capacity[m] - 1

Alive(r) == r.status \in {"filling", "running"}

Seated(r, g) == \E i \in DOMAIN r.seat : r.seat[i] = g

Plays(r, g) == \E i \in DOMAIN r.seat : r.seat[i] = g /\ i \notin r.forfeited

\* A record of the matchmaker: nobody sits twice, seats are taken while the match
\* is alive, the last of them when it starts and not before.
SoundMatch(m, r) ==
    /\ r = [status |-> r.status, seat |-> r.seat, forfeited |-> r.forfeited, overdue |-> r.overdue]
    /\ r.status \in {"absent", "filling", "running", "over"}
    /\ r.seat \in [Seats(m) -> Guests \cup {NoGuest}]
    /\ r.status # "running" => r.forfeited = {}
    /\ r.status \in {"absent", "over"} => \A i \in Seats(m) : r.seat[i] = NoGuest
    /\ r.status = "filling" => r.seat[Last(m)] = NoGuest
    /\ r.status = "running" => \A i \in Seats(m) : r.seat[i] # NoGuest
    /\ \A i, j \in Seats(m) : r.seat[i] = r.seat[j] /\ r.seat[i] # NoGuest => i = j

\* The seats of a match are at most four.
LEMMA SeatsOf ==
    ASSUME NEW m \in Matches
    PROVE  /\ Capacity[m] \in 2 .. 4 /\ Last(m) \in 1 .. 3
           /\ Seats(m) = 0 .. Last(m) /\ 0 \in Seats(m) /\ Last(m) \in Seats(m)
BY LobbyAssumption DEF Seats, Last

\* A match that is over has nobody in it.
LEMMA OverSound ==
    ASSUME NEW m \in Matches, NEW r, SoundMatch(m, r)
    PROVE  /\ SoundMatch(m, Over(r)) /\ Over(r).status = "over"
           /\ \A g \in Guests : ~Plays(Over(r), g) /\ ~Seated(Over(r), g)
<1> DEFINE new == Over(r)
<1>1. /\ new = [status |-> "over", seat |-> new.seat, forfeited |-> {}, overdue |-> FALSE]
      /\ new.seat = [i \in Seats(m) |-> NoGuest]
  BY DEF Over, Record, SoundMatch
<1> HIDE DEF new
<1>2. SoundMatch(m, new) /\ new.status = "over"
  BY <1>1, SeatsOf DEF SoundMatch
<1>3. \A g \in Guests : ~Plays(new, g) /\ ~Seated(new, g)
  BY <1>1, GuestAssumption DEF Plays, Seated
<1> QED BY <1>2, <1>3 DEF new

\* Who plays sits, in a match that is alive.
LEMMA PlaysAlive ==
    ASSUME NEW m \in Matches, NEW r, SoundMatch(m, r), NEW g \in Guests
    PROVE  /\ Plays(r, g) => Seated(r, g)
           /\ Seated(r, g) => Alive(r)
           /\ r.status = "filling" => (Plays(r, g) <=> Seated(r, g))
BY GuestAssumption DEF SoundMatch, Plays, Seated, Alive

\* The first seat is for the one who creates the match (createMatch).
LEMMA OpenedSound ==
    ASSUME NEW m \in Matches, NEW r, SoundMatch(m, r), r.status = "absent", NEW g \in Guests
    PROVE  /\ SoundMatch(m, Opened(r, g)) /\ Opened(r, g).status = "filling"
           /\ \A f \in Guests : Seated(Opened(r, g), f) <=> f = g
           /\ \A f \in Guests : Plays(Opened(r, g), f) <=> f = g
<1> DEFINE new == Opened(r, g)
<1>1. /\ new = [status |-> "filling", seat |-> new.seat, forfeited |-> {}, overdue |-> FALSE]
      /\ new.seat = [i \in Seats(m) |-> IF i = 0 THEN g ELSE NoGuest]
  BY DEF Opened, Record, SoundMatch
<1> HIDE DEF new
<1>2. SoundMatch(m, new)
  BY <1>1, SeatsOf, GuestAssumption DEF SoundMatch
<1>3. \A f \in Guests : Seated(new, f) <=> f = g
  BY <1>1, SeatsOf, GuestAssumption DEF Seated
<1>4. \A f \in Guests : Plays(new, f) <=> f = g
  BY <1>1, SeatsOf, GuestAssumption DEF Plays
<1> QED BY <1>1, <1>2, <1>3, <1>4 DEF new

\* Seats are taken from below: the last one is taken last (joinMatch).
LEMMA LowestIsOpen ==
    ASSUME NEW m \in Matches, NEW r, SoundMatch(m, r), r.status = "filling"
    PROVE  /\ LowestOpen(r) \in Seats(m) /\ r.seat[LowestOpen(r)] = NoGuest
           /\ Open(r) = {LowestOpen(r)} <=> LowestOpen(r) = Last(m)
           /\ \A j \in Open(r) : LowestOpen(r) <= j
<1>1. Last(m) \in Open(r) /\ Open(r) \subseteq 0 .. Last(m)
  BY SeatsOf DEF SoundMatch, Open, Taken
<1>2. \E i \in Open(r) : \A j \in Open(r) : i <= j
  <2> DEFINE O == Open(r)
  <2>1. O \subseteq {0, 1, 2, 3} /\ O # {}
    BY <1>1, SeatsOf
  <2> HIDE DEF O
  <2>2. \E i \in O : \A j \in O : i <= j
    <3>1. CASE 0 \in O
      BY <3>1, <2>1
    <3>2. CASE 0 \notin O /\ 1 \in O
      BY <3>2, <2>1
    <3>3. CASE 0 \notin O /\ 1 \notin O /\ 2 \in O
      BY <3>3, <2>1
    <3>4. CASE 0 \notin O /\ 1 \notin O /\ 2 \notin O
      <4>1. O = {3}
        BY <3>4, <2>1
      <4> QED BY <4>1
    <3> QED BY <3>1, <3>2, <3>3, <3>4
  <2> QED BY <2>2 DEF O
<1>3. LowestOpen(r) \in Open(r) /\ \A j \in Open(r) : LowestOpen(r) <= j
  BY <1>2 DEF LowestOpen
<1>4. LowestOpen(r) \in Seats(m) /\ r.seat[LowestOpen(r)] = NoGuest
  BY <1>3 DEF Open, Taken, SoundMatch
<1>5. LowestOpen(r) = Last(m) => Open(r) = {LowestOpen(r)}
  BY <1>1, <1>3, SeatsOf
<1>6. Open(r) = {LowestOpen(r)} => LowestOpen(r) = Last(m)
  BY <1>1
<1> QED BY <1>3, <1>4, <1>5, <1>6

\* A join seats one more guest, and starts the match on its last seat.
LEMMA SeatedSound ==
    ASSUME NEW m \in Matches, NEW r, SoundMatch(m, r), r.status = "filling",
           NEW g \in Guests, ~Seated(r, g)
    PROVE  /\ SoundMatch(m, SeatedWith(r, g))
           /\ SeatedWith(r, g).status = IF LowestOpen(r) = Last(m) THEN "running" ELSE "filling"
           /\ \A f \in Guests : Seated(SeatedWith(r, g), f) <=> Seated(r, f) \/ f = g
           /\ \A f \in Guests : Plays(SeatedWith(r, g), f) <=> Plays(r, f) \/ f = g
<1> DEFINE new == SeatedWith(r, g)
<1>0. PICK low \in Seats(m) : low = LowestOpen(r) /\ r.seat[low] = NoGuest
  BY LowestIsOpen
<1>1. /\ new = [status |-> IF low = Last(m) THEN "running" ELSE "filling",
                seat |-> new.seat, forfeited |-> {}, overdue |-> FALSE]
      /\ new.seat = [r.seat EXCEPT ![low] = g]
  BY <1>0, LowestIsOpen DEF SeatedWith, Record
<1> HIDE DEF new
<1>2. new.seat = [i \in Seats(m) |-> IF i = low THEN g ELSE r.seat[i]]
  BY <1>1 DEF SoundMatch
<1>3. new.seat \in [Seats(m) -> Guests \cup {NoGuest}]
  BY <1>2 DEF SoundMatch
<1>4. ASSUME new.status = "running" PROVE \A i \in Seats(m) : new.seat[i] # NoGuest
  <2>1. low = Last(m)
    BY <1>1, <1>4
  <2>2. Open(r) = {low}
    BY <1>0, <2>1, LowestIsOpen
  <2> QED BY <1>2, <2>2, GuestAssumption DEF Open, Taken, SoundMatch
<1>5. new.status = "filling" => new.seat[Last(m)] = NoGuest
  BY <1>1, <1>2, SeatsOf DEF SoundMatch
<1>6. \A i, j \in Seats(m) : new.seat[i] = new.seat[j] /\ new.seat[i] # NoGuest => i = j
  BY <1>2 DEF SoundMatch, Seated
<1>7. SoundMatch(m, new)
  BY <1>1, <1>3, <1>4, <1>5, <1>6 DEF SoundMatch
<1>8. \A f \in Guests : Seated(new, f) <=> Seated(r, f) \/ f = g
  BY <1>0, <1>2, GuestAssumption DEF Seated, SoundMatch
<1>9. \A f \in Guests : Plays(new, f) <=> Plays(r, f) \/ f = g
  BY <1>1, <1>7, <1>8, PlaysAlive DEF Plays, Seated, SoundMatch
<1> QED BY <1>0, <1>1, <1>7, <1>8, <1>9 DEF new

\* A seat given up while the match fills; the last one ends it (leaveMatch).
LEMMA VacatedSound ==
    ASSUME NEW m \in Matches, NEW r, SoundMatch(m, r), r.status = "filling",
           NEW g \in Guests, NEW i \in Seats(m), r.seat[i] = g
    PROVE  /\ SoundMatch(m, Vacated(r, i)) /\ Vacated(r, i).status \in {"filling", "over"}
           /\ \A f \in Guests : Seated(Vacated(r, i), f) <=> Seated(r, f) /\ f # g
           /\ \A f \in Guests : Plays(Vacated(r, i), f) <=> Plays(r, f) /\ f # g
<1>1. CASE Taken(r) = {i}
  <2>1. Vacated(r, i) = Over(r)
    BY <1>1 DEF Vacated
  <2>2. \A f \in Guests : Seated(r, f) => f = g
    BY <1>1, GuestAssumption DEF Taken, Seated
  <2> QED BY <2>1, <2>2, OverSound, PlaysAlive
<1>2. CASE Taken(r) # {i}
  <2> DEFINE new == Vacated(r, i)
  <2>1. /\ new = [status |-> "filling", seat |-> new.seat, forfeited |-> {}, overdue |-> FALSE]
        /\ new.seat = [j \in Seats(m) |-> IF j = i THEN NoGuest ELSE r.seat[j]]
    BY <1>2 DEF Vacated, Record, SoundMatch
  <2> HIDE DEF new
  <2>2. SoundMatch(m, new)
    BY <2>1, SeatsOf DEF SoundMatch
  <2>3. \A f \in Guests : Seated(new, f) <=> Seated(r, f) /\ f # g
    BY <2>1, GuestAssumption DEF Seated, SoundMatch
  <2>4. \A f \in Guests : Plays(new, f) <=> Plays(r, f) /\ f # g
    BY <2>1, <2>2, <2>3, PlaysAlive
  <2> QED BY <2>1, <2>2, <2>3, <2>4 DEF new
<1> QED BY <1>1, <1>2

\* A forfeited seat stays taken as long as the match runs.
LEMMA ForfeitedSound ==
    ASSUME NEW m \in Matches, NEW r, SoundMatch(m, r), r.status = "running",
           NEW g \in Guests, NEW i \in Seats(m), r.seat[i] = g, i \notin r.forfeited,
           NEW new \in Forfeited(r, i)
    PROVE  /\ SoundMatch(m, new) /\ new.status \in {"running", "over"}
           /\ \A f \in Guests : Alive(new) => (Seated(new, f) <=> Seated(r, f))
           /\ \A f \in Guests : Plays(new, f) => Plays(r, f) /\ f # g
<1>1. CASE new = Over(r)
  BY <1>1, OverSound DEF Alive
<1>2. CASE new = Marked(r, i)
  <2>1. new = [status |-> "running", seat |-> r.seat, forfeited |-> r.forfeited \cup {i},
               overdue |-> new.overdue]
    BY <1>2 DEF Marked
  <2>2. SoundMatch(m, new)
    BY <2>1 DEF SoundMatch
  <2>3. \A f \in Guests : Seated(new, f) <=> Seated(r, f)
    BY <2>1 DEF Seated
  <2>4. \A f \in Guests : Plays(new, f) => Plays(r, f) /\ f # g
    BY <2>1, GuestAssumption DEF Plays, SoundMatch
  <2> QED BY <2>1, <2>2, <2>3, <2>4
<1> QED BY <1>1, <1>2 DEF Forfeited

\* Who leaves does not play any more, and nobody else is touched (leaveMatch).
LEMMA LeftSound ==
    ASSUME NEW m \in Matches, NEW r, SoundMatch(m, r), Alive(r),
           NEW g \in Guests, NEW i \in Seats(m), r.seat[i] = g, NEW new \in Left(r, i)
    PROVE  /\ SoundMatch(m, new) /\ new.status \in {r.status, "over"}
           /\ \A f \in Guests \ {g} : Alive(new) => (Seated(new, f) <=> Seated(r, f))
           /\ \A f \in Guests : Plays(new, f) => Plays(r, f) /\ f # g
<1>1. CASE r.status = "filling"
  <2>1. new = Vacated(r, i)
    BY <1>1 DEF Left
  <2> QED BY <1>1, <2>1, VacatedSound
<1>2. CASE r.status = "running" /\ i \notin r.forfeited
  <2>1. new \in Forfeited(r, i)
    BY <1>2 DEF Left
  <2> QED BY <1>2, <2>1, ForfeitedSound
<1>3. CASE r.status = "running" /\ i \in r.forfeited
  <2>1. new = r
    BY <1>3 DEF Left
  <2>2. ~Plays(r, g)
    BY <1>3, GuestAssumption DEF Plays, SoundMatch
  <2> QED BY <1>3, <2>1, <2>2
<1> QED BY <1>1, <1>2, <1>3 DEF Alive

----------------------------------------------------------------------------
(* Rows *)

Row == [filled : 1 .. 4, status : {"waiting", "in_progress"}]

\* The row of a match once the lobby has listed it again ...
SoundRow(m, r, row) ==
    /\ row \in Row \cup {NoRow}
    /\ row # NoRow <=> Alive(r)
    /\ r.status = "filling" =>
          /\ row.status = "waiting" /\ row.filled < Capacity[m]
          /\ r.seat[0] # NoGuest => row.filled = Cardinality(Taken(r))
    /\ r.status = "running" => row.status = "in_progress" /\ row.filled = Capacity[m]

\* ... and before, when it may be of a match that is over, or count too few.
EarlyRow(m, r, row) ==
    /\ row \in Row \cup {NoRow}
    /\ row # NoRow => r.status # "absent"
    /\ r.status = "filling" => row # NoRow /\ row.status = "waiting" /\ row.filled < Capacity[m]
    /\ r.status = "running" => row # NoRow /\ row.status = "in_progress" /\ row.filled = Capacity[m]

\* The seats taken of a match that fills are some, and not all.
LEMMA CountOfFilling ==
    ASSUME NEW m \in Matches, NEW r, SoundMatch(m, r), r.status = "filling", r.seat[0] # NoGuest
    PROVE  Cardinality(Taken(r)) \in 1 .. Last(m)
<1>1. Taken(r) \subseteq 0 .. (Last(m) - 1) /\ 0 \in Taken(r)
  BY SeatsOf DEF Taken, SoundMatch
<1>2. IsFiniteSet(0 .. (Last(m) - 1)) /\ Cardinality(0 .. (Last(m) - 1)) = Last(m)
  BY FS_Interval, SeatsOf
<1>3. /\ IsFiniteSet(Taken(r)) /\ Cardinality(Taken(r)) <= Last(m)
      /\ Cardinality(Taken(r)) \in Nat
  BY <1>1, <1>2, FS_Subset, FS_CardinalityType
<1>4. Cardinality(Taken(r)) # 0
  BY <1>1, <1>3, FS_EmptySet
<1> QED BY <1>3, <1>4, SeatsOf

\* Every seat of a running match is taken.
LEMMA CountOfRunning ==
    ASSUME NEW m \in Matches, NEW r, SoundMatch(m, r), r.status = "running"
    PROVE  Cardinality(Taken(r)) = Capacity[m]
<1>1. Taken(r) = 0 .. Last(m)
  BY SeatsOf DEF Taken, SoundMatch
<1>2. Cardinality(0 .. Last(m)) = Last(m) + 1
  BY FS_Interval, SeatsOf
<1> QED BY <1>1, <1>2, SeatsOf DEF Last

\* Listing a match again corrects its row (reconcileFromMatchmaker, onStatusChanged).
LEMMA RowReconciled ==
    ASSUME NEW ms, NEW rows, NEW m \in Matches, NEW r, r = ms[m],
           SoundMatch(m, r), EarlyRow(m, r, rows[m])
    PROVE  SoundRow(m, r, Rows(rows, ms)[m])
<1> DEFINE row == Rows(rows, ms)[m]
<1>1. row = IF rows[m] = NoRow \/ r.status = "over" THEN NoRow
            ELSE IF Listed(r) THEN [filled |-> Cardinality(Taken(r)), status |-> "waiting"]
            ELSE rows[m]
  BY DEF Rows
<1> SUFFICES SoundRow(m, r, row)
  OBVIOUS
<1> HIDE DEF row
<1>2. CASE rows[m] = NoRow \/ r.status = "over"
  BY <1>1, <1>2 DEF SoundRow, EarlyRow, Alive, SoundMatch
<1>3. CASE rows[m] # NoRow /\ r.status = "filling" /\ Listed(r)
  <2>1. Cardinality(Taken(r)) \in 1 .. Last(m)
    BY <1>3, CountOfFilling DEF Listed
  <2>2. row = [filled |-> Cardinality(Taken(r)), status |-> "waiting"]
    BY <1>1, <1>3
  <2>3. row \in Row
    BY <2>1, <2>2, SeatsOf DEF Row
  <2>4. row # NoRow
    BY <2>3, LobbyAssumption DEF Row
  <2>5. row.filled < Capacity[m]
    BY <2>1, <2>2, SeatsOf DEF Last
  <2> QED BY <1>3, <2>2, <2>3, <2>4, <2>5 DEF SoundRow, Alive
<1>4. CASE rows[m] # NoRow /\ r.status = "filling" /\ ~Listed(r)
  <2>1. r.seat[0] = NoGuest
    BY <1>4, SeatsOf DEF Listed, Open, Taken, SoundMatch
  <2> QED BY <1>1, <1>4, <2>1 DEF SoundRow, EarlyRow, Alive
<1>5. CASE rows[m] # NoRow /\ r.status = "running"
  BY <1>1, <1>5 DEF SoundRow, EarlyRow, Alive, Listed
<1> QED BY <1>2, <1>3, <1>4, <1>5 DEF EarlyRow, SoundMatch

----------------------------------------------------------------------------
(* Matches, commitments and rows together *)

Commitment == [match : Matches, role : {"player", "spectator"}]

Playing(m) == [match |-> m, role |-> "player"]

\* What a call leaves to recomputeAndPublish: who plays is committed to it, and
\* commitments and rows may still be those of matches that are over.
Early(ms, pres, rows) ==
    /\ ms = [m \in Matches |-> ms[m]] /\ rows = [m \in Matches |-> rows[m]]
    /\ pres \in [Guests -> Commitment \cup {Free}]
    /\ \A m \in Matches : SoundMatch(m, ms[m]) /\ EarlyRow(m, ms[m], rows[m])
    /\ \A m \in Matches, g \in Guests : Plays(ms[m], g) => pres[g] = Playing(m)
    /\ \A m \in Matches, g \in Guests :
          pres[g] = Playing(m) /\ Alive(ms[m]) => Seated(ms[m], g)
    /\ \A g \in Guests : pres[g] # Free => ms[pres[g].match].status # "absent"

\* What a call leaves: commitments and rows are those of the live matches.
Agreed(ms, pres, rows) ==
    /\ Early(ms, pres, rows)
    /\ \A m \in Matches : SoundRow(m, ms[m], rows[m])
    /\ \A g \in Guests : pres[g] # Free => Alive(ms[pres[g].match])

\* A sound row is good enough before the next call.
LEMMA RowsEarly ==
    ASSUME NEW m \in Matches, NEW r, NEW row, SoundRow(m, r, row)
    PROVE  EarlyRow(m, r, row)
BY DEF SoundRow, EarlyRow, Alive

\* Publishing ends the matches that are overdue, clears the commitments to what is
\* over and lists the rest.
LEMMA Reconciled ==
    ASSUME NEW ms, NEW pres, NEW rows, Early(ms, pres, rows)
    PROVE  Agreed(SweptMatches(ms), Uncommitted(pres, SweptMatches(ms)), Rows(rows, SweptMatches(ms)))
<1> DEFINE after == SweptMatches(ms)
           there == Uncommitted(pres, after)
           shown == Rows(rows, after)
<1>1. after = [m \in Matches |-> after[m]] /\ shown = [m \in Matches |-> shown[m]]
  BY DEF SweptMatches, Rows
<1>2. \A m \in Matches : after[m] = ms[m] \/ after[m] = Over(ms[m])
  BY DEF SweptMatches
<1>3. there = [g \in Guests |-> IF pres[g] # Free /\ after[pres[g].match].status = "over"
                                THEN Free ELSE pres[g]]
  BY DEF Uncommitted
<1> HIDE DEF after, there
<1>4. ASSUME NEW m \in Matches
      PROVE  /\ SoundMatch(m, after[m])
             /\ after[m].status # "over" => after[m] = ms[m]
             /\ ms[m].status # "absent" => after[m].status # "absent"
             /\ \A g \in Guests : Plays(after[m], g) => Plays(ms[m], g) /\ after[m] = ms[m]
             /\ EarlyRow(m, after[m], rows[m])
  <2>1. SoundMatch(m, ms[m]) /\ EarlyRow(m, ms[m], rows[m])
    BY DEF Early
  <2>2. CASE after[m] = ms[m]
    BY <2>1, <2>2
  <2>3. CASE after[m] = Over(ms[m])
    BY <2>1, <2>3, OverSound DEF EarlyRow
  <2> QED BY <1>2, <2>2, <2>3
<1>5. \A m \in Matches : SoundRow(m, after[m], shown[m])
  BY <1>4, RowReconciled
<1> HIDE DEF shown
<1>6. there \in [Guests -> Commitment \cup {Free}]
  BY <1>3 DEF Early
<1>7. ASSUME NEW m \in Matches, NEW g \in Guests, Plays(after[m], g)
      PROVE  there[g] = Playing(m)
  <2>1. pres[g] = Playing(m) /\ after[m] = ms[m]
    BY <1>4, <1>7 DEF Early
  <2>2. Alive(after[m])
    BY <1>4, <1>7, PlaysAlive
  <2> QED BY <1>3, <2>1, <2>2 DEF Playing, Alive
<1>8. ASSUME NEW m \in Matches, NEW g \in Guests, there[g] = Playing(m), Alive(after[m])
      PROVE  Seated(after[m], g)
  <2>1. after[m] = ms[m]
    BY <1>4, <1>8 DEF Alive
  <2>2. there[g] # Free
    BY <1>8, LobbyAssumption DEF Playing
  <2>3. pres[g] = Playing(m)
    BY <1>3, <1>8, <2>2
  <2> QED BY <1>8, <2>1, <2>3 DEF Early
<1>9. ASSUME NEW g \in Guests, there[g] # Free
      PROVE  Alive(after[there[g].match])
  <2>1. there[g] = pres[g] /\ pres[g] # Free /\ after[pres[g].match].status # "over"
    BY <1>3, <1>9
  <2>2. pres[g].match \in Matches
    BY <2>1 DEF Early, Commitment
  <2>3. ms[pres[g].match].status # "absent"
    BY <2>1 DEF Early
  <2> QED BY <1>4, <2>1, <2>2, <2>3 DEF SoundMatch, Alive
<1>10. Early(after, there, shown)
  BY <1>1, <1>4, <1>5, <1>6, <1>7, <1>8, <1>9, RowsEarly DEF Early, Alive
<1>11. Agreed(after, there, shown)
  BY <1>5, <1>9, <1>10 DEF Agreed
<1> QED BY <1>11 DEF after, there, shown

\* A call about one match: what it must see to, so that nobody else's commitment
\* and no other match comes into it.
LEMMA OneMatchChanged ==
    ASSUME NEW ms, NEW pres, NEW rows, Agreed(ms, pres, rows),
           NEW m \in Matches, NEW new, SoundMatch(m, new), new.status # "absent",
           NEW row, EarlyRow(m, new, row),
           NEW after, after = [n \in Matches |-> IF n = m THEN new ELSE ms[n]],
           NEW shown, shown = [n \in Matches |-> IF n = m THEN row ELSE rows[n]],
           NEW there \in [Guests -> Commitment \cup {Free}],
           \A g \in Guests : there[g] \in {Free, pres[g], Playing(m)},
           \A g \in Guests, n \in Matches \ {m} : Plays(ms[n], g) => there[g] = pres[g],
           \A g \in Guests : Plays(new, g) => there[g] = Playing(m),
           \A g \in Guests : there[g] = Playing(m) /\ Alive(new) => Seated(new, g)
    PROVE  Early(after, there, shown)
<1>1. after = [n \in Matches |-> after[n]] /\ shown = [n \in Matches |-> shown[n]]
  OBVIOUS
<1>2. /\ after[m] = new /\ shown[m] = row
      /\ \A n \in Matches \ {m} : after[n] = ms[n] /\ shown[n] = rows[n]
  OBVIOUS
<1>3. /\ Early(ms, pres, rows)
      /\ \A g \in Guests : pres[g] # Free => Alive(ms[pres[g].match])
  BY DEF Agreed
<1>4. \A n \in Matches : SoundMatch(n, after[n]) /\ EarlyRow(n, after[n], shown[n])
  <2>1. \A n \in Matches : SoundMatch(n, ms[n]) /\ EarlyRow(n, ms[n], rows[n])
    BY <1>3 DEF Early
  <2> QED BY <1>2, <2>1
<1>5. ASSUME NEW n \in Matches, NEW g \in Guests, Plays(after[n], g)
      PROVE  there[g] = Playing(n)
  <2>1. CASE n = m
    BY <1>2, <1>5, <2>1
  <2>2. CASE n # m
    BY <1>2, <1>3, <1>5, <2>2 DEF Early
  <2> QED BY <2>1, <2>2
<1>6. ASSUME NEW n \in Matches, NEW g \in Guests, there[g] = Playing(n), Alive(after[n])
      PROVE  Seated(after[n], g)
  <2>1. CASE n = m
    BY <1>2, <1>6, <2>1
  <2>2. CASE n # m
    <3>1. there[g] # Free /\ there[g] # Playing(m)
      BY <1>6, <2>2, LobbyAssumption DEF Playing
    <3>2. pres[g] = Playing(n)
      BY <1>6, <3>1
    <3> QED BY <1>2, <1>3, <1>6, <2>2, <3>2 DEF Early
  <2> QED BY <2>1, <2>2
<1>7. ASSUME NEW g \in Guests, there[g] # Free
      PROVE  after[there[g].match].status # "absent"
  <2>1. CASE there[g].match = m
    BY <1>2, <2>1
  <2>2. CASE there[g].match # m
    <3>1. there[g] = pres[g]
      BY <1>7, <2>2 DEF Playing
    <3>2. pres[g].match \in Matches /\ Alive(ms[pres[g].match])
      BY <1>3, <1>7, <3>1 DEF Commitment
    <3> QED BY <1>2, <2>2, <3>1, <3>2 DEF Alive
  <2> QED BY <2>1, <2>2
<1> QED BY <1>1, <1>4, <1>5, <1>6, <1>7 DEF Early

\* A call that only touches the commitments of who does not play.
LEMMA CommitmentsChanged ==
    ASSUME NEW ms, NEW pres, NEW rows, Agreed(ms, pres, rows),
           NEW there \in [Guests -> Commitment \cup {Free}],
           \A g \in Guests : \/ there[g] \in {Free, pres[g]}
                             \/ there[g].role = "spectator" /\ Alive(ms[there[g].match]),
           \A g \in Guests, m \in Matches : Plays(ms[m], g) => there[g] = pres[g]
    PROVE  Agreed(ms, there, rows)
<1>1. /\ Early(ms, pres, rows) /\ \A m \in Matches : SoundRow(m, ms[m], rows[m])
      /\ \A g \in Guests : pres[g] # Free => Alive(ms[pres[g].match])
  BY DEF Agreed
<1>2. \A m \in Matches, g \in Guests : Plays(ms[m], g) => there[g] = Playing(m)
  BY <1>1 DEF Early
<1>3. ASSUME NEW m \in Matches, NEW g \in Guests, there[g] = Playing(m), Alive(ms[m])
      PROVE  Seated(ms[m], g)
  <2>1. there[g] # Free /\ there[g].role # "spectator"
    BY <1>3, LobbyAssumption DEF Playing
  <2>2. pres[g] = Playing(m)
    BY <1>3, <2>1
  <2> QED BY <1>1, <1>3, <2>2 DEF Early
<1>4. \A g \in Guests : there[g] # Free => Alive(ms[there[g].match])
  BY <1>1
<1>5. Early(ms, there, rows)
  BY <1>1, <1>2, <1>3, <1>4 DEF Early, Alive
<1> QED BY <1>1, <1>4, <1>5 DEF Agreed

\* A match is as sound as another with the same seats and status.
LEMMA SameSeats ==
    ASSUME NEW m \in Matches, NEW q, SoundMatch(m, q), NEW overdue, NEW r,
           r = [status |-> q.status, seat |-> q.seat, forfeited |-> q.forfeited, overdue |-> overdue]
    PROVE  SoundMatch(m, r)
<1>1. r.status = q.status /\ r.seat = q.seat /\ r.forfeited = q.forfeited /\ r.overdue = overdue
  OBVIOUS
<1> QED BY <1>1 DEF SoundMatch

\* Whether a match waits too long makes no difference to who is in it.
LEMMA OverdueChanged ==
    ASSUME NEW ms, NEW pres, NEW rows, Agreed(ms, pres, rows),
           NEW after, after = [m \in Matches |-> after[m]],
           \A m \in Matches :
               after[m] = [status |-> ms[m].status, seat |-> ms[m].seat,
                           forfeited |-> ms[m].forfeited, overdue |-> after[m].overdue]
    PROVE  Agreed(after, pres, rows)
<1>1. /\ Early(ms, pres, rows) /\ \A m \in Matches : SoundRow(m, ms[m], rows[m])
      /\ \A g \in Guests : pres[g] # Free => Alive(ms[pres[g].match])
  BY DEF Agreed
<1>2. \A m \in Matches : /\ after[m].status = ms[m].status /\ after[m].seat = ms[m].seat
                         /\ after[m].forfeited = ms[m].forfeited
  OBVIOUS
<1>3. \A m \in Matches : SoundMatch(m, after[m]) /\ EarlyRow(m, after[m], rows[m])
  <2>1. \A m \in Matches : SoundMatch(m, ms[m]) /\ EarlyRow(m, ms[m], rows[m])
    BY <1>1 DEF Early
  <2>2. \A m \in Matches : EarlyRow(m, after[m], rows[m])
    BY <1>2, <2>1 DEF EarlyRow
  <2>3. ASSUME NEW m \in Matches
        PROVE  SoundMatch(m, after[m])
    BY <2>1, SameSeats
  <2> QED BY <2>2, <2>3
<1>4. \A m \in Matches : SoundRow(m, after[m], rows[m])
  <2>1. \A m \in Matches : Taken(after[m]) = Taken(ms[m])
    BY <1>2 DEF Taken
  <2> QED BY <1>1, <1>2, <2>1 DEF SoundRow, Alive
<1>5. \A m \in Matches, g \in Guests :
        /\ Plays(after[m], g) <=> Plays(ms[m], g)
        /\ Seated(after[m], g) <=> Seated(ms[m], g)
        /\ Alive(after[m]) <=> Alive(ms[m])
  BY <1>2 DEF Plays, Seated, Alive
<1>6. \A g \in Guests : pres[g] # Free => Alive(after[pres[g].match])
  BY <1>1, <1>2 DEF Early, Commitment, Alive
<1>7. Early(after, pres, rows)
  BY <1>1, <1>3, <1>5, <1>6 DEF Early, Alive
<1> QED BY <1>4, <1>6, <1>7 DEF Agreed

----------------------------------------------------------------------------
(* The calls *)

LobbyAgrees == Agreed(match, presence, ledger)

\* Publishing brings the three together again.
LEMMA Published ==
    ASSUME NEW ms, NEW pres, NEW rows, NEW subs, Early(ms, pres, rows),
           Publish(ms, pres, rows, subs) \/ Reconcile(ms, pres, rows)
    PROVE  LobbyAgrees'
<1>1. Reconcile(ms, pres, rows)
  BY DEF Publish
<1>2. match' = SweptMatches(ms) /\ presence' = Uncommitted(pres, SweptMatches(ms))
      /\ ledger' = Rows(rows, SweptMatches(ms))
  BY <1>1 DEF Reconcile
<1> QED BY <1>2, Reconciled DEF LobbyAgrees

\* Committing one guest.
LEMMA CommitTyped ==
    ASSUME LobbyAgrees, NEW g \in Guests, NEW m \in Matches, NEW role \in {"player", "spectator"}
    PROVE  /\ Commit(g, m, role) \in [Guests -> Commitment \cup {Free}]
           /\ Commit(g, m, role)[g] = [match |-> m, role |-> role]
           /\ \A f \in Guests \ {g} : Commit(g, m, role)[f] = presence[f]
BY DEF LobbyAgrees, Agreed, Early, Commit, Commitment

\* Who creates a match is committed to it, with a row that says so.
LEMMA CreateAgrees ==
    ASSUME LobbyAgrees, ConnectionsTyped, NEW c \in Connections, NEW m \in Matches, Create(c, m)
    PROVE  LobbyAgrees'
<1> DEFINE g == connections[c]
           new == Opened(match[m], g)
           row == [filled |-> 1, status |-> "waiting"]
           after == [match EXCEPT ![m] = new]
           shown == [ledger EXCEPT ![m] = row]
           there == Commit(g, m, "player")
<1>1. g \in Guests /\ presence[g] = Free /\ match[m].status = "absent"
  BY DEF Create, MayPlay, ConnectionsTyped
<1>2. Publish(after, there, shown, subscriptions)
  BY DEF Create
<1>3. SoundMatch(m, match[m])
  BY DEF LobbyAgrees, Agreed, Early
<1>4. /\ SoundMatch(m, new) /\ new.status = "filling"
      /\ \A f \in Guests : (Seated(new, f) <=> f = g) /\ (Plays(new, f) <=> f = g)
  BY <1>1, <1>3, OpenedSound
<1>5. EarlyRow(m, new, row)
  BY <1>4, SeatsOf, LobbyAssumption DEF EarlyRow, Row
<1>6. /\ after = [n \in Matches |-> IF n = m THEN new ELSE match[n]]
      /\ shown = [n \in Matches |-> IF n = m THEN row ELSE ledger[n]]
  BY DEF LobbyAgrees, Agreed, Early
<1>7. /\ there \in [Guests -> Commitment \cup {Free}] /\ there[g] = Playing(m)
      /\ \A f \in Guests \ {g} : there[f] = presence[f]
  BY <1>1, CommitTyped DEF Playing
<1> HIDE DEF g, new, row, after, shown, there
<1>8. \A f \in Guests, n \in Matches \ {m} : Plays(match[n], f) => there[f] = presence[f]
  <2>1. \A n \in Matches : ~Plays(match[n], g)
    BY <1>1, LobbyAssumption DEF LobbyAgrees, Agreed, Early, Playing
  <2> QED BY <1>7, <2>1
<1>9. \A f \in Guests : there[f] = Playing(m) => f = g
  <2>1. \A f \in Guests : presence[f] # Playing(m)
    <3>1. ~Alive(match[m])
      BY <1>1 DEF Alive
    <3> QED BY <3>1, LobbyAssumption DEF LobbyAgrees, Agreed, Playing
  <2> QED BY <1>7, <2>1
<1>10. Early(after, there, shown)
  BY <1>4, <1>5, <1>6, <1>7, <1>8, <1>9, OneMatchChanged DEF LobbyAgrees
<1> QED BY <1>2, <1>10, Published

\* Who may play sits nowhere that counts.
LEMMA FreeOfSeats ==
    ASSUME LobbyAgrees, NEW g \in Guests, presence[g] = Free, NEW m \in Matches
    PROVE  ~Plays(match[m], g) /\ (match[m].status = "filling" => ~Seated(match[m], g))
<1>1. ~Plays(match[m], g) /\ SoundMatch(m, match[m])
  BY LobbyAssumption DEF LobbyAgrees, Agreed, Early, Playing
<1> QED BY <1>1, PlaysAlive

\* The row of a join says that the match is on exactly when its last seat is taken.
LEMMA JoinedRowEarly ==
    ASSUME NEW m \in Matches, NEW row \in Row, row.status = "waiting", row.filled < Capacity[m],
           NEW i \in Seats(m), row = ledger[m]
    PROVE  /\ JoinedRow(m, i) \in Row /\ JoinedRow(m, i) # NoRow
           /\ i = Last(m) => JoinedRow(m, i).status = "in_progress"
                             /\ JoinedRow(m, i).filled = Capacity[m]
           /\ i # Last(m) => JoinedRow(m, i).status = "waiting"
                             /\ JoinedRow(m, i).filled < Capacity[m]
<1> DEFINE filled == IF row.filled > i + 1 THEN row.filled ELSE i + 1
           joined == JoinedRow(m, i)
<1>1. joined = [filled |-> filled,
                status |-> IF filled >= Capacity[m] THEN "in_progress" ELSE row.status]
  BY DEF JoinedRow
<1> HIDE DEF joined
<1>2. /\ Capacity[m] \in 2 .. 4 /\ i \in 0 .. (Capacity[m] - 1) /\ row.filled \in 1 .. 4
  BY LobbyAssumption DEF Seats, Row
<1>3. /\ filled \in 1 .. 4
      /\ i = Capacity[m] - 1 => filled = Capacity[m]
      /\ i # Capacity[m] - 1 => filled < Capacity[m]
  BY <1>2
<1> HIDE DEF filled
<1>4. joined \in Row
  BY <1>1, <1>3 DEF Row
<1>5. joined # NoRow
  BY <1>4, LobbyAssumption DEF Row
<1> QED BY <1>1, <1>2, <1>3, <1>4, <1>5 DEF Last, joined

\* Who joins is committed to the match he sits in.
LEMMA JoinAgrees ==
    ASSUME LobbyAgrees, ConnectionsTyped, NEW c \in Connections, NEW m \in Matches, Join(c, m)
    PROVE  LobbyAgrees'
<1> DEFINE g == connections[c]
           new == SeatedWith(match[m], g)
           row == JoinedRow(m, LowestOpen(match[m]))
           after == [match EXCEPT ![m] = new]
           shown == [ledger EXCEPT ![m] = row]
           there == Commit(g, m, "player")
<1>1. g \in Guests /\ presence[g] = Free
  BY DEF Join, MayPlay, ConnectionsTyped
<1>2. Publish(after, there, shown, subscriptions)
  BY DEF Join
<1>3. SoundMatch(m, match[m]) /\ SoundRow(m, match[m], ledger[m])
  BY DEF LobbyAgrees, Agreed, Early
<1>4. /\ match[m].status = "filling" /\ ledger[m] \in Row
      /\ ledger[m].status = "waiting" /\ ledger[m].filled < Capacity[m]
  <2>1. ledger[m] # NoRow /\ ledger[m].status = "waiting"
    BY DEF Join
  <2>2. match[m].status = "filling"
    BY <1>3, <2>1 DEF SoundRow, Alive
  <2> QED BY <1>3, <2>1, <2>2 DEF SoundRow
<1>5. ~Seated(match[m], g) /\ \A n \in Matches : ~Plays(match[n], g)
  BY <1>1, <1>4, FreeOfSeats
<1>6. /\ SoundMatch(m, new)
      /\ new.status = (IF LowestOpen(match[m]) = Last(m) THEN "running" ELSE "filling")
      /\ \A f \in Guests : Seated(new, f) <=> Seated(match[m], f) \/ f = g
      /\ \A f \in Guests : Plays(new, f) <=> Plays(match[m], f) \/ f = g
  BY <1>1, <1>3, <1>4, <1>5, SeatedSound
<1>7. EarlyRow(m, new, row)
  <2>1. LowestOpen(match[m]) \in Seats(m)
    BY <1>3, <1>4, LowestIsOpen
  <2>2. /\ row \in Row /\ row # NoRow
        /\ LowestOpen(match[m]) = Last(m) => row.status = "in_progress" /\ row.filled = Capacity[m]
        /\ LowestOpen(match[m]) # Last(m) => row.status = "waiting" /\ row.filled < Capacity[m]
    BY <1>4, <2>1, JoinedRowEarly
  <2> QED BY <1>6, <2>2 DEF EarlyRow
<1>8. /\ after = [n \in Matches |-> IF n = m THEN new ELSE match[n]]
      /\ shown = [n \in Matches |-> IF n = m THEN row ELSE ledger[n]]
  BY DEF LobbyAgrees, Agreed, Early
<1>9. /\ there \in [Guests -> Commitment \cup {Free}] /\ there[g] = Playing(m)
      /\ \A f \in Guests \ {g} : there[f] = presence[f]
  BY <1>1, CommitTyped DEF Playing
<1> HIDE DEF g, new, row, after, shown, there
<1>10. \A f \in Guests, n \in Matches \ {m} : Plays(match[n], f) => there[f] = presence[f]
  BY <1>5, <1>9
<1>11. \A f \in Guests : Plays(new, f) => there[f] = Playing(m)
  BY <1>6, <1>9 DEF LobbyAgrees, Agreed, Early
<1>12. \A f \in Guests : there[f] = Playing(m) => Seated(new, f)
  <2>1. Alive(match[m])
    BY <1>4 DEF Alive
  <2> QED BY <1>6, <1>9, <2>1 DEF LobbyAgrees, Agreed, Early
<1>13. new.status # "absent" /\ \A f \in Guests : there[f] \in {Free, presence[f], Playing(m)}
  BY <1>6, <1>9
<1>14. Early(after, there, shown)
  BY <1>6, <1>7, <1>8, <1>9, <1>10, <1>11, <1>12, <1>13, OneMatchChanged DEF LobbyAgrees
<1> QED BY <1>2, <1>14, Published

\* Who leaves is free, and plays no more.
LEMMA LeaveAgrees ==
    ASSUME LobbyAgrees, ConnectionsTyped, NEW c \in Connections, LeaveAsPlayer(c)
    PROVE  LobbyAgrees'
<1> DEFINE g == connections[c]
           m == presence[g].match
           i == CHOOSE i \in DOMAIN match[m].seat : match[m].seat[i] = g
           there == [presence EXCEPT ![g] = Free]
<1>1. g \in Guests /\ presence[g] # Free /\ presence[g].role = "player"
  BY DEF LeaveAsPlayer, ConnectionsTyped
<1>0. PICK new \in Left(match[m], i) :
        Publish([match EXCEPT ![m] = new], there, ledger, subscriptions)
  BY DEF LeaveAsPlayer
<1> DEFINE after == [match EXCEPT ![m] = new]
<1>2. Publish(after, there, ledger, subscriptions)
  BY <1>0
<1>3. m \in Matches /\ presence[g] = Playing(m) /\ Alive(match[m])
  BY <1>1 DEF LobbyAgrees, Agreed, Early, Commitment, Playing
<1>4. SoundMatch(m, match[m]) /\ SoundRow(m, match[m], ledger[m]) /\ Seated(match[m], g)
  BY <1>1, <1>3 DEF LobbyAgrees, Agreed, Early
<1>5. i \in Seats(m) /\ match[m].seat[i] = g
  BY <1>4 DEF Seated, SoundMatch
<1> HIDE DEF i
<1>6. /\ SoundMatch(m, new) /\ new.status \in {match[m].status, "over"}
      /\ \A f \in Guests \ {g} : Alive(new) => (Seated(new, f) <=> Seated(match[m], f))
      /\ \A f \in Guests : Plays(new, f) => Plays(match[m], f) /\ f # g
  BY <1>1, <1>3, <1>4, <1>5, LeftSound
<1>7. EarlyRow(m, new, ledger[m])
  BY <1>3, <1>4, <1>6 DEF EarlyRow, SoundRow, Alive
<1>8. /\ after = [n \in Matches |-> IF n = m THEN new ELSE match[n]]
      /\ ledger = [n \in Matches |-> IF n = m THEN ledger[m] ELSE ledger[n]]
  BY <1>3 DEF LobbyAgrees, Agreed, Early
<1>9. /\ there \in [Guests -> Commitment \cup {Free}] /\ there[g] = Free
      /\ \A f \in Guests \ {g} : there[f] = presence[f]
  BY <1>1 DEF LobbyAgrees, Agreed, Early
<1>10. \A n \in Matches \ {m} : ~Plays(match[n], g)
  BY <1>1, <1>3 DEF LobbyAgrees, Agreed, Early, Playing
<1> HIDE DEF g, m, after, there
<1>11. \A f \in Guests, n \in Matches \ {m} : Plays(match[n], f) => there[f] = presence[f]
  BY <1>9, <1>10
<1>12. \A f \in Guests : Plays(new, f) => there[f] = Playing(m)
  BY <1>3, <1>6, <1>9 DEF LobbyAgrees, Agreed, Early
<1>13. \A f \in Guests : there[f] = Playing(m) /\ Alive(new) => Seated(new, f)
  BY <1>3, <1>6, <1>9, LobbyAssumption DEF LobbyAgrees, Agreed, Early, Playing
<1>14. new.status # "absent" /\ \A f \in Guests : there[f] \in {Free, presence[f], Playing(m)}
  BY <1>3, <1>6, <1>9 DEF Alive
<1>15. Early(after, there, ledger)
  BY <1>3, <1>6, <1>7, <1>8, <1>9, <1>11, <1>12, <1>13, <1>14, OneMatchChanged DEF LobbyAgrees
<1> QED BY <1>2, <1>15, Published

\* The end of a match leaves its commitments to be cleared.
LEMMA TerminalAgrees ==
    ASSUME LobbyAgrees, NEW m \in Matches, MatchTerminal(m)
    PROVE  LobbyAgrees'
<1> DEFINE new == Over(match[m])
           after == [match EXCEPT ![m] = new]
<1>1. Publish(after, presence, ledger, subscriptions) /\ match[m].status = "running"
  BY DEF MatchTerminal
<1>2. SoundMatch(m, match[m]) /\ SoundRow(m, match[m], ledger[m])
  BY DEF LobbyAgrees, Agreed, Early
<1>3. SoundMatch(m, new) /\ new.status = "over" /\ \A f \in Guests : ~Plays(new, f)
  BY <1>2, OverSound
<1>4. EarlyRow(m, new, ledger[m])
  BY <1>2, <1>3 DEF EarlyRow, SoundRow
<1>5. /\ after = [n \in Matches |-> IF n = m THEN new ELSE match[n]]
      /\ ledger = [n \in Matches |-> IF n = m THEN ledger[m] ELSE ledger[n]]
      /\ presence \in [Guests -> Commitment \cup {Free}]
  BY DEF LobbyAgrees, Agreed, Early
<1> HIDE DEF new, after
<1>6. ~Alive(new)
  BY <1>3 DEF Alive
<1>7. Early(after, presence, ledger)
  BY <1>3, <1>4, <1>5, <1>6, OneMatchChanged DEF LobbyAgrees
<1> QED BY <1>1, <1>7, Published

\* A seat that expires is forfeited, and who is still there is free.
LEMMA ExpiredAgrees ==
    ASSUME LobbyAgrees, NEW m \in Matches, NEW i \in DOMAIN match[m].seat, SeatExpired(m, i)
    PROVE  LobbyAgrees'
<1>0. PICK new \in Forfeited(match[m], i) :
        LET after == [match EXCEPT ![m] = new]
            kept == Uncommitted(presence, after)
        IN  \E there \in {kept, [kept EXCEPT ![match[m].seat[i]] = Free]} :
                Publish(after, there, ledger, subscriptions')
  BY DEF SeatExpired
<1> DEFINE g == match[m].seat[i]
           after == [match EXCEPT ![m] = new]
           kept == Uncommitted(presence, after)
           freed == [kept EXCEPT ![g] = Free]
<1>1. SoundMatch(m, match[m]) /\ SoundRow(m, match[m], ledger[m])
  BY DEF LobbyAgrees, Agreed, Early
<1>2. /\ match[m].status = "running" /\ i \in Seats(m) /\ i \notin match[m].forfeited
      /\ g \in Guests
  BY <1>1 DEF SeatExpired, InPlay, Taken, SoundMatch
<1>3. PICK there \in {kept, freed} : Publish(after, there, ledger, subscriptions')
  BY <1>0
<1>4. /\ SoundMatch(m, new) /\ new.status \in {"running", "over"}
      /\ \A f \in Guests : Alive(new) => (Seated(new, f) <=> Seated(match[m], f))
      /\ \A f \in Guests : Plays(new, f) => Plays(match[m], f) /\ f # g
  BY <1>1, <1>2, ForfeitedSound
<1>5. EarlyRow(m, new, ledger[m])
  BY <1>1, <1>2, <1>4 DEF EarlyRow, SoundRow, Alive
<1>6. /\ after = [n \in Matches |-> IF n = m THEN new ELSE match[n]]
      /\ ledger = [n \in Matches |-> IF n = m THEN ledger[m] ELSE ledger[n]]
  BY DEF LobbyAgrees, Agreed, Early
<1>7. Plays(match[m], g)
  BY <1>1, <1>2 DEF Plays, SoundMatch
<1>8. \A n \in Matches \ {m} : ~Plays(match[n], g)
  BY <1>2, <1>7 DEF LobbyAgrees, Agreed, Early, Playing
<1>9. kept = [f \in Guests |-> IF presence[f] # Free /\ after[presence[f].match].status = "over"
                               THEN Free ELSE presence[f]]
  BY DEF Uncommitted
<1> HIDE DEF g, after, kept
<1>10. /\ there \in [Guests -> Commitment \cup {Free}]
       /\ \A f \in Guests : there[f] \in {Free, kept[f]} /\ kept[f] \in {Free, presence[f]}
       /\ \A f \in Guests \ {g} : there[f] = kept[f]
  BY <1>2, <1>3, <1>9 DEF LobbyAgrees, Agreed, Early
<1>11. ASSUME NEW f \in Guests, f # g, NEW n \in Matches, Plays(after[n], f)
       PROVE  there[f] = presence[f] /\ presence[f] = Playing(n)
  <2>1. Plays(match[n], f) /\ SoundMatch(n, after[n])
    BY <1>4, <1>6, <1>11 DEF LobbyAgrees, Agreed, Early
  <2>2. presence[f] = Playing(n)
    BY <2>1 DEF LobbyAgrees, Agreed, Early
  <2>3. after[n].status # "over"
    BY <1>11, <2>1, PlaysAlive DEF Alive
  <2> QED BY <1>9, <1>10, <1>11, <2>2, <2>3 DEF Playing
<1>12. \A f \in Guests, n \in Matches \ {m} : Plays(match[n], f) => there[f] = presence[f]
  BY <1>6, <1>8, <1>11
<1>13. \A f \in Guests : Plays(new, f) => there[f] = Playing(m)
  BY <1>4, <1>6, <1>11
<1>14. \A f \in Guests : there[f] = Playing(m) /\ Alive(new) => Seated(new, f)
  <2>1. \A f \in Guests : there[f] = Playing(m) => presence[f] = Playing(m)
    BY <1>10, LobbyAssumption DEF Playing
  <2>2. Alive(match[m])
    BY <1>2 DEF Alive
  <2> QED BY <1>4, <2>1, <2>2 DEF LobbyAgrees, Agreed, Early
<1>15. new.status # "absent" /\ \A f \in Guests : there[f] \in {Free, presence[f], Playing(m)}
  BY <1>4, <1>10
<1>16. Early(after, there, ledger)
  BY <1>4, <1>5, <1>6, <1>10, <1>12, <1>13, <1>14, <1>15, OneMatchChanged DEF LobbyAgrees
<1> QED BY <1>3, <1>16, Published

\* A spectator's commitment goes with his connection.
LEMMA ReleasedAgrees ==
    ASSUME LobbyAgrees, NEW g \in Guests, presence' = PresenceReleased(g),
           match' = match, ledger' = ledger
    PROVE  LobbyAgrees'
<1>1. /\ presence' \in [Guests -> Commitment \cup {Free}]
      /\ \A f \in Guests : presence'[f] \in {Free, presence[f]}
      /\ \A f \in Guests : presence[f] # Free /\ presence[f].role = "player" =>
            presence'[f] = presence[f]
  BY DEF PresenceReleased, LobbyAgrees, Agreed, Early
<1>2. \A f \in Guests, m \in Matches : Plays(match[m], f) => presence'[f] = presence[f]
  BY <1>1, LobbyAssumption DEF LobbyAgrees, Agreed, Early, Playing
<1>3. Agreed(match, presence', ledger)
  BY <1>1, <1>2, CommitmentsChanged DEF LobbyAgrees
<1> QED BY <1>3 DEF LobbyAgrees

\* Every call leaves matches, commitments and rows in agreement.
LEMMA LobbyStep ==
    ASSUME LobbyAgrees, ConnectionsTyped, [Next]_vars
    PROVE  LobbyAgrees'
<1>0. Early(match, presence, ledger)
  BY DEF LobbyAgrees, Agreed
<1>1. CASE UNCHANGED <<match, presence, ledger>>
  BY <1>1 DEF LobbyAgrees
<1>2. ASSUME NEW c \in Connections, NEW g \in Guests, Establish(c, g)
      PROVE  LobbyAgrees'
  <2>1. match' = match /\ ledger' = ledger
    BY <1>2 DEF Establish, Unpublished
  <2>2. presence' = presence \/ \E f \in Guests : presence' = PresenceReleased(f)
    BY <1>2 DEF Establish, ConnectionsTyped
  <2> QED BY <1>1, <2>1, <2>2, ReleasedAgrees
<1>3. ASSUME NEW c \in Connections, ConnectionClosed(c)
      PROVE  LobbyAgrees'
  <2>1. connections[c] \in Guests /\ presence' = PresenceReleased(connections[c])
    BY <1>3 DEF ConnectionClosed, ConnectionsTyped
  <2>2. match' = match /\ ledger' = ledger
    BY <1>3 DEF ConnectionClosed, Unpublished
  <2> QED BY <2>1, <2>2, ReleasedAgrees
<1>4. ASSUME NEW c \in Connections, NEW h \in Handles, SetHandle(c, h)
      PROVE  LobbyAgrees'
  BY <1>1, <1>4 DEF SetHandle, Unpublished
<1>5. ASSUME NEW c \in Connections, Subscribe(c)
      PROVE  LobbyAgrees'
  <2>1. Reconcile(match, presence, ledger)
    BY <1>5 DEF Subscribe
  <2> QED BY <1>0, <2>1, Published
<1>6. ASSUME NEW c \in Connections, SeatDisconnected(c)
      PROVE  LobbyAgrees'
  <2>1. Publish(match, presence, ledger, subscriptions)
    BY <1>6 DEF SeatDisconnected
  <2> QED BY <1>0, <2>1, Published
<1>7. ASSUME NEW c \in Connections, SeatReconnected(c)
      PROVE  LobbyAgrees'
  <2>1. Publish(match, presence, ledger, subscriptions')
    BY <1>7 DEF SeatReconnected
  <2> QED BY <1>0, <2>1, Published
<1>8. ASSUME NEW c \in Connections, LeaveAsSpectator(c)
      PROVE  LobbyAgrees'
  <2>1. /\ connections[c] \in Guests /\ presence[connections[c]] # Free
        /\ presence[connections[c]].role = "spectator"
        /\ presence' = [presence EXCEPT ![connections[c]] = Free]
        /\ match' = match /\ ledger' = ledger
    BY <1>8 DEF LeaveAsSpectator, Unpublished, ConnectionsTyped
  <2>2. presence' = PresenceReleased(connections[c])
    BY <2>1 DEF PresenceReleased
  <2> QED BY <2>1, <2>2, ReleasedAgrees
<1>9. ASSUME NEW c \in Connections, NEW m \in Matches, Spectate(c, m)
      PROVE  LobbyAgrees'
  <2> DEFINE g == connections[c]
             there == Commit(g, m, "spectator")
  <2>1. /\ g \in Guests /\ presence[g] = Free /\ ledger[m] # NoRow
        /\ presence' = there /\ match' = match /\ ledger' = ledger
    BY <1>9 DEF Spectate, Unpublished, ConnectionsTyped
  <2>2. Alive(match[m])
    BY <2>1 DEF LobbyAgrees, Agreed, SoundRow
  <2>3. /\ there \in [Guests -> Commitment \cup {Free}]
        /\ there[g] = [match |-> m, role |-> "spectator"]
        /\ \A f \in Guests \ {g} : there[f] = presence[f]
    BY <2>1, CommitTyped
  <2>4. \A n \in Matches : ~Plays(match[n], g)
    BY <2>1, FreeOfSeats
  <2> HIDE DEF there, g
  <2>5. \A f \in Guests : \/ there[f] \in {Free, presence[f]}
                          \/ there[f].role = "spectator" /\ Alive(match[there[f].match])
    BY <2>2, <2>3
  <2>6. \A f \in Guests, n \in Matches : Plays(match[n], f) => there[f] = presence[f]
    BY <2>3, <2>4
  <2>7. Agreed(match, there, ledger)
    BY <2>3, <2>5, <2>6, CommitmentsChanged DEF LobbyAgrees
  <2> QED BY <2>1, <2>7 DEF LobbyAgrees
<1>10. ASSUME NEW c \in Connections, NEW m \in Matches, JoinFails(c, m)
       PROVE  LobbyAgrees'
  <2>1. /\ match' = [match EXCEPT ![m] = Record("filling", match[m].seat)]
        /\ presence' = presence /\ ledger' = ledger
    BY <1>10 DEF JoinFails
  <2>2. /\ SoundMatch(m, match[m]) /\ SoundRow(m, match[m], ledger[m])
        /\ match = [n \in Matches |-> match[n]]
        /\ \A n \in Matches : SoundMatch(n, match[n])
    BY DEF LobbyAgrees, Agreed, Early
  <2>3. match[m].status = "filling" /\ match[m].forfeited = {}
    BY <1>10, <2>2 DEF JoinFails, SoundRow, SoundMatch, Alive
  <2>4. match' = [n \in Matches |-> match'[n]]
    BY <2>1, <2>2
  <2>5. ASSUME NEW n \in Matches
        PROVE  match'[n] = [status |-> match[n].status, seat |-> match[n].seat,
                            forfeited |-> match[n].forfeited, overdue |-> match'[n].overdue]
    <3>1. CASE n = m
      BY <2>1, <2>2, <2>3, <3>1 DEF Record
    <3>2. CASE n # m
      <4>1. match'[n] = match[n]
        BY <2>1, <2>2, <3>2
      <4> QED BY <2>2, <4>1 DEF SoundMatch
    <3> QED BY <3>1, <3>2
  <2>6. Agreed(match', presence, ledger)
    BY <2>4, <2>5, OverdueChanged DEF LobbyAgrees
  <2> QED BY <2>1, <2>6 DEF LobbyAgrees
<1>11. CASE Elapse
  <2>1. /\ match' = [m \in Matches |->
                       [status |-> match[m].status, seat |-> match[m].seat,
                        forfeited |-> match[m].forfeited, overdue |-> match[m].status = "filling"]]
        /\ presence' = presence /\ ledger' = ledger
    BY <1>11 DEF Elapse
  <2>2. \A m \in Matches :
            match'[m] = [status |-> match[m].status, seat |-> match[m].seat,
                         forfeited |-> match[m].forfeited, overdue |-> match'[m].overdue]
    BY <2>1
  <2>3. match' = [m \in Matches |-> match'[m]]
    BY <2>1
  <2>4. Agreed(match', presence, ledger)
    BY <2>2, <2>3, OverdueChanged DEF LobbyAgrees
  <2> QED BY <2>1, <2>4 DEF LobbyAgrees
<1> QED BY <1>1, <1>2, <1>3, <1>4, <1>5, <1>6, <1>7, <1>8, <1>9, <1>10, <1>11,
           CreateAgrees, JoinAgrees, LeaveAgrees, TerminalAgrees, ExpiredAgrees DEF Next, vars

----------------------------------------------------------------------------
(* The theorems *)

\* A lobby opens with no match, no commitment and no row.
LEMMA LobbyOpens == Init => Sound(registry) /\ ConnectionsTyped /\ LobbyAgrees
<1> SUFFICES ASSUME Init PROVE Sound(registry) /\ ConnectionsTyped /\ LobbyAgrees
  OBVIOUS
<1>1. Sound(registry) /\ ConnectionsTyped
  BY EmptySound DEF Init, ConnectionsTyped
<1>2. ASSUME NEW m \in Matches
      PROVE  /\ SoundMatch(m, match[m]) /\ match[m].status = "absent"
             /\ SoundRow(m, match[m], ledger[m])
             /\ \A g \in Guests : ~Plays(match[m], g)
  <2> DEFINE r == match[m]
  <2>1. /\ r = [status |-> "absent", seat |-> r.seat, forfeited |-> {}, overdue |-> FALSE]
        /\ r.seat = [i \in Seats(m) |-> NoGuest] /\ ledger[m] = NoRow
    BY DEF Init, NoMatch, Record
  <2> HIDE DEF r
  <2>2. SoundMatch(m, r)
    BY <2>1, SeatsOf DEF SoundMatch
  <2>3. SoundRow(m, r, ledger[m])
    BY <2>1 DEF SoundRow, Alive
  <2>4. \A g \in Guests : ~Plays(r, g)
    BY <2>1, GuestAssumption DEF Plays
  <2> QED BY <2>1, <2>2, <2>3, <2>4 DEF r
<1>3. \A m \in Matches : EarlyRow(m, match[m], ledger[m])
  BY <1>2, RowsEarly
<1>4. /\ match = [m \in Matches |-> match[m]] /\ ledger = [m \in Matches |-> ledger[m]]
      /\ presence \in [Guests -> Commitment \cup {Free}] /\ \A g \in Guests : presence[g] = Free
  BY DEF Init
<1>5. \A m \in Matches : Free # Playing(m)
  BY LobbyAssumption DEF Playing
<1>6. Early(match, presence, ledger)
  BY <1>2, <1>3, <1>4, <1>5 DEF Early
<1>7. LobbyAgrees
  BY <1>2, <1>4, <1>6 DEF LobbyAgrees, Agreed
<1> QED BY <1>1, <1>7

\* Registry, connections, matches, commitments and rows stay in agreement.
THEOREM LobbyKept == Spec => [](Sound(registry) /\ ConnectionsTyped /\ LobbyAgrees)
<1> DEFINE IInv == Sound(registry) /\ ConnectionsTyped /\ LobbyAgrees
<1>1. Init => IInv
  BY LobbyOpens
<1>2. IInv /\ [Next]_vars => IInv'
  BY RegistryStep, LobbyStep
<1> QED BY <1>1, <1>2, PTL DEF Spec

\* No two guests go by the same name, and no name is reserved for nobody, for any
\* number of guests, handles and connections (identityRegistry.ts, FR-006).
THEOREM HandlesStayExclusive == Spec => []HandlesExclusive
<1>1. Sound(registry) => HandlesExclusive
  BY DEF Sound, HandlesExclusive
<1> QED BY <1>1, LobbyKept, PTL

\* Who plays is committed to that match and to no other, and nobody is committed
\* to a match that is over, for any guests and matches (guardFree,
\* clearPresenceForMatch, onSeatExpired).
THEOREM OneMatchAtATime == Spec => []OneMatchEach
<1>1. ASSUME LobbyAgrees PROVE OneMatchEach
  <2> SUFFICES ASSUME NEW g \in Guests, NEW m \in Matches
               PROVE  /\ Live(m) /\ (\E i \in InPlay(match[m]) : match[m].seat[i] = g) =>
                            Committed(g, m, "player")
                      /\ presence[g] # Free /\ presence[g].match = m => Live(m)
    BY DEF OneMatchEach
  <2>1. (\E i \in InPlay(match[m]) : match[m].seat[i] = g) => Plays(match[m], g)
    BY DEF InPlay, Taken, Plays
  <2>2. Plays(match[m], g) => presence[g] = Playing(m)
    BY <1>1 DEF LobbyAgrees, Agreed, Early
  <2>3. presence[g] # Free => Alive(match[presence[g].match])
    BY <1>1 DEF LobbyAgrees, Agreed
  <2> QED BY <2>1, <2>2, <2>3 DEF Committed, Playing, Live, Alive
<1> QED BY <1>1, LobbyKept, PTL

\* The rows are those of the live matches, with their status and their seats
\* counted (reconcileFromMatchmaker, join, onStatusChanged).
THEOREM RowsStayTruthful == Spec => []RowsTruthful
<1>1. ASSUME LobbyAgrees PROVE RowsTruthful
  <2> SUFFICES ASSUME NEW m \in Matches
               PROVE  /\ ledger[m] # NoRow <=> Live(m)
                      /\ Live(m) => /\ ledger[m].status = "in_progress" <=> match[m].status = "running"
                                    /\ match[m].seat[0] # NoGuest =>
                                          ledger[m].filled = Cardinality(Taken(match[m]))
    BY DEF RowsTruthful
  <2>1. SoundMatch(m, match[m]) /\ SoundRow(m, match[m], ledger[m])
    BY <1>1 DEF LobbyAgrees, Agreed, Early
  <2>2. match[m].status = "running" => Cardinality(Taken(match[m])) = Capacity[m]
    BY <2>1, CountOfRunning
  <2> QED BY <2>1, <2>2 DEF SoundRow, Live, Alive
<1> QED BY <1>1, LobbyKept, PTL

\* A guest is on one connection, and subscribers are on one (bindConnection,
\* releaseConnection, onSeatExpired).
LEMMA BindingStep ==
    ASSUME ConnectionsTyped, [Next]_vars,
           subscriptions \subseteq {c \in Connections : connections[c] # NoGuest},
           \A c, d \in Connections : connections[c] = connections[d] /\ c # d => connections[c] = NoGuest
    PROVE  /\ subscriptions' \subseteq {c \in Connections : connections'[c] # NoGuest}
           /\ \A c, d \in Connections :
                connections'[c] = connections'[d] /\ c # d => connections'[c] = NoGuest
<1> DEFINE Goal == /\ subscriptions' \subseteq {c \in Connections : connections'[c] # NoGuest}
                   /\ \A c, d \in Connections :
                        connections'[c] = connections'[d] /\ c # d => connections'[c] = NoGuest
<1> USE DEF ConnectionsTyped
<1>1. CASE UNCHANGED <<connections, subscriptions>>
  BY <1>1
<1>2. ASSUME NEW c \in Connections, NEW g \in Guests, Establish(c, g) PROVE Goal
  <2>1. /\ connections' = [d \in Connections |-> IF d = c THEN g
                               ELSE IF connections[d] = g THEN NoGuest ELSE connections[d]]
        /\ subscriptions' = {d \in subscriptions : IF d = c THEN connections[c] \in {NoGuest, g}
                                                             ELSE connections[d] # g}
    BY <1>2 DEF Establish, Bound
  <2>2. \A d \in subscriptions' : connections'[d] # NoGuest
    BY <2>1, GuestAssumption
  <2>3. \A d, e \in Connections :
            connections'[d] = connections'[e] /\ d # e => connections'[d] = NoGuest
    BY <2>1
  <2> QED BY <2>1, <2>2, <2>3
<1>3. ASSUME NEW c \in Connections,
             ConnectionClosed(c) \/ SeatReconnected(c)
      PROVE  Goal
  <2>1. \/ connections' = connections /\ subscriptions' = subscriptions
        \/ /\ connections' = [connections EXCEPT ![c] = NoGuest]
           /\ subscriptions' = subscriptions \ {c}
    BY <1>3 DEF ConnectionClosed, SeatReconnected
  <2> QED BY <2>1
<1>4. ASSUME NEW c \in Connections, Subscribe(c) PROVE Goal
  BY <1>4 DEF Subscribe
<1>5. ASSUME NEW m \in Matches, NEW i, SeatExpired(m, i) PROVE Goal
  <2>1. PICK cut \in SUBSET Connections :
           /\ connections' = [c \in Connections |-> IF c \in cut THEN NoGuest ELSE connections[c]]
           /\ subscriptions' = subscriptions \ cut
    BY <1>5 DEF SeatExpired
  <2> QED BY <2>1
<1>6. ASSUME NEW c \in Connections,
             \/ LeaveAsPlayer(c) \/ LeaveAsSpectator(c) \/ SeatDisconnected(c)
             \/ \E h \in Handles : SetHandle(c, h)
             \/ \E m \in Matches : Create(c, m) \/ Join(c, m) \/ JoinFails(c, m) \/ Spectate(c, m)
      PROVE  Goal
  BY <1>1, <1>6 DEF LeaveAsPlayer, LeaveAsSpectator, SeatDisconnected, SetHandle, Create, Join,
                    JoinFails, Spectate
<1>7. ASSUME NEW m \in Matches, MatchTerminal(m) PROVE Goal
  BY <1>1, <1>7 DEF MatchTerminal
<1>8. CASE Elapse
  BY <1>1, <1>8 DEF Elapse
<1> QED BY <1>1, <1>2, <1>3, <1>4, <1>5, <1>6, <1>7, <1>8 DEF Next, vars

\* The lobby's state is typed, and a guest is on one connection at a time.
THEOREM LobbyTyped == Spec => []TypeOK
<1> DEFINE BInv ==
        /\ subscriptions \subseteq {c \in Connections : connections[c] # NoGuest}
        /\ \A c, d \in Connections :
              connections[c] = connections[d] /\ c # d => connections[c] = NoGuest
<1>1. Init => BInv
  BY DEF Init
<1>2. ConnectionsTyped /\ BInv /\ [Next]_vars => BInv'
  BY BindingStep
<1>3. Sound(registry) /\ ConnectionsTyped /\ LobbyAgrees /\ BInv => TypeOK
  <2> SUFFICES ASSUME Sound(registry), ConnectionsTyped, LobbyAgrees, BInv PROVE TypeOK
    OBVIOUS
  <2>1. RegistryTyped(registry)
    BY DEF Sound, RegistryTyped, Entry
  <2>2. presence \in [Guests -> Commitment \cup {Free}]
    BY DEF LobbyAgrees, Agreed, Early
  <2>3. ledger \in [Matches -> Row \cup {NoRow}]
    BY DEF LobbyAgrees, Agreed, Early, SoundRow
  <2> QED BY <2>1, <2>2, <2>3 DEF TypeOK, Commitment, Row, ConnectionsTyped
<1> QED BY <1>1, <1>2, <1>3, LobbyKept, PTL DEF Spec

\* Every subscriber was last sent the rows that are current (broadcastSnapshots,
\* subscribe).
THEOREM SubscribersStayCurrent == Spec => []SubscribersCurrent
<1> DEFINE SInv == /\ told = [c \in Connections |-> told[c]]
                   /\ \A c \in subscriptions : told[c] = ledger
                   /\ subscriptions \subseteq Connections
<1>1. Init => SInv
  BY DEF Init
<1>2. ASSUME SInv, NEW ms, NEW pres, NEW rows, subscriptions' \subseteq subscriptions,
             Publish(ms, pres, rows, subscriptions')
      PROVE  SInv'
  BY <1>2 DEF Publish, Told
<1>3. ASSUME SInv, [Next]_vars
      PROVE  SInv'
  <2>1. CASE subscriptions' \subseteq subscriptions /\ UNCHANGED <<ledger, told>>
    BY <1>3, <2>1
  <2>2. ASSUME NEW c \in Connections, Subscribe(c) PROVE SInv'
    BY <1>3, <2>2 DEF Subscribe, Told
  <2>3. ASSUME NEW c \in Connections, NEW g \in Guests, Establish(c, g) PROVE SInv'
    BY <2>1, <2>3 DEF Establish, Unpublished
  <2>4. ASSUME NEW c \in Connections,
               \/ ConnectionClosed(c) \/ LeaveAsSpectator(c)
               \/ \E h \in Handles : SetHandle(c, h)
               \/ \E m \in Matches : JoinFails(c, m) \/ Spectate(c, m)
        PROVE  SInv'
    BY <2>1, <2>4 DEF ConnectionClosed, LeaveAsSpectator, SetHandle, JoinFails, Spectate, Unpublished
  <2>5. ASSUME NEW c \in Connections, NEW m \in Matches, Create(c, m) \/ Join(c, m)
        PROVE  SInv'
    BY <1>2, <1>3, <2>5 DEF Create, Join
  <2>6. ASSUME NEW c \in Connections,
               LeaveAsPlayer(c) \/ SeatDisconnected(c) \/ SeatReconnected(c)
        PROVE  SInv'
    BY <1>2, <1>3, <2>6 DEF LeaveAsPlayer, SeatDisconnected, SeatReconnected
  <2>7. ASSUME NEW m \in Matches, NEW i, SeatExpired(m, i) PROVE SInv'
    BY <1>2, <1>3, <2>7 DEF SeatExpired
  <2>8. ASSUME NEW m \in Matches, MatchTerminal(m) PROVE SInv'
    BY <1>2, <1>3, <2>8 DEF MatchTerminal
  <2>9. CASE Elapse
    BY <2>1, <2>9 DEF Elapse
  <2> QED BY <1>3, <2>1, <2>2, <2>3, <2>4, <2>5, <2>6, <2>7, <2>8, <2>9 DEF Next, vars
<1>4. SInv => SubscribersCurrent
  BY DEF SubscribersCurrent
<1> QED BY <1>1, <1>3, <1>4, PTL DEF Spec

----------------------------------------------------------------------------
(* What the matchmaker promises its callers *)

\* What of a record the promise is about.
Seen(r) == [status |-> r.status, seat |-> r.seat, forfeited |-> r.forfeited]

LEMMA RecordsSeen ==
    /\ SeatRecords = [m \in Matches |-> Seen(match[m])]
    /\ SeatRecords' = [m \in Matches |-> Seen(match'[m])]
BY DEF SeatRecords, Seen

LEMMA SoundMatches ==
    ASSUME LobbyAgrees, NEW m \in Matches
    PROVE  SoundMatch(m, match[m]) /\ Promised!Indices(m) = Seats(m)
BY DEF LobbyAgrees, Agreed, Early, Promised!Indices, Seats

\* A match that is over is over.
LEMMA OverSeen ==
    ASSUME NEW m \in Matches, NEW r, SoundMatch(m, r)
    PROVE  Seen(Over(r)) = Promised!Over(m)
BY DEF SoundMatch, Over, Record, Seen, Promised!Over, Promised!With, Promised!Empty,
       Promised!Indices, Seats

\* A call that at most ends waiting matches keeps the promise.
LEMMA OnlyExpiries ==
    ASSUME LobbyAgrees,
           \A k \in Matches : \/ Seen(match'[k]) = Seen(match[k])
                              \/ match[k].status = "filling" /\ match'[k] = Over(match[k])
    PROVE  Promised!Next
<1> DEFINE gone == {k \in Matches : match[k].status = "filling" /\ match'[k] = Over(match[k])}
<1>1. gone \in SUBSET Promised!Waiting
  BY RecordsSeen DEF Promised!Waiting, Seen
<1>2. ASSUME NEW k \in Matches
      PROVE  SeatRecords'[k] = IF k \in gone THEN Promised!Over(k) ELSE SeatRecords[k]
  BY RecordsSeen, SoundMatches, OverSeen
<1>3. SeatRecords' = Promised!Without(gone)
  <2> HIDE DEF gone
  <2> QED BY <1>2, RecordsSeen DEF Promised!Without
<1> QED BY <1>1, <1>3 DEF Promised!Next, Promised!Call

\* So does one that besides brings one match to one of its outcomes.
LEMMA OneOutcome ==
    ASSUME LobbyAgrees, NEW m \in Matches, Seen(match'[m]) \in Promised!Outcomes(m),
           \A k \in Matches \ {m} :
              \/ match'[k] = match[k]
              \/ match[k].status = "filling" /\ match'[k] = Over(match[k])
    PROVE  Promised!Next
<1> DEFINE gone == {k \in Matches \ {m} :
                       match[k].status = "filling" /\ match'[k] = Over(match[k])}
<1>1. gone \in SUBSET Promised!Waiting /\ m \in Matches \ gone
  BY RecordsSeen DEF Promised!Waiting, Seen
<1>2. ASSUME NEW k \in Matches \ {m}
      PROVE  SeatRecords'[k] = IF k \in gone THEN Promised!Over(k) ELSE SeatRecords[k]
  BY RecordsSeen, SoundMatches, OverSeen
<1>3. SeatRecords'[m] \in Promised!Outcomes(m)
  BY RecordsSeen
<1>4. SeatRecords' = [Promised!Without(gone) EXCEPT ![m] = SeatRecords'[m]]
  <2> HIDE DEF gone
  <2> QED BY <1>2, RecordsSeen DEF Promised!Without
<1> QED BY <1>1, <1>3, <1>4 DEF Promised!Next, Promised!Call

\* A call that leaves a match to publishing, which sweeps the others.
LEMMA PublishPromised ==
    ASSUME LobbyAgrees, NEW m \in Matches, NEW new,
           Seen(new) \in Promised!Outcomes(m) \cup {Seen(match[m])},
           ~(new.status = "filling" /\ new.overdue),
           match' = SweptMatches([match EXCEPT ![m] = new])
    PROVE  Promised!Next
<1> DEFINE after == [match EXCEPT ![m] = new]
<1>1. after[m] = new /\ \A k \in Matches \ {m} : after[k] = match[k]
  BY DEF LobbyAgrees, Agreed, Early
<1>2. match' = SweptMatches(after)
  OBVIOUS
<1> HIDE DEF after
<1>3. match'[m] = new
  BY <1>1, <1>2 DEF SweptMatches, Due
<1>4. ASSUME NEW k \in Matches \ {m}
      PROVE  \/ match'[k] = match[k]
             \/ match[k].status = "filling" /\ match'[k] = Over(match[k])
  BY <1>1, <1>2 DEF SweptMatches, Due
<1> QED BY <1>3, <1>4, OneOutcome, OnlyExpiries

\* A call that only publishes.
LEMMA SweepPromised ==
    ASSUME LobbyAgrees, match' = SweptMatches(match)
    PROVE  Promised!Next
<1>1. ASSUME NEW k \in Matches
      PROVE  match'[k] = match[k] \/ (match[k].status = "filling" /\ match'[k] = Over(match[k]))
  BY DEF SweptMatches, Due
<1> QED BY <1>1, OnlyExpiries

\* A guest who is committed to nothing is free to enter a match.
LEMMA FreeGuestIdle ==
    ASSUME LobbyAgrees, NEW g \in Guests, presence[g] = Free
    PROVE  g \in Promised!Idle
<1>1. \A m \in Matches : ~Plays(match[m], g) /\ DOMAIN match[m].seat = Promised!Indices(m)
  BY FreeOfSeats, SoundMatches DEF SoundMatch
<1> QED BY <1>1, RecordsSeen DEF Promised!Idle, Plays, Seen

\* Creating a match opens it on its first seat.
LEMMA CreatePromised ==
    ASSUME LobbyAgrees, ConnectionsTyped, NEW c \in Connections, NEW m \in Matches, Create(c, m)
    PROVE  Promised!Next
<1> DEFINE g == connections[c]
           new == Opened(match[m], g)
<1>1. /\ g \in Guests /\ presence[g] = Free /\ match[m].status = "absent"
      /\ match' = SweptMatches([match EXCEPT ![m] = new])
  BY DEF Create, MayPlay, ConnectionsTyped, Publish, Reconcile
<1>2. match[m].seat = Promised!Empty(m)
  <2>1. SoundMatch(m, match[m]) /\ Promised!Indices(m) = Seats(m)
    BY SoundMatches
  <2>2. /\ match[m].seat \in [Seats(m) -> Guests \cup {NoGuest}]
        /\ \A i \in Seats(m) : match[m].seat[i] = NoGuest
    BY <1>1, <2>1 DEF SoundMatch
  <2>3. match[m].seat = [i \in Seats(m) |-> NoGuest]
    BY <2>2
  <2> QED BY <2>1, <2>3 DEF Promised!Empty
<1>3. /\ Seen(new) = Promised!With("filling", [Promised!Empty(m) EXCEPT ![0] = g])
      /\ ~new.overdue
  BY <1>2 DEF Opened, Record, Seen, Promised!With
<1>4. Seen(new) \in Promised!Created(m)
  BY <1>1, <1>3, FreeGuestIdle DEF Promised!Created
<1>5. SeatRecords[m].status = "absent"
  BY <1>1, RecordsSeen DEF Seen
<1>6. Seen(new) \in Promised!Outcomes(m)
  BY <1>4, <1>5 DEF Promised!Outcomes
<1> HIDE DEF new
<1> QED BY <1>1, <1>3, <1>6, PublishPromised

\* A join takes the lowest open seat, and starts the match with the last one.
LEMMA JoinPromised ==
    ASSUME LobbyAgrees, ConnectionsTyped, NEW c \in Connections, NEW m \in Matches, Join(c, m)
    PROVE  Promised!Next
<1> DEFINE g == connections[c]
           r == match[m]
           new == SeatedWith(r, g)
<1>1. /\ g \in Guests /\ presence[g] = Free
      /\ match' = SweptMatches([match EXCEPT ![m] = new])
  BY DEF Join, MayPlay, ConnectionsTyped, Publish, Reconcile
<1>2. SoundMatch(m, r) /\ r.status = "filling"
  <2>1. ledger[m] # NoRow /\ ledger[m].status = "waiting"
    BY DEF Join
  <2> QED BY <2>1 DEF LobbyAgrees, Agreed, Early, SoundRow, Alive
<1>3. /\ SeatRecords[m].seat = r.seat /\ SeatRecords[m].status = "filling"
      /\ Promised!Open(m) = Open(r)
  <2>1. SeatRecords[m].seat = r.seat /\ SeatRecords[m].status = "filling"
    BY <1>2, RecordsSeen DEF Seen
  <2> QED BY <1>2, <2>1, SoundMatches
          DEF Promised!Open, Promised!Taken, Open, Taken, SoundMatch
<1>4. PICK low \in Open(r) : low = LowestOpen(r) /\ \A j \in Open(r) : low <= j
  BY <1>2, LowestIsOpen DEF Open, Taken, SoundMatch
<1>5. /\ Seen(new) = Promised!With(IF Open(r) = {low} THEN "running" ELSE "filling",
                                  [r.seat EXCEPT ![low] = g])
      /\ ~new.overdue
  BY <1>4 DEF SeatedWith, Record, Seen, Promised!With
<1>6. g \in Promised!Idle
  BY <1>1, FreeGuestIdle
<1> HIDE DEF new, g, r
<1>7. Seen(new) \in Promised!Joined(m)
  BY <1>3, <1>4, <1>5, <1>6 DEF Promised!Joined
<1>8. Seen(new) \in Promised!Outcomes(m)
  BY <1>3, <1>7 DEF Promised!Outcomes
<1> QED BY <1>1, <1>5, <1>8, PublishPromised

\* A forfeit marks a seat while another is in play, or ends the match.
LEMMA ForfeitOutcome ==
    ASSUME LobbyAgrees, NEW m \in Matches, match[m].status = "running",
           NEW i \in Seats(m), i \notin match[m].forfeited, NEW new \in Forfeited(match[m], i)
    PROVE  Seen(new) \in Promised!Outcomes(m) /\ new.status # "filling"
<1> DEFINE r == match[m]
<1>1. SoundMatch(m, r) /\ Promised!Indices(m) = Seats(m)
  BY SoundMatches
<1>2. SeatRecords[m] = Seen(r)
  BY RecordsSeen
<1>3. CASE new = Over(r)
  <2>1. Seen(new) = Promised!Over(m) /\ new.status = "over"
    BY <1>1, <1>3, OverSeen DEF Over, Record
  <2> QED BY <1>2, <2>1 DEF Promised!Outcomes, Seen
<1>4. CASE new = Marked(r, i) /\ InPlay(r) # {i}
  <2>1. InPlay(r) = Seats(m) \ r.forfeited
    BY <1>1 DEF InPlay, Taken, SoundMatch
  <2>2. /\ Seen(new) = [Seen(r) EXCEPT !.forfeited = @ \cup {i}]
        /\ new.status = "running"
    BY <1>4 DEF Marked, Seen
  <2>3. Seen(r).forfeited = r.forfeited /\ Seen(r).status = "running"
    BY DEF Seen
  <2>4. Seen(new) \in Promised!Forfeited(m)
    BY <1>1, <1>2, <1>4, <2>1, <2>2, <2>3 DEF Promised!Forfeited
  <2> QED BY <1>2, <2>2, <2>3, <2>4 DEF Promised!Outcomes
<1> QED BY <1>3, <1>4 DEF Forfeited

\* Who leaves frees his seat while the match fills, and forfeits it while it runs.
LEMMA LeavePromised ==
    ASSUME LobbyAgrees, ConnectionsTyped, NEW c \in Connections, LeaveAsPlayer(c)
    PROVE  Promised!Next
<1> DEFINE g == connections[c]
           m == presence[g].match
           i == CHOOSE i \in DOMAIN match[m].seat : match[m].seat[i] = g
           r == match[m]
<1>1. g \in Guests /\ presence[g] # Free /\ presence[g].role = "player"
  BY DEF LeaveAsPlayer, ConnectionsTyped
<1>2. PICK new \in Left(r, i) : match' = SweptMatches([match EXCEPT ![m] = new])
  BY DEF LeaveAsPlayer, Publish, Reconcile
<1>3. m \in Matches /\ Alive(r) /\ Seated(r, g)
  BY <1>1 DEF LobbyAgrees, Agreed, Early, Commitment, Playing
<1>4. SoundMatch(m, r) /\ Promised!Indices(m) = Seats(m)
  BY <1>3, SoundMatches
<1>5. i \in Seats(m) /\ r.seat[i] = g
  BY <1>3, <1>4 DEF Seated, SoundMatch
<1> HIDE DEF i
<1>6. SeatRecords[m] = Seen(r)
  BY <1>3, RecordsSeen
<1>7. /\ Seen(new) \in Promised!Outcomes(m) \cup {Seen(r)}
      /\ ~(new.status = "filling" /\ new.overdue)
  <2>1. CASE r.status = "filling"
    <3>1. new = Vacated(r, i)
      BY <1>2, <2>1 DEF Left
    <3>2. /\ SeatRecords[m].seat = r.seat /\ SeatRecords[m].status = "filling"
          /\ Promised!Taken(m) = Taken(r) /\ i \in Taken(r)
      <4>1. SeatRecords[m].seat = r.seat /\ SeatRecords[m].status = "filling"
        BY <1>6, <2>1 DEF Seen
      <4> QED BY <1>1, <1>4, <1>5, <4>1, GuestAssumption
              DEF Promised!Taken, Taken, SoundMatch
    <3>3. /\ Seen(new) = IF Taken(r) = {i} THEN Promised!Over(m)
                         ELSE Promised!With("filling", [r.seat EXCEPT ![i] = NoGuest])
          /\ ~new.overdue
      <4>1. CASE Taken(r) = {i}
        BY <1>3, <1>4, <3>1, <4>1, OverSeen DEF Vacated, Over, Record
      <4>2. CASE Taken(r) # {i}
        BY <3>1, <4>2 DEF Vacated, Record, Seen, Promised!With
      <4> QED BY <4>1, <4>2
    <3>4. Seen(new) \in Promised!Left(m)
      BY <3>2, <3>3 DEF Promised!Left
    <3> QED BY <3>2, <3>3, <3>4 DEF Promised!Outcomes
  <2>2. CASE r.status = "running" /\ i \in r.forfeited
    BY <1>2, <2>2 DEF Left
  <2>3. CASE r.status = "running" /\ i \notin r.forfeited
    <3>1. new \in Forfeited(r, i)
      BY <1>2, <2>3 DEF Left
    <3> QED BY <1>3, <1>5, <2>3, <3>1, ForfeitOutcome
  <2> QED BY <1>3, <2>1, <2>2, <2>3 DEF Alive
<1> HIDE DEF m, r
<1> QED BY <1>2, <1>3, <1>7, PublishPromised DEF r

\* Every call of the lobby takes the matchmaker to do what it promises.
LEMMA LobbyPromised ==
    ASSUME LobbyAgrees, ConnectionsTyped, [Next]_vars
    PROVE  Promised!Next
<1>1. CASE UNCHANGED match
  BY <1>1, OnlyExpiries
<1>2. ASSUME NEW c \in Connections, Subscribe(c) \/ SeatDisconnected(c) \/ SeatReconnected(c)
      PROVE  Promised!Next
  <2>1. match' = SweptMatches(match)
    BY <1>2 DEF Subscribe, SeatDisconnected, SeatReconnected, Publish, Reconcile
  <2> QED BY <2>1, SweepPromised
<1>3. ASSUME NEW c \in Connections, NEW m \in Matches, JoinFails(c, m)
      PROVE  Promised!Next
  <2>1. match' = [match EXCEPT ![m] = Record("filling", match[m].seat)]
    BY <1>3 DEF JoinFails
  <2>2. match[m].status = "filling" /\ match[m].forfeited = {}
    <3>1. SoundMatch(m, match[m]) /\ SoundRow(m, match[m], ledger[m])
      BY DEF LobbyAgrees, Agreed, Early
    <3> QED BY <1>3, <3>1 DEF JoinFails, SoundRow, SoundMatch, Alive
  <2>3. ASSUME NEW k \in Matches PROVE Seen(match'[k]) = Seen(match[k])
    BY <2>1, <2>2 DEF Seen, Record, LobbyAgrees, Agreed, Early
  <2> QED BY <2>3, OnlyExpiries
<1>4. ASSUME NEW m \in Matches, MatchTerminal(m) PROVE Promised!Next
  <2> DEFINE new == Over(match[m])
  <2>1. match[m].status = "running" /\ match' = SweptMatches([match EXCEPT ![m] = new])
    BY <1>4 DEF MatchTerminal, Publish, Reconcile
  <2>2. Seen(new) = Promised!Over(m) /\ ~new.overdue
    BY SoundMatches, OverSeen DEF Over, Record
  <2>3. SeatRecords[m].status = "running"
    BY <2>1, RecordsSeen DEF Seen
  <2>4. Seen(new) \in Promised!Outcomes(m)
    BY <2>2, <2>3 DEF Promised!Outcomes
  <2> HIDE DEF new
  <2> QED BY <2>1, <2>2, <2>4, PublishPromised
<1>5. ASSUME NEW m \in Matches, NEW i \in DOMAIN match[m].seat, SeatExpired(m, i)
      PROVE  Promised!Next
  <2>1. PICK new \in Forfeited(match[m], i) : match' = SweptMatches([match EXCEPT ![m] = new])
    BY <1>5 DEF SeatExpired, Publish, Reconcile
  <2>2. match[m].status = "running" /\ i \in Seats(m) /\ i \notin match[m].forfeited
    BY <1>5, SoundMatches DEF SeatExpired, InPlay, SoundMatch
  <2>3. Seen(new) \in Promised!Outcomes(m) /\ new.status # "filling"
    BY <2>1, <2>2, ForfeitOutcome
  <2> QED BY <2>1, <2>3, PublishPromised
<1>6. CASE Elapse
  <2>1. \A m \in Matches : Seen(match'[m]) = Seen(match[m])
    BY <1>6 DEF Elapse, Seen
  <2> QED BY <2>1, OnlyExpiries
<1>7. ASSUME NEW c \in Connections,
             \/ \E g \in Guests : Establish(c, g)
             \/ \E h \in Handles : SetHandle(c, h)
             \/ ConnectionClosed(c) \/ LeaveAsSpectator(c)
             \/ \E m \in Matches : Spectate(c, m)
      PROVE  UNCHANGED match
  BY <1>7 DEF Establish, SetHandle, ConnectionClosed, LeaveAsSpectator, Spectate, Unpublished
<1>8. CASE UNCHANGED vars
  BY <1>1, <1>8 DEF vars
<1> QED BY <1>1, <1>2, <1>3, <1>4, <1>5, <1>6, <1>7, <1>8,
           CreatePromised, JoinPromised, LeavePromised DEF Next

\* Whatever the order of the lobby's calls, of results and of the sweeps inside its
\* own calls, it takes the matchmaker to do no more than what MatchSeats promises,
\* which Matchmaker is shown to keep (lobbyService.ts; matchmaker.ts, forfeit.ts).
THEOREM LobbyReliesOnPromise == Spec => SeatsAsPromised
<1>1. Init => Promised!Init
  <2> SUFFICES ASSUME Init PROVE Promised!Init
    OBVIOUS
  <2>1. \A m \in Matches : Seen(match[m]) = Promised!With("absent", Promised!Empty(m))
    BY DEF Init, NoMatch, Record, Seen, Promised!With, Promised!Empty, Promised!Indices, Seats
  <2> QED BY <2>1, RecordsSeen DEF Promised!Init, Promised!Nothing
<1>2. ConnectionsTyped /\ LobbyAgrees /\ [Next]_vars => [Promised!Next]_SeatRecords
  BY LobbyPromised
<1> QED BY <1>1, <1>2, LobbyKept, PTL DEF Spec, SeatsAsPromised, Promised!Spec

=============================================================================
