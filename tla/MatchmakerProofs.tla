-------------------------- MODULE MatchmakerProofs --------------------------
(***************************************************************************)
(* Proofs about Matchmaker for any matches, sessions, seats per match,     *)
(* capacity and time limits.                                               *)
(***************************************************************************)
EXTENDS Matchmaker, FiniteSetTheorems, TLAPS

\* A record that does not exist yet has no players.
AbsentEmpty == \A m \in Matches : status[m] = "absent" => Taken(m) = {}

\* A finished match is full, and those who accepted its rematch are players of
\* it who have not forfeited.
VotesOfPlayers ==
    \A m \in Matches : status[m] = "finished" =>
       /\ Free(m) = {}
       /\ offer[m].accepted \subseteq Holders(m)
       /\ \A i \in Indices : seat[m][i] \in offer[m].accepted => <<m, i>> \notin forfeited

Offers == [made : BOOLEAN, accepted : SUBSET Sessions, declined : SUBSET Sessions]

SeatInv == TypeOK /\ AbsentEmpty /\ NoOrphanBinding /\ SeatsBacked

----------------------------------------------------------------------------
(* Types *)

\* What a collection leaves is well typed.
LEMMA CollectedType ==
    ASSUME TypeOK, NEW ms
    PROVE  /\ StatusAfter(ms) \in [Matches -> Statuses]
           /\ AgeAfter(ms) \in [Matches -> 0..MaxAge]
           /\ StoreAfter(ms) \in SUBSET Sessions
           /\ BoundAfter(ms) \in [Sessions -> Matches \cup {NoMatch}]
           /\ ChannelAfter(ms) \in [Matches -> {"none", "live", "sealed"}]
<1>1. 0 \in 0..MaxAge
    BY TimeAssumption DEF TimeAssumption
<1> QED BY <1>1 DEF TypeOK, StatusAfter, AgeAfter, StoreAfter, BoundAfter, ChannelAfter,
                    Released, Statuses

\* Counting the free seats of a match.
LEMMA FreeCount ==
    ASSUME NEW m \in Matches
    PROVE  /\ IsFiniteSet(Free(m)) /\ Cardinality(Free(m)) \in Nat
           /\ Cardinality(Free(m)) >= 1 => Free(m) # {}
           /\ \A i : Cardinality(Free(m)) = 1 /\ i \in Free(m) => Free(m) = {i}
<1>1. IsFiniteSet(Indices)
    BY FS_Interval, SizeAssumption DEF Indices, SizeAssumption
<1>2. IsFiniteSet(Free(m)) /\ Cardinality(Free(m)) \in Nat
    BY <1>1, FS_Subset, FS_CardinalityType DEF Free
<1>3. Cardinality(Free(m)) >= 1 => Free(m) # {}
    BY FS_EmptySet
<1>4. \A i : Cardinality(Free(m)) = 1 /\ i \in Free(m) => Free(m) = {i}
    BY <1>2, FS_Singleton
<1> QED BY <1>2, <1>3, <1>4

\* Every step keeps every variable in its type.
LEMMA TypeStep == TypeOK /\ [Next]_vars => TypeOK'
<1> SUFFICES ASSUME TypeOK, [Next]_vars PROVE TypeOK'
    OBVIOUS
<1> USE DEF Statuses
<1>0. 0 \in 0..MaxAge /\ 0 \in Indices
    BY TimeAssumption, SizeAssumption DEF TimeAssumption, SizeAssumption, Indices
<1>1. ASSUME NEW m \in Matches, NEW s \in Sessions, TakeSeat(m, s)
      PROVE  /\ seat' \in [Matches -> [Indices -> Sessions \cup {NoSession}]]
             /\ store' \in SUBSET Sessions
             /\ bound' \in [Sessions -> Matches \cup {NoMatch}]
    BY <1>1 DEF TypeOK, TakeSeat, Free
<1>2. ASSUME NEW m \in Matches, NEW s \in Sessions, CreateMatch(m, s) PROVE TypeOK'
  <2>1. seat' \in [Matches -> [Indices -> Sessions \cup {NoSession}]]
      BY <1>0, <1>2 DEF TypeOK, CreateMatch
  <2> QED BY <1>2, <2>1, CollectedType DEF TypeOK, CreateMatch
<1>3. ASSUME NEW m \in Matches, NEW s \in Sessions, JoinMatch(m, s) PROVE TypeOK'
    BY <1>0, <1>1, <1>3 DEF TypeOK, JoinMatch
<1>4. ASSUME NEW m \in Matches, NEW s \in Sessions, JoinAndStart(m, s) PROVE TypeOK'
    BY <1>0, <1>1, <1>4 DEF TypeOK, JoinAndStart
<1>5. ASSUME NEW m \in Matches, JoinStartFails(m) PROVE TypeOK'
    BY <1>0, <1>5 DEF TypeOK, JoinStartFails
<1>6. ASSUME NEW m \in Matches, NEW i \in Indices, LeaveFilling(m, i) PROVE TypeOK'
  <2>1. seat' \in [Matches -> [Indices -> Sessions \cup {NoSession}]]
      BY <1>6 DEF TypeOK, LeaveFilling
  <2>2. /\ bound' \in [Sessions -> Matches \cup {NoMatch}]
        /\ age' \in [Matches -> 0..MaxAge]
      BY <1>0, <1>6 DEF TypeOK, LeaveFilling
  <2> QED BY <1>6, <2>1, <2>2 DEF TypeOK, LeaveFilling
<1>7. ASSUME NEW m \in Matches, NEW i \in Indices, Forfeit(m, i) PROVE TypeOK'
    BY <1>7, CollectedType DEF TypeOK, Forfeit, Collect
<1>8. ASSUME NEW m \in Matches, EngineTick(m) PROVE TypeOK'
  <2>1. NoOffer \in Offers
      BY DEF NoOffer, Offers
  <2>2. PICK lost \in SUBSET alive[m] :
           /\ alive' = [alive EXCEPT ![m] = alive[m] \ lost]
           /\ \/ /\ channel' = [channel EXCEPT ![m] = "sealed"]
                 /\ status' = [status EXCEPT ![m] =
                                  IF status[m] = "running" THEN "finished" ELSE status[m]]
                 /\ age' = [age EXCEPT ![m] = IF status[m] = "running" THEN 0 ELSE age[m]]
                 /\ offer' = [offer EXCEPT ![m] =
                                 IF status[m] = "running" THEN NoOffer ELSE offer[m]]
              \/ UNCHANGED <<channel, status, age, offer>>
      BY <1>8 DEF EngineTick
  <2>3. alive' \in [Matches -> SUBSET Indices]
      BY <2>2 DEF TypeOK
  <2>4. /\ channel' \in [Matches -> {"none", "live", "sealed"}]
        /\ status' \in [Matches -> Statuses]
        /\ age' \in [Matches -> 0..MaxAge]
    <3>1. channel' \in [Matches -> {"none", "live", "sealed"}]
        BY <2>2 DEF TypeOK
    <3>2. status' \in [Matches -> Statuses]
        BY <2>2 DEF TypeOK
    <3>3. age' \in [Matches -> 0..MaxAge]
        BY <1>0, <2>2 DEF TypeOK
    <3> QED BY <3>1, <3>2, <3>3
  <2>5. offer' \in [Matches -> Offers]
      BY <2>1, <2>2 DEF TypeOK, Offers
  <2> QED BY <1>8, <2>3, <2>4, <2>5 DEF TypeOK, EngineTick, Offers
<1>9. ASSUME NEW m \in Matches, TickError(m) PROVE TypeOK'
    BY <1>9 DEF TypeOK, TickError
<1>10. ASSUME NEW m \in Matches, NEW i \in Indices, RequestRematch(m, i) PROVE TypeOK'
  <2>1. [NoOffer EXCEPT !.made = TRUE] \in Offers
      BY DEF NoOffer, Offers
  <2> QED BY <1>10, <2>1 DEF TypeOK, RequestRematch, Offers
<1>11. ASSUME NEW m \in Matches, NEW i \in Indices, AcceptRematch(m, i) PROVE TypeOK'
  <2>1. [offer[m] EXCEPT !.accepted = @ \cup {seat[m][i]}] \in Offers
      BY <1>11 DEF TypeOK, AcceptRematch, MayVote, Offers
  <2>2. offer' \in [Matches -> Offers]
      BY <1>11, <2>1 DEF TypeOK, AcceptRematch, Offers
  <2> QED BY <1>11, <2>2, CollectedType DEF TypeOK, AcceptRematch, Collect, Offers
<1>12. ASSUME NEW m \in Matches, NEW i \in Indices, NEW n \in Matches, CompleteRematch(m, i, n)
       PROVE TypeOK'
  <2>1. [offer[m] EXCEPT !.accepted = @ \cup {seat[m][i]}] \in Offers
      BY <1>12 DEF TypeOK, CompleteRematch, MayVote, Offers
  <2>2. offer' \in [Matches -> Offers]
      BY <1>12, <2>1 DEF TypeOK, CompleteRematch, Offers
  <2> QED BY <1>12, <2>2, CollectedType DEF TypeOK, CompleteRematch, Offers
<1>13. ASSUME NEW m \in Matches, NEW i \in Indices, DeclineRematch(m, i) PROVE TypeOK'
  <2>1. [offer[m] EXCEPT !.declined = @ \cup {seat[m][i]}] \in Offers
      BY <1>13 DEF TypeOK, DeclineRematch, MayVote, Offers
  <2>2. offer' \in [Matches -> Offers]
      BY <1>13, <2>1 DEF TypeOK, DeclineRematch, Offers
  <2> QED BY <1>13, <2>2, CollectedType DEF TypeOK, DeclineRematch, Collect, Offers
<1>14. CASE Sweep
    BY <1>14, CollectedType DEF TypeOK, Sweep, Collect
<1>15. CASE Elapse
    BY <1>15, TimeAssumption DEF TypeOK, Elapse, TimeAssumption
<1>16. CASE Close
    BY <1>0, <1>16 DEF TypeOK, Close, NoOffer
<1>17. CASE UNCHANGED vars
    BY <1>17 DEF TypeOK, vars
<1> QED BY <1>2, <1>3, <1>4, <1>5, <1>6, <1>7, <1>8, <1>9, <1>10, <1>11, <1>12, <1>13,
           <1>14, <1>15, <1>16, <1>17 DEF Next

\* The empty store is well typed.
LEMMA InitType == Init => TypeOK
<1>1. 0 \in 0..MaxAge /\ NoOffer \in Offers
    BY TimeAssumption DEF TimeAssumption, NoOffer, Offers
<1>2. Init => offer \in [Matches -> Offers]
    BY <1>1 DEF Init
<1>3. Init => seat \in [Matches -> [Indices -> Sessions \cup {NoSession}]]
    BY DEF Init
<1> QED BY <1>1, <1>2, <1>3 DEF Init, TypeOK, Statuses, Offers

\* Every reachable state of the matchmaker is well typed (store.ts, match-types.ts).
THEOREM TypeCorrect == Spec => []TypeOK
BY InitType, TypeStep, PTL DEF Spec

----------------------------------------------------------------------------
(* Seats, sessions and bindings *)

\* A collection deletes exactly the sessions bound to the matches it takes: a
\* session that stays bound is bound elsewhere, and the seats of the other
\* matches keep theirs.
LEMMA CollectedSeats ==
    ASSUME SeatInv, NEW ms
    PROVE  /\ \A s \in Sessions : BoundAfter(ms)[s] # NoMatch =>
                 s \in StoreAfter(ms) /\ BoundAfter(ms)[s] = bound[s] /\ bound[s] \notin ms
           /\ \A m \in Live \ ms : \A i \in Taken(m) :
                 seat[m][i] \in StoreAfter(ms) /\ BoundAfter(ms)[seat[m][i]] = m
<1>1. ASSUME NEW s \in Sessions, BoundAfter(ms)[s] # NoMatch
      PROVE  s \in StoreAfter(ms) /\ BoundAfter(ms)[s] = bound[s] /\ bound[s] \notin ms
  <2>1. s \notin Released(ms, bound) /\ BoundAfter(ms)[s] = bound[s]
      BY <1>1 DEF BoundAfter
  <2>2. s \in store /\ s \in Holders(bound[s])
      BY <1>1, <2>1 DEF SeatInv, NoOrphanBinding
  <2> QED BY <2>1, <2>2 DEF Released, StoreAfter
<1>2. ASSUME NEW m \in Live \ ms, NEW i \in Taken(m)
      PROVE  seat[m][i] \in StoreAfter(ms) /\ BoundAfter(ms)[seat[m][i]] = m
  <2>1. seat[m][i] \in store /\ bound[seat[m][i]] = m
      BY DEF SeatInv, SeatsBacked, Live
  <2>2. seat[m][i] \notin Released(ms, bound)
      BY <2>1 DEF Released
  <2> QED BY <2>1, <2>2 DEF StoreAfter, BoundAfter, SeatInv, TypeOK
<1> QED BY <1>1, <1>2

\* What the status after a collection is.
LEMMA CollectedLive ==
    ASSUME TypeOK, NEW ms, status' = StatusAfter(ms)
    PROVE  Live' = Live \ ms
BY DEF StatusAfter, Live, TypeOK

\* A collection keeps the agreement.
LEMMA CollectSeats ==
    ASSUME SeatInv, NEW ms, Collect(ms), seat' = seat
    PROVE  AbsentEmpty' /\ NoOrphanBinding' /\ SeatsBacked'
<1>1. Live' = Live \ ms
    BY CollectedLive DEF Collect, SeatInv
<1>2. AbsentEmpty'
    BY DEF AbsentEmpty, SeatInv, Collect, StatusAfter, Taken
<1>3. NoOrphanBinding'
    BY <1>1, CollectedSeats DEF SeatInv, NoOrphanBinding, Collect, Holders, Taken
<1>4. SeatsBacked'
    BY <1>1, CollectedSeats DEF SeatInv, SeatsBacked, Collect, Taken
<1> QED BY <1>2, <1>3, <1>4

\* A new session takes a free seat of a match that stays or comes alive.
LEMMA NewSeat ==
    ASSUME SeatInv, NEW ms, NEW m \in Matches \ ms, NEW s \in Sessions, NEW i \in Free(m),
           s \notin store,
           seat' = [seat EXCEPT ![m][i] = s],
           store' = StoreAfter(ms) \cup {s},
           bound' = [BoundAfter(ms) EXCEPT ![s] = m],
           Live' = (Live \ ms) \cup {m}, status' \in [Matches -> Statuses],
           m \in Live \/ Taken(m) = {},
           \A n \in Matches : status'[n] = "absent" => n # m /\ status[n] = "absent"
    PROVE  AbsentEmpty' /\ NoOrphanBinding' /\ SeatsBacked'
<1> USE DEF SeatInv
<1>0. /\ s # NoSession
      /\ i \in Indices
      /\ seat[m][i] = NoSession
      /\ \A n \in Matches, j \in Indices : ~(n = m /\ j = i) => seat'[n][j] = seat[n][j]
      /\ seat'[m][i] = s
    BY NullAssumption DEF NullAssumption, Free, Taken, TypeOK
<1>1. /\ \A n \in Matches : n # m => Taken(n)' = Taken(n) /\ Holders(n)' = Holders(n)
      /\ Taken(m)' = Taken(m) \cup {i}
      /\ Holders(m)' = Holders(m) \cup {s}
  <2>1. Taken(m)' = Taken(m) \cup {i}
      BY <1>0 DEF Taken
  <2>2. \A n \in Matches : n # m => Taken(n)' = Taken(n)
      BY <1>0 DEF Taken
  <2>3. \A n \in Matches : n # m => Holders(n)' = Holders(n)
      BY <1>0, <2>2 DEF Holders, Taken
  <2>4. Holders(m)' = Holders(m) \cup {s}
      BY <1>0, <2>1 DEF Holders, Taken
  <2> QED BY <2>1, <2>2, <2>3, <2>4
<1>2. AbsentEmpty'
    BY <1>1 DEF AbsentEmpty
<1>3. NoOrphanBinding'
  <2> SUFFICES ASSUME NEW r \in Sessions, bound'[r] # NoMatch
               PROVE  \E n \in Live' : bound'[r] = n /\ r \in store' /\ r \in Holders(n)'
      BY DEF NoOrphanBinding, Holders, Taken
  <2>1. CASE r = s
    <3>1. bound'[r] = m /\ r \in store' /\ m \in Live' /\ r \in Holders(m)'
        BY <1>1, <2>1, CollectedType
    <3> QED BY <3>1
  <2>2. CASE r # s
    <3>1. bound'[r] = BoundAfter(ms)[r]
        BY <2>2, CollectedType
    <3>2. r \in StoreAfter(ms) /\ bound'[r] = bound[r] /\ bound[r] \notin ms
        BY <3>1, CollectedSeats
    <3>3. PICK n \in Matches : n = bound[r] /\ n \in Live /\ r \in Holders(n)
        BY <3>2 DEF NoOrphanBinding, Live
    <3>4. r \in Holders(n)'
        BY <1>1, <3>3
    <3> QED BY <3>2, <3>3, <3>4
  <2> QED BY <2>1, <2>2
<1>4. SeatsBacked'
  <2>1. \A n \in Live \ ms : \A j \in Taken(n) :
           seat[n][j] \in store /\ seat[n][j] \in StoreAfter(ms) /\ BoundAfter(ms)[seat[n][j]] = n
      BY CollectedSeats DEF StoreAfter
  <2>2. ASSUME NEW n \in Live', NEW j \in Taken(n)', ~(n = m /\ j = i)
        PROVE  /\ j \in Taken(n) /\ n \in Live \ ms /\ j \in Indices /\ n \in Matches
               /\ seat'[n][j] = seat[n][j]
               /\ seat[n][j] # s
               /\ bound'[seat[n][j]] = BoundAfter(ms)[seat[n][j]]
    <3>1. n \in Matches /\ j \in Taken(n) /\ j \in Indices
        BY <1>1, <2>2 DEF Live, Taken
    <3>2. n \in Live \ ms
        BY <3>1, <2>2, <1>1
    <3>3. seat[n][j] \in Sessions
        BY <3>1 DEF Taken, TypeOK
    <3> QED BY <1>0, <2>1, <2>2, <3>1, <3>2, <3>3, CollectedType
  <2>3. bound'[s] = m /\ s \in store'
      BY CollectedType
  <2>4. ASSUME NEW n \in Live', NEW j \in Taken(n)'
        PROVE  seat'[n][j] \in store' /\ bound'[seat'[n][j]] = n
      BY <1>0, <2>1, <2>2, <2>3
  <2>5. ASSUME NEW n \in Live', NEW j \in Taken(n)', NEW k \in Taken(n)', seat'[n][j] = seat'[n][k]
        PROVE  j = k
      BY <1>0, <2>2, <2>5 DEF SeatsBacked
  <2> QED BY <2>4, <2>5 DEF SeatsBacked
<1> QED BY <1>2, <1>3, <1>4

\* Steps that leave seats, sessions and the set of live matches alone.
LEMMA SameSeats ==
    ASSUME SeatInv, UNCHANGED <<seat, store, bound>>, Live' = Live,
           \A n \in Matches : status'[n] = "absent" => status[n] = "absent"
    PROVE  AbsentEmpty' /\ NoOrphanBinding' /\ SeatsBacked'
BY DEF SeatInv, AbsentEmpty, NoOrphanBinding, SeatsBacked, Taken, Holders

\* A collection of nothing changes nothing.
LEMMA NothingCollected ==
    ASSUME TypeOK PROVE StoreAfter({}) = store /\ BoundAfter({}) = bound
BY DEF StoreAfter, BoundAfter, Released, TypeOK

\* What the sweeps take has started filling.
LEMMA DueLive == Due \subseteq Live
BY DEF Due, Live, RematchLapsed, ResultsStale, UnstartedStale

\* A creation seats its creator in a new match.
LEMMA CreateSeats ==
    ASSUME SeatInv, NEW m \in Matches, NEW s \in Sessions, CreateMatch(m, s)
    PROVE  AbsentEmpty' /\ NoOrphanBinding' /\ SeatsBacked'
<1> USE DEF SeatInv
<1>1. m \in Matches \ Due /\ m \notin Live
    BY DueLive DEF CreateMatch, Live
<1>2. Taken(m) = {} /\ 0 \in Free(m)
    BY SizeAssumption DEF SizeAssumption, CreateMatch, AbsentEmpty, Free, Indices
<1>3. status' \in [Matches -> Statuses] /\ Live' = (Live \ Due) \cup {m}
    BY <1>1, CollectedType DEF CreateMatch, Live, StatusAfter, TypeOK, Statuses
<1>4. \A n \in Matches : status'[n] = "absent" => n # m /\ status[n] = "absent"
    BY <1>1, CollectedType DEF CreateMatch, StatusAfter
<1> QED BY <1>1, <1>2, <1>3, <1>4, NewSeat DEF CreateMatch

\* A join seats its player in the match it names.
LEMMA JoinSeats ==
    ASSUME SeatInv, NEW m \in Matches, NEW s \in Sessions,
           JoinMatch(m, s) \/ JoinAndStart(m, s)
    PROVE  AbsentEmpty' /\ NoOrphanBinding' /\ SeatsBacked'
<1> USE DEF SeatInv
<1>1. PICK i \in Free(m) : seat' = [seat EXCEPT ![m][i] = s]
    BY DEF JoinMatch, JoinAndStart, TakeSeat
<1>2. m \in Live
    BY DEF JoinMatch, JoinAndStart, Live
<1>3. status' \in [Matches -> Statuses] /\ Live' = (Live \ {}) \cup {m}
    BY <1>2 DEF JoinMatch, JoinAndStart, Live, TypeOK, Statuses
<1>4. \A n \in Matches : status'[n] = "absent" => n # m /\ status[n] = "absent"
    BY DEF JoinMatch, JoinAndStart, TypeOK
<1>5. /\ s \notin store
      /\ store' = StoreAfter({}) \cup {s}
      /\ bound' = [BoundAfter({}) EXCEPT ![s] = m]
    BY NothingCollected DEF JoinMatch, JoinAndStart, TakeSeat
<1>6. m \in Matches \ {}
    OBVIOUS
<1> HIDE DEF SeatInv
<1> QED BY <1>1, <1>2, <1>3, <1>4, <1>5, <1>6, NewSeat

\* A player who leaves takes its binding along, and the session with the last.
LEMMA LeaveSeats ==
    ASSUME SeatInv, NEW m \in Matches, NEW i \in Indices, LeaveFilling(m, i)
    PROVE  AbsentEmpty' /\ NoOrphanBinding' /\ SeatsBacked'
<1> USE DEF SeatInv
<1> DEFINE s == seat[m][i]
<1>1. /\ i \in Taken(m) /\ m \in Live /\ s \in Sessions
      /\ s \in store /\ bound[s] = m
      /\ seat' = [seat EXCEPT ![m][i] = NoSession]
      /\ bound' = [bound EXCEPT ![s] = NoMatch]
    BY DEF LeaveFilling, Live, Taken, TypeOK, SeatsBacked
<1>2. /\ \A n \in Matches, j \in Indices :
            seat'[n][j] = (IF n = m /\ j = i THEN NoSession ELSE seat[n][j])
      /\ \A r \in Sessions : bound'[r] = (IF r = s THEN NoMatch ELSE bound[r])
    BY <1>1 DEF TypeOK
<1>3. /\ \A n \in Matches : Taken(n)' = IF n = m THEN Taken(m) \ {i} ELSE Taken(n)
      /\ Live' = Live \/ (Live' = Live \ {m} /\ Taken(m) = {i})
      /\ \A n \in Matches : status'[n] = "absent" => n # m /\ status[n] = "absent"
      /\ store' = store \/ (store' = store \ {s} /\ Live' = Live \ {m})
      /\ store \ {s} \subseteq store'
  <2>1. \A n \in Matches : Taken(n)' = IF n = m THEN Taken(m) \ {i} ELSE Taken(n)
      BY <1>2 DEF Taken
  <2>2. CASE Taken(m) = {i}
      BY <2>1, <2>2 DEF LeaveFilling, Live, TypeOK
  <2>3. CASE Taken(m) # {i}
      BY <2>1, <2>3 DEF LeaveFilling, Live, TypeOK
  <2> QED BY <2>2, <2>3
<1>4. AbsentEmpty'
    BY <1>3 DEF AbsentEmpty
<1>5. NoOrphanBinding'
  <2> SUFFICES ASSUME NEW r \in Sessions, bound'[r] # NoMatch
               PROVE  \E n \in Live' : bound'[r] = n /\ r \in store' /\ r \in Holders(n)'
      BY DEF NoOrphanBinding, Holders, Taken
  <2>1. r # s /\ bound'[r] = bound[r]
      BY <1>2
  <2>2. PICK n \in Matches : n = bound[r] /\ n \in Live /\ r \in store /\ r \in Holders(n)
      BY <2>1 DEF NoOrphanBinding, Live
  <2>3. PICK j \in Taken(n) : j \in Indices /\ seat[n][j] = r
      BY <2>2 DEF Holders, Taken
  <2>4. ~(n = m /\ j = i)
      BY <2>1, <2>3
  <2>5. j \in Taken(n)' /\ seat'[n][j] = r
      BY <1>2, <1>3, <2>3, <2>4
  <2>6. n \in Live'
      BY <1>3, <2>2, <2>3, <2>4
  <2> QED BY <1>3, <2>1, <2>2, <2>5, <2>6 DEF Holders
<1>6. SeatsBacked'
  <2>1. ASSUME NEW n \in Live', NEW j \in Taken(n)'
        PROVE  /\ n \in Live /\ n \in Matches /\ j \in Taken(n) /\ j \in Indices
               /\ ~(n = m /\ j = i)
               /\ seat'[n][j] = seat[n][j]
      BY <1>1, <1>2, <1>3 DEF Live, Taken
  <2>2. ASSUME NEW n \in Live', NEW j \in Taken(n)'
        PROVE  seat'[n][j] \in store' /\ bound'[seat'[n][j]] = n
    <3>1. seat[n][j] \in store /\ bound[seat[n][j]] = n /\ seat[n][j] \in Sessions
        BY <2>1 DEF SeatsBacked, Taken, TypeOK
    <3>2. seat[n][j] # s
        BY <1>1, <2>1, <3>1 DEF SeatsBacked
    <3> QED BY <1>2, <1>3, <2>1, <3>1, <3>2
  <2> QED BY <2>1, <2>2 DEF SeatsBacked
<1> QED BY <1>4, <1>5, <1>6

\* The last accept moves the players, with their seats, to a new match.
LEMMA CompleteSeats ==
    ASSUME SeatInv, NEW m \in Matches, NEW i \in Indices, NEW n \in Matches,
           CompleteRematch(m, i, n)
    PROVE  AbsentEmpty' /\ NoOrphanBinding' /\ SeatsBacked'
<1> USE DEF SeatInv
<1>1. m \in Live \ Due /\ n \notin Live /\ n # m
    BY DEF CompleteRematch, MayVote, Live, Due, RematchLapsed, ResultsStale, UnstartedStale
<1>2. Live' = (Live \ (Due \cup {m})) \cup {n} /\ status' \in [Matches -> Statuses]
    BY <1>1, CollectedType DEF CompleteRematch, Live, StatusAfter, TypeOK, Statuses
<1>3. \A k \in Matches : status'[k] = "absent" => k # n /\ status[k] = "absent"
    BY <1>1, CollectedType DEF CompleteRematch, StatusAfter
<1>4. \A s \in Holders(m) : s \in Sessions /\ s \in store /\ bound[s] = m
    BY <1>1 DEF Holders, Taken, SeatsBacked, TypeOK
<1>5. /\ store' = StoreAfter(Due)
      /\ \A s \in Sessions :
            bound'[s] = IF s \in Holders(m) THEN n ELSE BoundAfter(Due)[s]
  <2> DEFINE rebound == [s \in Sessions |-> IF s \in Holders(m) THEN n ELSE bound[s]]
  <2>1. Released({m}, rebound) = {}
      BY <1>1, <1>4 DEF Released
  <2>2. /\ store' = store \ (Released(Due, bound) \cup Released({m}, rebound))
        /\ bound' = [s \in Sessions |->
              IF s \in Released(Due, bound) \cup Released({m}, rebound) THEN NoMatch
              ELSE rebound[s]]
      BY DEF CompleteRematch
  <2>3. \A s \in Holders(m) : s \notin Released(Due, bound)
      BY <1>1, <1>4 DEF Released
  <2> HIDE DEF rebound
  <2>4. store' = StoreAfter(Due)
      BY <2>1, <2>2 DEF StoreAfter
  <2>5. ASSUME NEW s \in Sessions
        PROVE  bound'[s] = IF s \in Holders(m) THEN n ELSE BoundAfter(Due)[s]
      BY <2>1, <2>2, <2>3 DEF BoundAfter, rebound
  <2> QED BY <2>4, <2>5
<1>6. /\ seat' = [seat EXCEPT ![n] = seat[m]]
      /\ \A k \in Matches : seat'[k] = IF k = n THEN seat[m] ELSE seat[k]
      /\ \A k \in Matches : Taken(k)' = IF k = n THEN Taken(m) ELSE Taken(k)
      /\ \A k \in Matches : Holders(k)' = IF k = n THEN Holders(m) ELSE Holders(k)
  <2>1. seat' = [seat EXCEPT ![n] = seat[m]]
      BY DEF CompleteRematch
  <2>2. \A k \in Matches : seat'[k] = IF k = n THEN seat[m] ELSE seat[k]
      BY <2>1 DEF TypeOK
  <2>3. \A k \in Matches : Taken(k)' = IF k = n THEN Taken(m) ELSE Taken(k)
      BY <2>2 DEF Taken
  <2>4. \A k \in Matches : Holders(k)' = IF k = n THEN Holders(m) ELSE Holders(k)
      BY <2>2, <2>3 DEF Holders
  <2> QED BY <2>1, <2>2, <2>3, <2>4
<1>7. AbsentEmpty'
    BY <1>3, <1>6 DEF AbsentEmpty
<1>8. NoOrphanBinding'
  <2> SUFFICES ASSUME NEW r \in Sessions, bound'[r] # NoMatch
               PROVE  \E k \in Live' : bound'[r] = k /\ r \in store' /\ r \in Holders(k)'
      BY DEF NoOrphanBinding, Holders, Taken
  <2>1. CASE r \in Holders(m)
    <3>1. r \in StoreAfter(Due)
        BY <1>1, <1>4, <2>1 DEF StoreAfter, Released
    <3> QED BY <1>2, <1>5, <1>6, <2>1, <3>1
  <2>2. CASE r \notin Holders(m)
    <3>1. r \in StoreAfter(Due) /\ bound'[r] = bound[r] /\ bound[r] \notin Due
        BY <1>5, <2>2, CollectedSeats
    <3>2. PICK k \in Matches : k = bound[r] /\ k \in Live /\ r \in Holders(k)
        BY <3>1 DEF NoOrphanBinding, Live
    <3>3. k # m /\ k # n
        BY <1>1, <2>2, <3>2
    <3> QED BY <1>2, <1>5, <1>6, <3>1, <3>2, <3>3
  <2> QED BY <2>1, <2>2
<1>9. SeatsBacked'
  <2>1. ASSUME NEW k \in Live', NEW j \in Taken(k)', k # n
        PROVE  seat'[k][j] \in store' /\ bound'[seat'[k][j]] = k
    <3>1. /\ k \in Live \ Due /\ k # m /\ k \in Matches /\ j \in Taken(k)
          /\ seat'[k][j] = seat[k][j]
        BY <1>2, <1>6, <2>1 DEF Live
    <3>2. seat[k][j] \in StoreAfter(Due) /\ BoundAfter(Due)[seat[k][j]] = k
        BY <3>1, CollectedSeats
    <3>3. seat[k][j] \in Sessions /\ bound[seat[k][j]] = k
        BY <3>1 DEF SeatsBacked, Taken, TypeOK
    <3>4. seat[k][j] \notin Holders(m)
        BY <1>4, <3>1, <3>3
    <3> QED BY <1>5, <3>1, <3>2, <3>3, <3>4
  <2>2. ASSUME NEW j \in Taken(n)'
        PROVE  seat'[n][j] \in store' /\ bound'[seat'[n][j]] = n
    <3>1. j \in Taken(m) /\ seat'[n][j] = seat[m][j] /\ seat[m][j] \in Holders(m)
        BY <1>6 DEF Holders
    <3>2. seat[m][j] \in StoreAfter(Due)
        BY <1>1, <3>1, CollectedSeats
    <3> QED BY <1>4, <1>5, <3>1, <3>2
  <2>3. ASSUME NEW k \in Live', NEW j \in Taken(k)', NEW l \in Taken(k)', seat'[k][j] = seat'[k][l]
        PROVE  j = l
    <3>1. CASE k = n
        BY <1>1, <1>6, <2>3, <3>1 DEF SeatsBacked
    <3>2. CASE k # n
      <4>1. k \in Live /\ k \in Matches
          BY <1>2, <3>2 DEF Live
      <4> QED BY <1>6, <2>3, <3>2, <4>1 DEF SeatsBacked
    <3> QED BY <3>1, <3>2
  <2> QED BY <2>1, <2>2, <2>3 DEF SeatsBacked
<1> QED BY <1>7, <1>8, <1>9

\* Every step keeps seats, sessions and bindings in agreement.
LEMMA SeatStep == SeatInv /\ [Next]_vars => SeatInv'
<1> SUFFICES ASSUME SeatInv, [Next]_vars
             PROVE  AbsentEmpty' /\ NoOrphanBinding' /\ SeatsBacked'
    BY TypeStep DEF SeatInv
<1>1. ASSUME NEW m \in Matches, NEW s \in Sessions,
             CreateMatch(m, s) \/ JoinMatch(m, s) \/ JoinAndStart(m, s)
      PROVE  AbsentEmpty' /\ NoOrphanBinding' /\ SeatsBacked'
    BY <1>1, CreateSeats, JoinSeats
<1>2. ASSUME NEW m \in Matches, JoinStartFails(m) \/ TickError(m)
      PROVE  AbsentEmpty' /\ NoOrphanBinding' /\ SeatsBacked'
  <2>1. UNCHANGED <<seat, store, bound, status>>
      BY <1>2 DEF JoinStartFails, TickError
  <2> QED BY <2>1, SameSeats DEF Live
<1>3. ASSUME NEW m \in Matches, EngineTick(m)
      PROVE  AbsentEmpty' /\ NoOrphanBinding' /\ SeatsBacked'
  <2>1. /\ UNCHANGED <<seat, store, bound>>
        /\ \/ status' = status
           \/ status' = [status EXCEPT ![m] =
                            IF status[m] = "running" THEN "finished" ELSE status[m]]
      BY <1>3 DEF EngineTick
  <2>2. Live' = Live /\ \A n \in Matches : status'[n] = "absent" => status[n] = "absent"
      BY <2>1 DEF Live, SeatInv, TypeOK
  <2> QED BY <2>1, <2>2, SameSeats
<1>4. ASSUME NEW m \in Matches, NEW i \in Indices, LeaveFilling(m, i)
      PROVE  AbsentEmpty' /\ NoOrphanBinding' /\ SeatsBacked'
    BY <1>4, LeaveSeats
<1>5. ASSUME NEW m \in Matches, NEW i \in Indices, Forfeit(m, i)
      PROVE  AbsentEmpty' /\ NoOrphanBinding' /\ SeatsBacked'
  <2>1. CASE Collect({m})
      BY <1>5, <2>1, CollectSeats DEF Forfeit
  <2>2. CASE UNCHANGED <<status, store, bound>>
      BY <1>5, <2>2, SameSeats DEF Forfeit, Live
  <2> QED BY <1>5, <2>1, <2>2 DEF Forfeit
<1>6. ASSUME NEW m \in Matches, NEW i \in Indices, RequestRematch(m, i)
      PROVE  AbsentEmpty' /\ NoOrphanBinding' /\ SeatsBacked'
    BY <1>6, SameSeats DEF RequestRematch, Live
<1>7. ASSUME NEW m \in Matches, NEW i \in Indices, AcceptRematch(m, i) \/ DeclineRematch(m, i)
      PROVE  AbsentEmpty' /\ NoOrphanBinding' /\ SeatsBacked'
    BY <1>7, CollectSeats DEF AcceptRematch, DeclineRematch
<1>8. ASSUME NEW m \in Matches, NEW i \in Indices, NEW n \in Matches, CompleteRematch(m, i, n)
      PROVE  AbsentEmpty' /\ NoOrphanBinding' /\ SeatsBacked'
    BY <1>8, CompleteSeats
<1>9. CASE Sweep
    BY <1>9, CollectSeats DEF Sweep
<1>10. CASE Elapse
    BY <1>10, SameSeats DEF Elapse, Live
<1>11. CASE Close
    BY <1>11 DEF Close, AbsentEmpty, NoOrphanBinding, SeatsBacked, Live, Taken
<1>12. CASE UNCHANGED vars
    BY <1>12, SameSeats DEF vars, Live
<1> QED BY <1>1, <1>2, <1>3, <1>4, <1>5, <1>6, <1>7, <1>8, <1>9, <1>10, <1>11, <1>12 DEF Next

\* The agreement holds throughout.
LEMMA SeatsAgree == Spec => []SeatInv
<1>1. Init => SeatInv
  <2>1. Init => AbsentEmpty /\ NoOrphanBinding /\ SeatsBacked
      BY DEF Init, AbsentEmpty, NoOrphanBinding, SeatsBacked, Live, Taken
  <2>2. Init => TypeOK
      BY InitType
  <2> QED BY <2>1, <2>2 DEF SeatInv
<1> QED BY <1>1, SeatStep, PTL DEF Spec

\* No way of collecting a match leaves a session bound to it (matchLifecycle.ts
\* releaseMatchSessions, collectMatch).
THEOREM SessionsBound == Spec => []NoOrphanBinding
<1>1. SeatInv => NoOrphanBinding
    BY DEF SeatInv
<1> QED BY <1>1, SeatsAgree, PTL

\* The sessions of a live match's seats are in the store and bound to it, which
\* the rematch relies on (matchmaker.ts castAcceptVote).
THEOREM SeatsStayBacked == Spec => []SeatsBacked
<1>1. SeatInv => SeatsBacked
    BY DEF SeatInv
<1> QED BY <1>1, SeatsAgree, PTL

----------------------------------------------------------------------------
(* Channels *)

\* Starts, ends and collections of matches move the channel with the status.
LEMMA ChannelStep == TypeOK /\ ChannelsReleased /\ [Next]_vars => ChannelsReleased'
<1> SUFFICES ASSUME TypeOK, ChannelsReleased, [Next]_vars PROVE ChannelsReleased'
    OBVIOUS
<1> USE DEF Statuses
<1>1. ASSUME NEW ms, Collect(ms), seat' = seat PROVE ChannelsReleased'
    BY <1>1 DEF ChannelsReleased, Collect, StatusAfter, ChannelAfter, Free, Taken, TypeOK
<1>2. ASSUME UNCHANGED <<status, channel>>,
             \A m \in Matches : status[m] = "running" => seat'[m] = seat[m]
      PROVE  ChannelsReleased'
    BY <1>2 DEF ChannelsReleased, Free, Taken
<1>3. ASSUME NEW m \in Matches, NEW s \in Sessions, CreateMatch(m, s) PROVE ChannelsReleased'
  <2>1. m \notin Due /\ channel[m] = "none"
      BY <1>3 DEF CreateMatch, Due, RematchLapsed, ResultsStale, UnstartedStale, ChannelsReleased
  <2>2. \A n \in Matches : n # m => seat'[n] = seat[n]
      BY <1>3 DEF CreateMatch, TypeOK
  <2> QED BY <1>3, <2>1, <2>2 DEF CreateMatch, ChannelsReleased, StatusAfter, ChannelAfter,
                                 Free, Taken, TypeOK
<1>4. ASSUME NEW m \in Matches, NEW s \in Sessions, JoinMatch(m, s) PROVE ChannelsReleased'
    BY <1>2, <1>4 DEF JoinMatch, TakeSeat, TypeOK
<1>5. ASSUME NEW m \in Matches, NEW s \in Sessions, JoinAndStart(m, s) PROVE ChannelsReleased'
  <2>1. PICK i \in Free(m) : seat' = [seat EXCEPT ![m][i] = s]
      BY <1>5 DEF JoinAndStart, TakeSeat
  <2>2. Free(m) = {i}
      BY <1>5, FreeCount DEF JoinAndStart
  <2>3. /\ \A n \in Matches : n # m => seat'[n] = seat[n]
        /\ \A j \in Indices : seat'[m][j] = IF j = i THEN s ELSE seat[m][j]
      BY <2>1 DEF TypeOK
  <2>4. Free(m)' = {}
      BY <2>2, <2>3, NullAssumption DEF Free, Taken, NullAssumption
  <2> QED BY <1>5, <2>3, <2>4 DEF JoinAndStart, ChannelsReleased, Free, Taken, TypeOK
<1>6. ASSUME NEW m \in Matches, JoinStartFails(m) PROVE ChannelsReleased'
    BY <1>2, <1>6 DEF JoinStartFails
<1>7. ASSUME NEW m \in Matches, NEW i \in Indices, LeaveFilling(m, i) PROVE ChannelsReleased'
  <2>1. \A n \in Matches : n # m => seat'[n] = seat[n]
      BY <1>7 DEF LeaveFilling, TypeOK
  <2> QED BY <1>7, <2>1 DEF LeaveFilling, ChannelsReleased, Free, Taken, TypeOK
<1>8. ASSUME NEW m \in Matches, NEW i \in Indices, Forfeit(m, i) PROVE ChannelsReleased'
    BY <1>1, <1>2, <1>8 DEF Forfeit
<1>9. ASSUME NEW m \in Matches, EngineTick(m) PROVE ChannelsReleased'
  <2>1. /\ seat' = seat /\ channel[m] = "live"
        /\ \/ /\ channel' = [channel EXCEPT ![m] = "sealed"]
              /\ status' = [status EXCEPT ![m] =
                               IF status[m] = "running" THEN "finished" ELSE status[m]]
           \/ UNCHANGED <<channel, status>>
      BY <1>9 DEF EngineTick
  <2> QED BY <2>1 DEF ChannelsReleased, Free, Taken, TypeOK
<1>10. ASSUME NEW m \in Matches, TickError(m) PROVE ChannelsReleased'
    BY <1>10 DEF TickError, ChannelsReleased, Free, Taken, TypeOK
<1>11. ASSUME NEW m \in Matches, NEW i \in Indices,
              RequestRematch(m, i) \/ AcceptRematch(m, i) \/ DeclineRematch(m, i)
       PROVE  ChannelsReleased'
    BY <1>1, <1>2, <1>11 DEF RequestRematch, AcceptRematch, DeclineRematch
<1>12. ASSUME NEW m \in Matches, NEW i \in Indices, NEW n \in Matches, CompleteRematch(m, i, n)
       PROVE  ChannelsReleased'
  <2>1. n \notin Due \cup {m} /\ channel[n] = "none"
      BY <1>12 DEF CompleteRematch, MayVote, Due, RematchLapsed, ResultsStale, UnstartedStale,
                   ChannelsReleased
  <2>2. \A k \in Matches : k # n => seat'[k] = seat[k]
      BY <1>12 DEF CompleteRematch, TypeOK
  <2> QED BY <1>12, <2>1, <2>2 DEF CompleteRematch, ChannelsReleased, StatusAfter, ChannelAfter,
                                  Free, Taken, TypeOK
<1>13. CASE Sweep
    BY <1>1, <1>13 DEF Sweep
<1>14. CASE Elapse
    BY <1>2, <1>14 DEF Elapse
<1>15. CASE Close
    BY <1>15 DEF Close, ChannelsReleased
<1>16. CASE UNCHANGED vars
    BY <1>2, <1>16 DEF vars
<1> QED BY <1>3, <1>4, <1>5, <1>6, <1>7, <1>8, <1>9, <1>10, <1>11, <1>12, <1>13, <1>14, <1>15,
           <1>16 DEF Next

\* The server holds a channel exactly for the running and the finished matches,
\* and a running match is full (matchLifecycle.ts autoStart, unregisterMatch).
THEOREM ChannelsStayReleased == Spec => []ChannelsReleased
<1>1. Init => ChannelsReleased
    BY DEF Init, ChannelsReleased
<1> QED BY <1>1, TypeCorrect, ChannelStep, PTL DEF Spec

----------------------------------------------------------------------------
(* Capacity *)

\* Some matches that were live, and at most one more if there was room.
LEMMA CapacityArithmetic ==
    ASSUME Live' \subseteq Live \/ \E n : HasCapacity /\ Live' \subseteq (Live \ Due) \cup {n},
           CapacityBound
    PROVE  CapacityBound'
<1>1. IsFiniteSet(Live) /\ Cardinality(Live) \in Nat
    BY FS_Subset, FS_CardinalityType, SizeAssumption DEF Live, SizeAssumption
<1>2. CASE Live' \subseteq Live
  <2>1. Cardinality(Live') <= Cardinality(Live) /\ Cardinality(Live') \in Nat
      BY <1>1, <1>2, FS_Subset, FS_CardinalityType
  <2> QED BY <1>1, <2>1, SizeAssumption DEF CapacityBound, SizeAssumption
<1>3. ASSUME NEW n, HasCapacity, Live' \subseteq (Live \ Due) \cup {n} PROVE CapacityBound'
  <2>1. IsFiniteSet(Live \ Due) /\ Cardinality(Live \ Due) \in Nat
      BY <1>1, FS_Subset, FS_CardinalityType
  <2>2. /\ IsFiniteSet((Live \ Due) \cup {n})
        /\ Cardinality((Live \ Due) \cup {n}) <= Cardinality(Live \ Due) + 1
        /\ Cardinality((Live \ Due) \cup {n}) \in Nat
    <3>1. /\ IsFiniteSet((Live \ Due) \cup {n})
          /\ Cardinality((Live \ Due) \cup {n}) =
                IF n \in Live \ Due THEN Cardinality(Live \ Due) ELSE Cardinality(Live \ Due) + 1
        BY <2>1, FS_AddElement
    <3> QED BY <2>1, <3>1
  <2>3. Cardinality(Live') <= Cardinality((Live \ Due) \cup {n}) /\ Cardinality(Live') \in Nat
      BY <1>3, <2>2, FS_Subset, FS_CardinalityType
  <2> QED BY <1>3, <2>1, <2>2, <2>3, SizeAssumption
          DEF CapacityBound, HasCapacity, SizeAssumption
<1> QED BY <1>2, <1>3

\* Only a creation and a completed rematch add a match, each after the guard.
LEMMA CapacityStep == TypeOK /\ CapacityBound /\ [Next]_vars => CapacityBound'
<1> SUFFICES ASSUME TypeOK, CapacityBound, [Next]_vars
             PROVE  Live' \subseteq Live \/ \E n : HasCapacity /\ Live' \subseteq (Live \ Due) \cup {n}
    BY CapacityArithmetic
<1>1. ASSUME NEW m \in Matches, NEW s \in Sessions, CreateMatch(m, s)
      PROVE  HasCapacity /\ Live' \subseteq (Live \ Due) \cup {m}
    BY <1>1 DEF CreateMatch, StatusAfter, Live, TypeOK
<1>2. ASSUME NEW m \in Matches, NEW i \in Indices, NEW n \in Matches, CompleteRematch(m, i, n)
      PROVE  HasCapacity /\ Live' \subseteq (Live \ Due) \cup {n}
    BY <1>2 DEF CompleteRematch, StatusAfter, Live, TypeOK
<1>3. ASSUME NEW ms, Collect(ms) PROVE Live' \subseteq Live
    BY <1>3, CollectedLive DEF Collect
<1>4. ASSUME UNCHANGED status PROVE Live' \subseteq Live
    BY <1>4 DEF Live
<1>5. ASSUME NEW m \in Matches, NEW s \in Sessions, JoinMatch(m, s) \/ JoinAndStart(m, s)
      PROVE  Live' \subseteq Live
    BY <1>5 DEF JoinMatch, JoinAndStart, Live, TypeOK
<1>6. ASSUME NEW m \in Matches, NEW i \in Indices, LeaveFilling(m, i) \/ Forfeit(m, i)
      PROVE  Live' \subseteq Live
    BY <1>3, <1>4, <1>6 DEF LeaveFilling, Forfeit, Live, TypeOK
<1>7. ASSUME NEW m \in Matches, EngineTick(m) PROVE Live' \subseteq Live
  <2>1. \/ status' = [status EXCEPT ![m] =
                         IF status[m] = "running" THEN "finished" ELSE status[m]]
        \/ status' = status
      BY <1>7 DEF EngineTick
  <2> QED BY <2>1 DEF Live, TypeOK
<1>8. ASSUME NEW m \in Matches, JoinStartFails(m) \/ TickError(m) PROVE UNCHANGED status
    BY <1>8 DEF JoinStartFails, TickError
<1>9. ASSUME NEW m \in Matches, NEW i \in Indices,
             RequestRematch(m, i) \/ AcceptRematch(m, i) \/ DeclineRematch(m, i)
      PROVE  Live' \subseteq Live
    BY <1>3, <1>4, <1>9 DEF RequestRematch, AcceptRematch, DeclineRematch
<1>10. CASE Sweep
    BY <1>3, <1>10 DEF Sweep
<1>11. CASE Elapse \/ UNCHANGED vars
    BY <1>4, <1>11 DEF Elapse, vars
<1>12. CASE Close
    BY <1>12 DEF Close, Live
<1> QED BY <1>1, <1>2, <1>4, <1>5, <1>6, <1>7, <1>8, <1>9, <1>10, <1>11, <1>12 DEF Next

\* The matches not yet collected never exceed maxConcurrentMatches (matchmaker.ts
\* enforceCapacity).
THEOREM CapacityHolds == Spec => []CapacityBound
<1>1. Init => CapacityBound
  <2>1. Init => Live = {}
      BY DEF Init, Live
  <2> QED BY <2>1, FS_EmptySet, SizeAssumption DEF CapacityBound, SizeAssumption
<1> QED BY <1>1, TypeCorrect, CapacityStep, PTL DEF Spec

----------------------------------------------------------------------------
(* The rematch vote *)

VoteInv == SeatInv /\ ChannelsReleased /\ VotesOfPlayers

\* Everyone voted for: those who accepted are the players of the match, all of
\* them, and none has forfeited.
LEMMA AllIn ==
    ASSUME VoteInv, NEW m \in Matches, NEW i \in Indices, MayVote(m, i)
    PROVE  LET votes == offer[m].accepted \cup {seat[m][i]} IN
           /\ votes \subseteq Holders(m)
           /\ \A j \in Indices : seat[m][j] \in votes => <<m, j>> \notin forfeited
           /\ AllAccepted(votes) => votes = Holders(m)
<1> DEFINE votes == offer[m].accepted \cup {seat[m][i]}
<1>1. /\ m \in Live /\ Taken(m) = Indices /\ seat[m][i] \in Holders(m)
      /\ <<m, i>> \notin forfeited /\ status[m] = "finished"
    BY DEF VoteInv, VotesOfPlayers, MayVote, Live, Free, Holders, Taken
<1>2. votes \subseteq Holders(m)
    BY <1>1 DEF VoteInv, VotesOfPlayers
<1>3. ASSUME NEW j \in Indices, seat[m][j] \in votes PROVE <<m, j>> \notin forfeited
  <2>1. CASE seat[m][j] = seat[m][i]
      BY <1>1, <2>1 DEF VoteInv, SeatInv, SeatsBacked
  <2>2. CASE seat[m][j] \in offer[m].accepted
      BY <1>1, <2>2 DEF VoteInv, VotesOfPlayers
  <2> QED BY <1>3, <2>1, <2>2
<1>4. AllAccepted(votes) => votes = Holders(m)
  <2>1. IsFiniteSet(Indices) /\ Cardinality(Indices) = PlayerCount
      BY FS_Interval, SizeAssumption DEF Indices, SizeAssumption
  <2> DEFINE f == [j \in Indices |-> seat[m][j]]
  <2>2. f \in Surjection(Indices, Holders(m))
      BY <1>1 DEF Surjection, Holders
  <2> HIDE DEF f
  <2>3. IsFiniteSet(Holders(m)) /\ Cardinality(Holders(m)) <= PlayerCount
      BY <2>1, <2>2, FS_Surjection
  <2>4. /\ Cardinality(votes) <= Cardinality(Holders(m))
        /\ Cardinality(votes) = Cardinality(Holders(m)) => votes = Holders(m)
        /\ Cardinality(votes) \in Nat /\ Cardinality(Holders(m)) \in Nat
    <3>1. IsFiniteSet(votes)
        BY <1>2, <2>3, FS_Subset
    <3> QED BY <1>2, <2>3, <3>1, FS_Subset, FS_CardinalityType
  <2> HIDE DEF votes
  <2> QED BY <2>3, <2>4, SizeAssumption DEF AllAccepted, SizeAssumption
<1> QED BY <1>2, <1>3, <1>4

\* A match that stays finished and keeps its players and its votes is fine.
LEMMA VotesKept ==
    ASSUME VotesOfPlayers,
           \A n \in Matches : status'[n] = "finished" =>
              /\ status[n] = "finished"
              /\ seat'[n] = seat[n]
              /\ offer'[n].accepted = offer[n].accepted
              /\ \A j \in Indices : <<n, j>> \in forfeited' => <<n, j>> \in forfeited
    PROVE  VotesOfPlayers'
BY DEF VotesOfPlayers, Free, Holders, Taken

\* The votes of a finished match stay votes of its players.
LEMMA VoteStep == VoteInv /\ [Next]_vars => VotesOfPlayers'
<1> SUFFICES ASSUME VoteInv, [Next]_vars PROVE VotesOfPlayers'
    OBVIOUS
<1> USE DEF VoteInv, SeatInv
<1>1. ASSUME NEW m \in Matches, NEW s \in Sessions,
             CreateMatch(m, s) \/ JoinMatch(m, s) \/ JoinAndStart(m, s)
      PROVE  VotesOfPlayers'
  <2>1. UNCHANGED <<offer, forfeited>> /\ \A n \in Matches : n # m => seat'[n] = seat[n]
      BY <1>1 DEF CreateMatch, JoinMatch, JoinAndStart, TakeSeat, TypeOK
  <2>2. \A n \in Matches : status'[n] = "finished" => status[n] = "finished" /\ n # m
      BY <1>1 DEF CreateMatch, JoinMatch, JoinAndStart, StatusAfter, TypeOK
  <2> QED BY <2>1, <2>2, VotesKept
<1>2. ASSUME NEW m \in Matches, JoinStartFails(m) \/ TickError(m) PROVE VotesOfPlayers'
    BY <1>2, VotesKept DEF JoinStartFails, TickError
<1>3. ASSUME NEW m \in Matches, EngineTick(m) PROVE VotesOfPlayers'
  <2>1. /\ UNCHANGED <<seat, forfeited>>
        /\ \/ /\ status' = [status EXCEPT ![m] =
                              IF status[m] = "running" THEN "finished" ELSE status[m]]
              /\ offer' = [offer EXCEPT ![m] =
                              IF status[m] = "running" THEN NoOffer ELSE offer[m]]
           \/ UNCHANGED <<status, offer>>
      BY <1>3 DEF EngineTick
  <2>2. CASE UNCHANGED <<status, offer>>
      BY <2>1, <2>2, VotesKept
  <2>3. CASE status[m] # "running"
      BY <2>1, <2>3, VotesKept DEF TypeOK
  <2>4. CASE /\ status[m] = "running"
             /\ status' = [status EXCEPT ![m] = "finished"]
             /\ offer' = [offer EXCEPT ![m] = NoOffer]
    <3>1. Free(m)' = {} /\ offer'[m].accepted = {}
        BY <2>1, <2>4 DEF ChannelsReleased, NoOffer, Free, Taken, TypeOK
    <3>2. \A n \in Matches : n # m => status'[n] = status[n] /\ offer'[n] = offer[n]
        BY <2>4 DEF TypeOK
    <3>3. \A n \in Matches : UNCHANGED <<Free(n), Holders(n)>>
        BY <2>1 DEF Free, Holders, Taken
    <3>4. ASSUME NEW n \in Matches, status'[n] = "finished", n # m
          PROVE  status[n] = "finished" /\ offer'[n].accepted = offer[n].accepted
        BY <3>2, <3>4
    <3> QED BY <2>1, <3>1, <3>3, <3>4 DEF VotesOfPlayers
  <2> QED BY <2>1, <2>2, <2>3, <2>4
<1>4. ASSUME NEW m \in Matches, NEW i \in Indices, LeaveFilling(m, i) PROVE VotesOfPlayers'
  <2>1. UNCHANGED <<offer, forfeited>> /\ \A n \in Matches : n # m => seat'[n] = seat[n]
      BY <1>4 DEF LeaveFilling, TypeOK
  <2>2. \A n \in Matches : status'[n] = "finished" => status[n] = "finished" /\ n # m
      BY <1>4 DEF LeaveFilling, TypeOK
  <2> QED BY <2>1, <2>2, VotesKept
<1>5. ASSUME NEW m \in Matches, NEW i \in Indices, Forfeit(m, i) PROVE VotesOfPlayers'
  <2>1. \A n \in Matches : status'[n] = "finished" => status[n] = "finished" /\ n # m
      BY <1>5 DEF Forfeit, Collect, StatusAfter, TypeOK
  <2>2. /\ UNCHANGED <<seat, offer>>
        /\ \A n \in Matches, j \in Indices :
              n # m /\ <<n, j>> \in forfeited' => <<n, j>> \in forfeited
      BY <1>5 DEF Forfeit
  <2> QED BY <2>1, <2>2, VotesKept
<1>6. ASSUME NEW m \in Matches, NEW i \in Indices, RequestRematch(m, i) PROVE VotesOfPlayers'
  <2>1. /\ UNCHANGED <<status, seat, forfeited>>
        /\ \A n \in Matches : offer'[n].accepted = IF n = m THEN {} ELSE offer[n].accepted
      BY <1>6 DEF RequestRematch, NoOffer, TypeOK
  <2> QED BY <2>1 DEF VotesOfPlayers, Free, Holders, Taken
<1>7. ASSUME NEW m \in Matches, NEW i \in Indices, AcceptRematch(m, i) PROVE VotesOfPlayers'
  <2>1. /\ UNCHANGED <<seat, forfeited>>
        /\ \A n \in Matches : status'[n] = "finished" => status[n] = "finished"
      BY <1>7 DEF AcceptRematch, Collect, StatusAfter
  <2>2. \A n \in Matches : offer'[n].accepted =
              IF n = m THEN offer[n].accepted \cup {seat[m][i]} ELSE offer[n].accepted
      BY <1>7 DEF AcceptRematch, TypeOK
  <2>3. /\ offer[m].accepted \cup {seat[m][i]} \subseteq Holders(m)
        /\ \A j \in Indices :
              seat[m][j] \in offer[m].accepted \cup {seat[m][i]} => <<m, j>> \notin forfeited
      BY <1>7, AllIn DEF AcceptRematch
  <2>4. \A n \in Matches : UNCHANGED <<Free(n), Holders(n)>>
      BY <2>1 DEF Free, Holders, Taken
  <2>5. ASSUME NEW n \in Matches, status'[n] = "finished", n # m
        PROVE  offer'[n].accepted = offer[n].accepted
      BY <2>2, <2>5
  <2>6. offer'[m].accepted = offer[m].accepted \cup {seat[m][i]}
      BY <2>2
  <2> QED BY <2>1, <2>3, <2>4, <2>5, <2>6 DEF VotesOfPlayers
<1>8. ASSUME NEW m \in Matches, NEW i \in Indices, NEW k \in Matches, CompleteRematch(m, i, k)
      PROVE  VotesOfPlayers'
  <2>1. \A n \in Matches : status'[n] = "finished" => status[n] = "finished" /\ n # m /\ n # k
      BY <1>8 DEF CompleteRematch, MayVote, StatusAfter, TypeOK
  <2>2. /\ UNCHANGED forfeited
        /\ \A n \in Matches : n # k => seat'[n] = seat[n]
        /\ \A n \in Matches : n # m => offer'[n] = offer[n]
      BY <1>8 DEF CompleteRematch, TypeOK
  <2> QED BY <2>1, <2>2, VotesKept
<1>9. ASSUME NEW m \in Matches, NEW i \in Indices, DeclineRematch(m, i) PROVE VotesOfPlayers'
  <2>1. \A n \in Matches : status'[n] = "finished" => status[n] = "finished"
      BY <1>9 DEF DeclineRematch, Collect, StatusAfter
  <2>2. /\ UNCHANGED <<seat, forfeited>>
        /\ \A n \in Matches : offer'[n].accepted = offer[n].accepted
      BY <1>9 DEF DeclineRematch, TypeOK
  <2> QED BY <2>1, <2>2, VotesKept
<1>10. CASE Sweep
    BY <1>10, VotesKept DEF Sweep, Collect, StatusAfter
<1>11. CASE Elapse \/ UNCHANGED vars
    BY <1>11, VotesKept DEF Elapse, vars
<1>12. CASE Close
    BY <1>12 DEF Close, VotesOfPlayers
<1> QED BY <1>1, <1>2, <1>3, <1>4, <1>5, <1>6, <1>7, <1>8, <1>9, <1>10, <1>11, <1>12 DEF Next

\* The invariant of the vote holds throughout.
LEMMA VotesHold == Spec => []VoteInv
<1>1. Init => VotesOfPlayers
    BY DEF Init, VotesOfPlayers
<1>2. VoteInv /\ [Next]_vars => VotesOfPlayers'
    BY VoteStep
<1> QED BY <1>1, <1>2, SeatsAgree, ChannelsStayReleased, PTL DEF Spec, VoteInv

\* A live offer is ended by its vote alone: no sweep collects its match, whatever
\* resultsTtlMs and rematchWindowMs are (lazySweeps.ts, matchmaker.ts).
THEOREM OffersNotSwept == Spec => OfferNotSwept
<1>1. ASSUME VoteInv, [Next]_vars, NEW m \in Matches,
             status[m] = "finished", offer[m].made, ~WindowClosed(m), status'[m] = "collected"
      PROVE  offer'[m].declined # {} \/ offer'[m].accepted = Holders(m)
  <2> USE <1>1 DEF VoteInv, SeatInv
  <2>1. m \notin Due /\ status[m] # "collected"
      BY DEF Due, RematchLapsed, ResultsStale, UnstartedStale
  <2>2. ASSUME NEW n \in Matches, NEW s \in Sessions,
               CreateMatch(n, s) \/ JoinMatch(n, s) \/ JoinAndStart(n, s)
        PROVE  FALSE
      BY <2>1, <2>2 DEF CreateMatch, JoinMatch, JoinAndStart, StatusAfter, TypeOK
  <2>3. ASSUME NEW n \in Matches, JoinStartFails(n) \/ EngineTick(n) \/ TickError(n) PROVE FALSE
    <3>1. UNCHANGED status \/ status' = [status EXCEPT ![n] =
             IF status[n] = "running" THEN "finished" ELSE status[n]]
        BY <2>3 DEF JoinStartFails, EngineTick, TickError
    <3> QED BY <2>1, <3>1 DEF TypeOK
  <2>4. ASSUME NEW n \in Matches, NEW i \in Indices,
               LeaveFilling(n, i) \/ Forfeit(n, i) \/ RequestRematch(n, i) \/ AcceptRematch(n, i)
        PROVE  FALSE
    <3>1. \/ UNCHANGED status
          \/ status[n] # "finished" /\ status' = [status EXCEPT ![n] = "collected"]
          \/ status[n] # "finished" /\ status' = StatusAfter({n})
          \/ status' = StatusAfter(Due)
        BY <2>4 DEF LeaveFilling, Forfeit, RequestRematch, AcceptRematch, Collect
    <3> QED BY <2>1, <3>1 DEF StatusAfter, TypeOK
  <2>5. ASSUME NEW n \in Matches, NEW i \in Indices, DeclineRematch(n, i)
        PROVE  offer'[m].declined # {}
    <3>1. n = m
        BY <2>1, <2>5 DEF DeclineRematch, Collect, StatusAfter
    <3> QED BY <2>5, <3>1 DEF DeclineRematch, TypeOK
  <2>6. ASSUME NEW n \in Matches, NEW i \in Indices, NEW k \in Matches, CompleteRematch(n, i, k)
        PROVE  offer'[m].accepted = Holders(m)
    <3>1. n = m
        BY <2>1, <2>6, CollectedType DEF CompleteRematch, StatusAfter
    <3>2. offer'[m].accepted = offer[m].accepted \cup {seat[m][i]}
        BY <2>6, <3>1 DEF CompleteRematch, TypeOK
    <3> QED BY <2>6, <3>1, <3>2, AllIn DEF CompleteRematch
  <2>7. ~Sweep
      BY <2>1 DEF Sweep, Collect, StatusAfter
  <2>8. ~Elapse /\ ~Close /\ ~(UNCHANGED vars)
      BY <2>1 DEF Elapse, Close, vars
  <2> QED BY <2>2, <2>3, <2>4, <2>5, <2>6, <2>7, <2>8 DEF Next
<1> DEFINE Kept == \A m \in Matches :
              status[m] = "finished" /\ offer[m].made /\ ~WindowClosed(m)
                 /\ status'[m] = "collected"
                 => offer'[m].declined # {} \/ offer'[m].accepted = Holders(m)
<1>2. VoteInv /\ [Next]_vars => [Kept]_vars
    BY <1>1
<1>3. Spec => [][Kept]_vars
    BY <1>2, VotesHold, PTL DEF Spec
<1> QED BY <1>3 DEF OfferNotSwept

\* A match born full takes over the seats of a finished match all of whose
\* players accepted, none of whom had forfeited (matchmaker.ts castAcceptVote).
THEOREM RematchesUnanimous == Spec => RematchUnanimous
<1>1. ASSUME VoteInv, [Next]_vars, NEW n \in Matches,
             status[n] = "absent", status'[n] = "filling", Free(n)' = {}
      PROVE  \E m \in Matches :
                /\ status[m] = "finished"
                /\ offer'[m].accepted = Holders(m)
                /\ \A i \in Indices : <<m, i>> \notin forfeited
                /\ seat'[n] = seat[m]
  <2> USE <1>1 DEF VoteInv, SeatInv
  <2>1. ASSUME NEW m \in Matches, NEW s \in Sessions, CreateMatch(m, s) PROVE FALSE
    <3>1. n = m
        BY <2>1 DEF CreateMatch, StatusAfter
    <3>2. 1 \in Indices /\ 1 \in Free(n)
        BY SizeAssumption DEF SizeAssumption, AbsentEmpty, Free, Indices
    <3>3. seat'[n][1] = seat[n][1]
        BY <2>1, <3>1, <3>2 DEF CreateMatch, TypeOK
    <3> QED BY <3>2, <3>3 DEF Free, Taken
  <2>2. ASSUME NEW m \in Matches, NEW s \in Sessions, JoinMatch(m, s) \/ JoinAndStart(m, s)
        PROVE  FALSE
      BY <2>2 DEF JoinMatch, JoinAndStart, TypeOK
  <2>3. ASSUME NEW m \in Matches, JoinStartFails(m) \/ EngineTick(m) \/ TickError(m) PROVE FALSE
    <3>1. UNCHANGED status \/ status' = [status EXCEPT ![m] =
             IF status[m] = "running" THEN "finished" ELSE status[m]]
        BY <2>3 DEF JoinStartFails, EngineTick, TickError
    <3> QED BY <3>1 DEF TypeOK
  <2>4. ASSUME NEW m \in Matches, NEW i \in Indices,
               \/ LeaveFilling(m, i) \/ Forfeit(m, i) \/ RequestRematch(m, i)
               \/ AcceptRematch(m, i) \/ DeclineRematch(m, i)
        PROVE  FALSE
    <3>1. \/ UNCHANGED status
          \/ status' = [status EXCEPT ![m] = "collected"]
          \/ \E ms : status' = StatusAfter(ms)
        BY <2>4 DEF LeaveFilling, Forfeit, RequestRematch, AcceptRematch, DeclineRematch, Collect
    <3> QED BY <3>1 DEF StatusAfter, TypeOK
  <2>5. ASSUME NEW m \in Matches, NEW i \in Indices, NEW k \in Matches, CompleteRematch(m, i, k)
        PROVE  /\ status[m] = "finished"
               /\ offer'[m].accepted = Holders(m)
               /\ \A j \in Indices : <<m, j>> \notin forfeited
               /\ seat'[n] = seat[m]
    <3>1. n = k
        BY <2>5, CollectedType DEF CompleteRematch, StatusAfter
    <3>2. offer[m].accepted \cup {seat[m][i]} = Holders(m) /\ status[m] = "finished"
        BY <2>5, AllIn DEF CompleteRematch, MayVote
    <3>3. offer'[m].accepted = offer[m].accepted \cup {seat[m][i]}
        BY <2>5 DEF CompleteRematch, TypeOK
    <3>4. \A j \in Indices : seat[m][j] \in Holders(m)
        BY <3>2 DEF VotesOfPlayers, Free, Holders, Taken
    <3>5. \A j \in Indices : seat[m][j] \in offer[m].accepted \cup {seat[m][i]} =>
             <<m, j>> \notin forfeited
        BY <2>5, AllIn DEF CompleteRematch
    <3>6. seat'[n] = seat[m]
        BY <2>5, <3>1 DEF CompleteRematch, TypeOK
    <3> QED BY <3>2, <3>3, <3>4, <3>5, <3>6
  <2>6. ~Sweep
      BY DEF Sweep, Collect, StatusAfter
  <2>7. ~Elapse /\ ~Close /\ ~(UNCHANGED vars)
      BY DEF Elapse, Close, vars
  <2> QED BY <2>1, <2>2, <2>3, <2>4, <2>5, <2>6, <2>7 DEF Next
<1> DEFINE Unanimous == \A n \in Matches :
              status[n] = "absent" /\ status'[n] = "filling" /\ Free(n)' = {}
                 => \E m \in Matches :
                       /\ status[m] = "finished"
                       /\ offer'[m].accepted = Holders(m)
                       /\ \A i \in Indices : <<m, i>> \notin forfeited
                       /\ seat'[n] = seat[m]
<1>2. VoteInv /\ [Next]_vars => [Unanimous]_vars
    BY <1>1
<1>3. Spec => [][Unanimous]_vars
    BY <1>2, VotesHold, PTL DEF Spec
<1> QED BY <1>3 DEF RematchUnanimous

----------------------------------------------------------------------------
(* What callers are promised about the seats *)

\* Only a match that has started has forfeited seats, and while it runs their
\* players are no longer alive in it.
ForfeitsOut ==
    \A m \in Matches : \A i \in Indices : <<m, i>> \in forfeited =>
       /\ status[m] \notin {"absent", "filling"}
       /\ status[m] = "running" => i \notin alive[m]

PromiseInv == VoteInv /\ ForfeitsOut

\* A match that neither appears, starts nor gains a living player, and whose
\* forfeits stay, is fine.
LEMMA ForfeitsKept ==
    ASSUME ForfeitsOut,
           \A m \in Matches : \A i \in Indices : <<m, i>> \in forfeited' =>
              /\ <<m, i>> \in forfeited
              /\ status'[m] \in {"absent", "filling"} => status[m] \in {"absent", "filling"}
              /\ status'[m] = "running" /\ i \in alive'[m] =>
                    status[m] \in {"absent", "filling"} \/ (status[m] = "running" /\ i \in alive[m])
    PROVE  ForfeitsOut'
BY DEF ForfeitsOut

\* Every step keeps the forfeits with the matches that started.
LEMMA ForfeitsStep == TypeOK /\ ForfeitsOut /\ [Next]_vars => ForfeitsOut'
<1> SUFFICES ASSUME TypeOK, ForfeitsOut, [Next]_vars PROVE ForfeitsOut'
    OBVIOUS
<1>1. ASSUME UNCHANGED <<forfeited, alive>>,
             \A m \in Matches : \/ status'[m] \in {status[m], "finished", "collected"}
                                \/ status[m] = "absent"
      PROVE  ForfeitsOut'
    BY <1>1, ForfeitsKept
<1>2. ASSUME NEW m \in Matches, NEW s \in Sessions, CreateMatch(m, s) \/ JoinMatch(m, s)
      PROVE  ForfeitsOut'
    BY <1>1, <1>2 DEF CreateMatch, JoinMatch, StatusAfter, TypeOK
<1>3. ASSUME NEW m \in Matches, NEW s \in Sessions, JoinAndStart(m, s) PROVE ForfeitsOut'
    BY <1>3, ForfeitsKept DEF JoinAndStart, TypeOK
<1>4. ASSUME NEW m \in Matches, JoinStartFails(m) \/ TickError(m) PROVE ForfeitsOut'
    BY <1>1, <1>4 DEF JoinStartFails, TickError
<1>5. ASSUME NEW m \in Matches, EngineTick(m) PROVE ForfeitsOut'
  <2>1. PICK lost \in SUBSET alive[m] :
           /\ alive' = [alive EXCEPT ![m] = alive[m] \ lost]
           /\ \/ status' = [status EXCEPT ![m] =
                               IF status[m] = "running" THEN "finished" ELSE status[m]]
              \/ status' = status
      BY <1>5 DEF EngineTick
  <2>2. forfeited' = forfeited
      BY <1>5 DEF EngineTick
  <2> QED BY <2>1, <2>2, ForfeitsKept DEF TypeOK
<1>6. ASSUME NEW m \in Matches, NEW i \in Indices, Forfeit(m, i) PROVE ForfeitsOut'
  <2>1. /\ forfeited' = forfeited \cup {<<m, i>>}
        /\ alive' = [alive EXCEPT ![m] = @ \ {i}]
        /\ status[m] = "running"
        /\ status' = status \/ status' = StatusAfter({m})
      BY <1>6 DEF Forfeit, Collect
  <2> QED BY <2>1 DEF ForfeitsOut, StatusAfter, TypeOK
<1>7. ASSUME NEW m \in Matches, NEW i \in Indices, LeaveFilling(m, i) PROVE ForfeitsOut'
    BY <1>1, <1>7 DEF LeaveFilling, TypeOK
<1>8. ASSUME NEW m \in Matches, NEW i \in Indices,
             RequestRematch(m, i) \/ AcceptRematch(m, i) \/ DeclineRematch(m, i)
      PROVE  ForfeitsOut'
    BY <1>1, <1>8 DEF RequestRematch, AcceptRematch, DeclineRematch, Collect, StatusAfter
<1>9. ASSUME NEW m \in Matches, NEW i \in Indices, NEW n \in Matches, CompleteRematch(m, i, n)
      PROVE  ForfeitsOut'
    BY <1>1, <1>9 DEF CompleteRematch, StatusAfter
<1>10. CASE Sweep
    BY <1>1, <1>10 DEF Sweep, Collect, StatusAfter
<1>11. CASE Elapse \/ UNCHANGED vars
    BY <1>1, <1>11 DEF Elapse, vars
<1>12. CASE Close
    BY <1>12 DEF Close, ForfeitsOut
<1> QED BY <1>2, <1>3, <1>4, <1>5, <1>6, <1>7, <1>8, <1>9, <1>10, <1>11, <1>12 DEF Next

\* The invariant of the promise holds throughout.
LEMMA PromiseKept == Spec => []PromiseInv
<1>1. Init => ForfeitsOut
    BY DEF Init, ForfeitsOut
<1>2. VoteInv => TypeOK
    BY DEF VoteInv, SeatInv
<1>3. VoteInv /\ ForfeitsOut /\ [Next]_vars => ForfeitsOut'
    BY <1>2, ForfeitsStep
<1> QED BY <1>1, <1>3, VotesHold, PTL DEF Spec, PromiseInv

\* The seats of every match are numbered alike.
LEMMA PromisedIndices ==
    ASSUME NEW m \in Matches
    PROVE  Promised!Indices(m) = Indices
BY DEF Promised!Indices, Sizes, Indices

\* The record that callers know of one match.
LEMMA RecordNow ==
    ASSUME NEW m \in Matches
    PROVE  /\ status[m] \in {"finished", "collected"} => SeatRecords[m] = Promised!Over(m)
           /\ status[m] = "absent" => SeatRecords[m] = Promised!With("absent", Promised!Empty(m))
           /\ TypeOK /\ status[m] = "filling" =>
                 SeatRecords[m] = Promised!With("filling", seat[m])
           /\ TypeOK /\ status[m] = "running" => SeatRecords[m] =
                 [status |-> "running", seat |-> seat[m],
                  forfeited |-> {i \in Indices : <<m, i>> \in forfeited}]
BY PromisedIndices DEF SeatRecords, Promised!Over, Promised!With, Promised!Empty, TypeOK

\* The record that callers know of one match after a step.
LEMMA RecordNext ==
    ASSUME NEW m \in Matches
    PROVE  /\ status'[m] \in {"finished", "collected"} => SeatRecords'[m] = Promised!Over(m)
           /\ status'[m] = "absent" =>
                 SeatRecords'[m] = Promised!With("absent", Promised!Empty(m))
           /\ TypeOK' /\ status'[m] = "filling" =>
                 SeatRecords'[m] = Promised!With("filling", seat'[m])
           /\ TypeOK' /\ status'[m] = "running" => SeatRecords'[m] =
                 [status |-> "running", seat |-> seat'[m],
                  forfeited |-> {i \in Indices : <<m, i>> \in forfeited'}]
BY PromisedIndices DEF SeatRecords, Promised!Over, Promised!With, Promised!Empty, TypeOK

\* A step after which callers know the same of a match.
SameRecord(m) ==
    \/ /\ UNCHANGED <<status[m], seat[m]>>
       /\ \A i \in Indices : <<m, i>> \in forfeited' <=> <<m, i>> \in forfeited
    \/ {status[m], status'[m]} \subseteq {"finished", "collected"}

LEMMA SameRecordKnown ==
    ASSUME NEW m \in Matches, SameRecord(m)
    PROVE  SeatRecords'[m] = SeatRecords[m]
BY DEF SameRecord, SeatRecords

\* Who waits for callers is who waits.
LEMMA PromisedWaiting == Promised!Waiting = {m \in Matches : status[m] = "filling"}
BY DEF Promised!Waiting, SeatRecords

\* A session that is not seated in a live match is free to enter one.
LEMMA IdleSession ==
    ASSUME NEW s \in Sessions,
           \A m \in Matches : status[m] \in {"filling", "running"} => s \notin Holders(m)
    PROVE  s \in Promised!Idle
<1>1. ASSUME NEW m \in Matches, NEW i \in Indices, SeatRecords[m].seat[i] = s PROVE FALSE
    BY <1>1, NullAssumption DEF SeatRecords, Holders, Taken, NullAssumption
<1> QED BY <1>1, PromisedIndices DEF Promised!Idle

\* A session that is not in the store is free to enter a match.
LEMMA NewSessionIdle ==
    ASSUME SeatsBacked, NEW s \in Sessions \ store
    PROVE  s \in Promised!Idle
<1>1. ASSUME NEW m \in Matches, status[m] \in {"filling", "running"} PROVE s \notin Holders(m)
    BY <1>1 DEF SeatsBacked, Live, Holders
<1> QED BY <1>1, IdleSession

\* A step that only ends waiting matches keeps the promise.
LEMMA OnlyExpiries ==
    ASSUME \A k \in Matches : \/ SameRecord(k)
                              \/ status[k] = "filling" /\ status'[k] = "collected"
    PROVE  Promised!Next
<1> DEFINE gone == {k \in Matches : status[k] = "filling" /\ status'[k] = "collected"}
<1>1. gone \in SUBSET Promised!Waiting
    BY PromisedWaiting
<1>2. ASSUME NEW k \in Matches
      PROVE  SeatRecords'[k] = IF k \in gone THEN Promised!Over(k) ELSE SeatRecords[k]
    BY RecordNext, SameRecordKnown
<1>3. SeatRecords' = Promised!Without(gone)
  <2>1. SeatRecords' = [k \in Matches |-> SeatRecords'[k]]
      BY DEF SeatRecords
  <2> HIDE DEF gone
  <2> QED BY <1>2, <2>1 DEF Promised!Without
<1> QED BY <1>1, <1>3 DEF Promised!Next, Promised!Call

\* So does one that besides brings one match to one of its outcomes.
LEMMA OneOutcome ==
    ASSUME NEW m \in Matches, SeatRecords'[m] \in Promised!Outcomes(m),
           \A k \in Matches \ {m} : \/ SameRecord(k)
                                    \/ status[k] = "filling" /\ status'[k] = "collected"
    PROVE  Promised!Next
<1> DEFINE gone == {k \in Matches \ {m} : status[k] = "filling" /\ status'[k] = "collected"}
<1>1. gone \in SUBSET Promised!Waiting /\ m \in Matches \ gone
    BY PromisedWaiting
<1>2. ASSUME NEW k \in Matches \ {m}
      PROVE  SeatRecords'[k] = IF k \in gone THEN Promised!Over(k) ELSE SeatRecords[k]
    BY RecordNext, SameRecordKnown
<1>3. SeatRecords' = [Promised!Without(gone) EXCEPT ![m] = SeatRecords'[m]]
  <2>1. SeatRecords' = [k \in Matches |-> SeatRecords'[k]]
      BY DEF SeatRecords
  <2> HIDE DEF gone
  <2> QED BY <1>2, <2>1 DEF Promised!Without
<1> QED BY <1>1, <1>3 DEF Promised!Next, Promised!Call

\* A match is opened by a player of no other match.
LEMMA CreatePromised ==
    ASSUME PromiseInv, TypeOK', NEW m \in Matches, NEW s \in Sessions, CreateMatch(m, s)
    PROVE  Promised!Next
<1> USE DEF PromiseInv, VoteInv, SeatInv
<1>1. status[m] = "absent" /\ m \notin Due /\ 0 \in Indices
    BY SizeAssumption DEF CreateMatch, Due, RematchLapsed, ResultsStale, UnstartedStale,
                          Indices, SizeAssumption
<1>2. status'[m] = "filling" /\ seat'[m] = [Promised!Empty(m) EXCEPT ![0] = s]
  <2>1. seat[m] = Promised!Empty(m)
      BY <1>1, PromisedIndices DEF AbsentEmpty, Taken, Promised!Empty, TypeOK
  <2> QED BY <1>1, <2>1 DEF CreateMatch, StatusAfter, TypeOK
<1>3. SeatRecords'[m] \in Promised!Outcomes(m)
  <2>1. SeatRecords'[m] = Promised!With("filling", [Promised!Empty(m) EXCEPT ![0] = s])
      BY <1>2, RecordNext
  <2>2. s \in Promised!Idle
      BY NewSessionIdle DEF CreateMatch
  <2>3. SeatRecords'[m] \in Promised!Created(m)
      BY <2>1, <2>2 DEF Promised!Created
  <2>4. SeatRecords[m].status = "absent"
      BY <1>1 DEF SeatRecords
  <2> QED BY <2>3, <2>4 DEF Promised!Outcomes
<1>4. ASSUME NEW k \in Matches \ {m}
      PROVE  SameRecord(k) \/ (status[k] = "filling" /\ status'[k] = "collected")
    BY DEF CreateMatch, StatusAfter, Due, RematchLapsed, ResultsStale, UnstartedStale,
           SameRecord, TypeOK
<1> QED BY <1>1, <1>3, <1>4, OneOutcome

\* A joining player takes the lowest open seat; with the last one the match starts.
LEMMA JoinPromised ==
    ASSUME PromiseInv, TypeOK', NEW m \in Matches, NEW s \in Sessions,
           JoinMatch(m, s) \/ JoinAndStart(m, s)
    PROVE  Promised!Next
<1> USE DEF PromiseInv, VoteInv, SeatInv
<1>1. PICK i \in Free(m) : /\ \A j \in Free(m) : i <= j
                           /\ seat' = [seat EXCEPT ![m][i] = s]
    BY DEF JoinMatch, JoinAndStart, TakeSeat
<1>2. status[m] = "filling" /\ s \notin store /\ UNCHANGED forfeited
    BY DEF JoinMatch, JoinAndStart
<1>3. /\ Promised!Open(m) = Free(m)
      /\ SeatRecords[m].status = "filling" /\ SeatRecords[m].seat = seat[m]
  <2>1. SeatRecords[m] = Promised!With("filling", seat[m])
      BY <1>2, RecordNow
  <2> QED BY <2>1, PromisedIndices
          DEF Promised!Open, Promised!Taken, Promised!With, Free, Taken
<1>4. seat'[m] = [seat[m] EXCEPT ![i] = s]
    BY <1>1 DEF TypeOK
<1>5. SeatRecords'[m] =
         Promised!With(IF Free(m) = {i} THEN "running" ELSE "filling", seat'[m])
  <2>1. CASE JoinMatch(m, s)
    <3>1. Free(m) # {i}
        BY <2>1, FS_Singleton DEF JoinMatch
    <3> QED BY <1>2, <2>1, <3>1, RecordNext DEF JoinMatch
  <2>2. CASE JoinAndStart(m, s)
    <3>1. Free(m) = {i}
        BY <1>1, <2>2, FreeCount DEF JoinAndStart
    <3>2. \A j \in Indices : <<m, j>> \notin forfeited'
        BY <1>2 DEF ForfeitsOut
    <3>3. status'[m] = "running"
        BY <2>2 DEF JoinAndStart, TypeOK
    <3> QED BY <3>1, <3>2, <3>3, RecordNext DEF Promised!With
  <2> QED BY <2>1, <2>2
<1>6. SeatRecords'[m] \in Promised!Outcomes(m)
  <2>1. s \in Promised!Idle
      BY <1>2, NewSessionIdle
  <2>2. SeatRecords'[m] \in Promised!Joined(m)
      BY <1>1, <1>3, <1>4, <1>5, <2>1 DEF Promised!Joined
  <2> QED BY <1>3, <2>2 DEF Promised!Outcomes
<1>7. ASSUME NEW k \in Matches \ {m} PROVE SameRecord(k)
    BY <1>1 DEF JoinMatch, JoinAndStart, SameRecord, TypeOK
<1> QED BY <1>6, <1>7, OneOutcome

\* A player who leaves before the start frees one seat, or ends the match.
LEMMA LeavePromised ==
    ASSUME PromiseInv, TypeOK', NEW m \in Matches, NEW i \in Indices, LeaveFilling(m, i)
    PROVE  Promised!Next
<1> USE DEF PromiseInv, VoteInv, SeatInv
<1>1. /\ status[m] = "filling" /\ i \in Taken(m)
      /\ seat' = [seat EXCEPT ![m][i] = NoSession]
      /\ status' = IF Taken(m) = {i} THEN [status EXCEPT ![m] = "collected"] ELSE status
    BY DEF LeaveFilling
<1>2. SeatRecords[m] = Promised!With("filling", seat[m])
    BY <1>1, RecordNow
<1>3. Promised!Taken(m) = Taken(m)
    BY <1>2, PromisedIndices DEF Promised!Taken, Promised!With, Taken
<1>4. seat'[m] = [seat[m] EXCEPT ![i] = NoSession]
    BY <1>1 DEF TypeOK
<1>5. SeatRecords'[m] = IF Taken(m) = {i} THEN Promised!Over(m)
                                          ELSE Promised!With("filling", seat'[m])
    BY <1>1, RecordNext DEF TypeOK
<1>6. SeatRecords'[m] \in Promised!Outcomes(m)
  <2>1. SeatRecords[m].seat = seat[m] /\ SeatRecords[m].status = "filling"
      BY <1>2 DEF Promised!With
  <2>2. SeatRecords'[m] =
           IF Promised!Taken(m) = {i}
           THEN Promised!Over(m)
           ELSE Promised!With("filling", [SeatRecords[m].seat EXCEPT ![i] = NoSession])
      BY <1>3, <1>4, <1>5, <2>1
  <2>3. SeatRecords'[m] \in Promised!Left(m)
      BY <1>1, <1>3, <2>2 DEF Promised!Left
  <2> QED BY <2>1, <2>3 DEF Promised!Outcomes
<1>7. ASSUME NEW k \in Matches \ {m} PROVE SameRecord(k)
    BY <1>1 DEF LeaveFilling, SameRecord, TypeOK
<1> QED BY <1>6, <1>7, OneOutcome

\* A forfeit leaves the match to the players who are still in it, or ends it.
LEMMA ForfeitPromised ==
    ASSUME PromiseInv, TypeOK', NEW m \in Matches, NEW i \in Indices, Forfeit(m, i)
    PROVE  Promised!Next
<1> USE DEF PromiseInv, VoteInv, SeatInv
<1>1. /\ status[m] = "running" /\ <<m, i>> \notin forfeited
      /\ forfeited' = forfeited \cup {<<m, i>>} /\ seat' = seat
      /\ IF alive[m] \subseteq {i} THEN status' = StatusAfter({m}) ELSE status' = status
    BY DEF Forfeit, Collect
<1> DEFINE out == {j \in Indices : <<m, j>> \in forfeited}
<1>2. SeatRecords[m] = [status |-> "running", seat |-> seat[m], forfeited |-> out]
    BY <1>1, RecordNow
<1>3. SeatRecords'[m] \in Promised!Forfeited(m) \cup {Promised!Over(m)}
  <2>1. CASE alive[m] \subseteq {i}
      BY <1>1, <2>1, RecordNext DEF StatusAfter
  <2>2. CASE ~(alive[m] \subseteq {i})
    <3>1. SeatRecords'[m] =
             [status |-> "running", seat |-> seat[m], forfeited |-> out \cup {i}]
        BY <1>1, <2>2, RecordNext
    <3>2. PICK j \in alive[m] : j # i
        BY <2>2
    <3>3. j \in Indices \ out
        BY <1>1, <3>2 DEF ForfeitsOut, TypeOK
    <3> HIDE DEF out
    <3>4. SeatRecords'[m] = [SeatRecords[m] EXCEPT !.forfeited = @ \cup {i}]
        BY <1>2, <3>1
    <3>5. /\ i \in Indices \ SeatRecords[m].forfeited
          /\ Indices \ SeatRecords[m].forfeited # {i}
        BY <1>1, <1>2, <3>2, <3>3 DEF out
    <3> QED BY <3>4, <3>5, PromisedIndices DEF Promised!Forfeited
  <2> QED BY <2>1, <2>2
<1>4. SeatRecords[m].status = "running"
    BY <1>2
<1>5. ASSUME NEW k \in Matches \ {m} PROVE SameRecord(k)
    BY <1>1 DEF StatusAfter, SameRecord, TypeOK
<1> QED BY <1>3, <1>4, <1>5, OneOutcome DEF Promised!Outcomes

\* A tick ends its match or leaves its seats alone.
LEMMA TickPromised ==
    ASSUME PromiseInv, NEW m \in Matches, EngineTick(m)
    PROVE  Promised!Next
<1> USE DEF PromiseInv, VoteInv, SeatInv
<1>1. /\ UNCHANGED <<seat, forfeited>> /\ channel[m] = "live"
      /\ \/ status' = status
         \/ status' = [status EXCEPT ![m] =
                          IF status[m] = "running" THEN "finished" ELSE status[m]]
    BY DEF EngineTick
<1>2. status[m] \in {"running", "finished"}
    BY <1>1 DEF ChannelsReleased
<1>3. CASE status'[m] = status[m]
    BY <1>1, <1>3, OnlyExpiries DEF SameRecord, TypeOK
<1>4. CASE status'[m] # status[m]
  <2>1. status[m] = "running" /\ status'[m] = "finished"
      BY <1>1, <1>4 DEF TypeOK
  <2>2. SeatRecords'[m] = Promised!Over(m) /\ SeatRecords[m].status = "running"
      BY <2>1, RecordNext DEF SeatRecords
  <2>3. ASSUME NEW k \in Matches \ {m} PROVE SameRecord(k)
      BY <1>1 DEF SameRecord, TypeOK
  <2> QED BY <2>2, <2>3, OneOutcome DEF Promised!Outcomes
<1> QED BY <1>3, <1>4

\* The players of a finished match meet again in a new one, and in no other.
LEMMA RematchPromised ==
    ASSUME PromiseInv, TypeOK', NEW m \in Matches, NEW i \in Indices, NEW n \in Matches,
           CompleteRematch(m, i, n)
    PROVE  Promised!Next
<1> USE DEF PromiseInv, VoteInv, SeatInv
<1>1. /\ status[m] = "finished" /\ status[n] = "absent"
      /\ status' = [StatusAfter(Due \cup {m}) EXCEPT ![n] = "filling"]
      /\ seat' = [seat EXCEPT ![n] = seat[m]]
      /\ UNCHANGED forfeited
    BY DEF CompleteRematch, MayVote
<1>2. Free(m) = {} /\ m \in Live
    BY <1>1 DEF VotesOfPlayers, Live
<1>3. seat[m] \in Promised!Injection(Promised!Indices(n), Promised!Idle)
  <2>1. ASSUME NEW j \in Indices PROVE seat[m][j] \in Promised!Idle
    <3>1. seat[m][j] \in Sessions /\ bound[seat[m][j]] = m
        BY <1>2 DEF Free, Taken, SeatsBacked, TypeOK
    <3>2. ASSUME NEW k \in Matches, status[k] \in {"filling", "running"}
          PROVE  seat[m][j] \notin Holders(k)
        BY <1>1, <3>1, <3>2 DEF SeatsBacked, Live, Holders
    <3> QED BY <3>1, <3>2, IdleSession
  <2>2. ASSUME NEW j \in Indices, NEW k \in Indices, seat[m][j] = seat[m][k] PROVE j = k
      BY <1>2, <2>2 DEF Free, SeatsBacked
  <2>3. seat[m] \in [Indices -> Promised!Idle]
      BY <2>1 DEF TypeOK
  <2> QED BY <2>2, <2>3, PromisedIndices DEF Promised!Injection, Promised!IsInjective
<1>4. SeatRecords'[n] = Promised!With("filling", seat[m])
  <2>1. status'[n] = "filling" /\ seat'[n] = seat[m]
      BY <1>1 DEF StatusAfter, TypeOK
  <2> QED BY <2>1, RecordNext
<1>5. SeatRecords[n].status = "absent"
    BY <1>1 DEF SeatRecords
<1>6. SeatRecords'[n] \in Promised!Outcomes(n)
    BY <1>3, <1>4, <1>5 DEF Promised!Outcomes, Promised!Reunited
<1>7. ASSUME NEW k \in Matches \ {n}
      PROVE  SameRecord(k) \/ (status[k] = "filling" /\ status'[k] = "collected")
    BY <1>1 DEF StatusAfter, Due, RematchLapsed, ResultsStale, UnstartedStale, SameRecord,
                TypeOK
<1> QED BY <1>6, <1>7, OneOutcome

\* Every step does to the seats what callers are promised.
LEMMA StepPromised ==
    PromiseInv /\ TypeOK' /\ [Next]_vars => Promised!Next
<1> SUFFICES ASSUME PromiseInv, TypeOK', [Next]_vars PROVE Promised!Next
    OBVIOUS
<1>0. TypeOK
    BY DEF PromiseInv, VoteInv, SeatInv
<1>1. ASSUME UNCHANGED <<status, seat, forfeited>> PROVE Promised!Next
    BY <1>1, OnlyExpiries DEF SameRecord
<1>2. ASSUME NEW ms, Collect(ms), UNCHANGED <<seat, forfeited>>,
             \A k \in ms : status[k] \in {"filling", "finished", "collected"}
      PROVE  Promised!Next
    BY <1>2, OnlyExpiries DEF Collect, StatusAfter, SameRecord
<1>3. \A k \in Due : status[k] \in {"filling", "finished", "collected"}
    BY DEF Due, RematchLapsed, ResultsStale, UnstartedStale
<1>4. ASSUME NEW m \in Matches, NEW s \in Sessions,
             CreateMatch(m, s) \/ JoinMatch(m, s) \/ JoinAndStart(m, s)
      PROVE  Promised!Next
    BY <1>4, CreatePromised, JoinPromised
<1>5. ASSUME NEW m \in Matches, JoinStartFails(m) \/ EngineTick(m) \/ TickError(m)
      PROVE  Promised!Next
    BY <1>1, <1>5, TickPromised DEF JoinStartFails, TickError
<1>6. ASSUME NEW m \in Matches, NEW i \in Indices, LeaveFilling(m, i) \/ Forfeit(m, i)
      PROVE  Promised!Next
    BY <1>6, LeavePromised, ForfeitPromised
<1>7. ASSUME NEW m \in Matches, NEW i \in Indices,
             RequestRematch(m, i) \/ AcceptRematch(m, i) \/ DeclineRematch(m, i)
      PROVE  Promised!Next
  <2>1. CASE RequestRematch(m, i)
      BY <1>1, <2>1 DEF RequestRematch
  <2>2. CASE AcceptRematch(m, i)
      BY <1>2, <1>3, <2>2 DEF AcceptRematch
  <2>3. CASE DeclineRematch(m, i)
      BY <1>2, <2>3 DEF DeclineRematch, MayVote
  <2> QED BY <1>7, <2>1, <2>2, <2>3
<1>8. ASSUME NEW m \in Matches, NEW i \in Indices, NEW n \in Matches, CompleteRematch(m, i, n)
      PROVE  Promised!Next
    BY <1>8, RematchPromised
<1>9. CASE Sweep
    BY <1>2, <1>3, <1>9 DEF Sweep
<1>10. CASE Elapse \/ UNCHANGED vars
    BY <1>1, <1>10 DEF Elapse, vars
<1>11. CASE Close
  <2>1. \A m \in Matches : SeatRecords'[m] = Promised!With("absent", Promised!Empty(m))
      BY <1>11, RecordNext DEF Close
  <2>2. SeatRecords' = [m \in Matches |-> SeatRecords'[m]]
      BY DEF SeatRecords
  <2> QED BY <2>1, <2>2 DEF Promised!Next, Promised!Close, Promised!Nothing
<1> QED BY <1>4, <1>5, <1>6, <1>7, <1>8, <1>9, <1>10, <1>11 DEF Next

\* The matchmaker, with its sweeps, its rollbacks and its two ways of ending a
\* match, does to the seats only what MatchSeats promises (matchmaker.ts,
\* matchLifecycle.ts, forfeit.ts, lazySweeps.ts).
THEOREM SeatsKeptAsPromised == Spec => SeatsAsPromised
<1>1. Init => Promised!Init
  <2> SUFFICES ASSUME Init PROVE Promised!Init
      OBVIOUS
  <2>1. \A m \in Matches : SeatRecords[m] = Promised!With("absent", Promised!Empty(m))
      BY RecordNow DEF Init
  <2>2. SeatRecords = [m \in Matches |-> SeatRecords[m]]
      BY DEF SeatRecords
  <2> QED BY <2>1, <2>2 DEF Promised!Init, Promised!Nothing
<1>2. PromiseInv /\ TypeOK' /\ [Next]_vars => [Promised!Next]_SeatRecords
    BY StepPromised
<1> QED BY <1>1, <1>2, PromiseKept, TypeCorrect, PTL DEF Spec, SeatsAsPromised, Promised!Spec

=============================================================================
