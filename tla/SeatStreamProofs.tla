-------------------------- MODULE SeatStreamProofs --------------------------
(***************************************************************************)
(* Proofs about SeatStream, for every depth of the ring buffer, number of  *)
(* ticks, contents of the board and kinds of events.                       *)
(***************************************************************************)
EXTENDS SeatStream, FiniteSetTheorems, TLAPS

USE StreamAssumption DEF StreamAssumption

LEMMA FrameTyped ==
    ASSUME NEW k \in {"full", "tick"}, NEW t \in 0..MaxTick, NEW v \in Views
    PROVE  Frame(k, t, v) \in Frames
BY DEF Frame, Frames

LEMMA Prepended ==
    ASSUME NEW f \in Frames, NEW r \in Seq(Frames)
    PROVE  /\ <<f>> \o r \in Seq(Frames)
           /\ Len(<<f>> \o r) = Len(r) + 1
           /\ (<<f>> \o r)[1] = f
           /\ \A i \in 2..(Len(r) + 1) : (<<f>> \o r)[i] = r[i - 1]
OBVIOUS

\* What a reconnect puts on the wire, frame by frame.
Replays(w, stored) ==
    /\ w \in Seq(Frames)
    /\ Len(w) >= 1
    /\ w[1] = Frame("full", tick, now)
    /\ \A i \in 2..Len(w) :
          /\ i - 1 \in DOMAIN stored
          /\ stored[i - 1] \in DOMAIN entries
          /\ w[i] = Frame("tick", stored[i - 1], entries[stored[i - 1]])

LEMMA ReplayEntries ==
    ASSUME TypeOK, NEW stored \in GetSince(0),
           NEW w, w = <<Frame("full", tick, now)>>
                         \o [i \in DOMAIN stored |-> Frame("tick", stored[i], entries[stored[i]])]
    PROVE  Replays(w, stored)
<1> DEFINE f == Frame("full", tick, now)
<1>0. f \in Frames
  BY FrameTyped DEF TypeOK
<1> HIDE DEF f
<1> DEFINE due == {u \in DOMAIN entries : u > 0}
           n == Cardinality(due)
           r == [i \in DOMAIN stored |-> Frame("tick", stored[i], entries[stored[i]])]
<1>1. IsFiniteSet(due) /\ n \in Nat
  <2>1. due \subseteq 1..MaxTick
    BY DEF TypeOK
  <2>2. IsFiniteSet(1..MaxTick)
    BY FS_Interval
  <2>3. IsFiniteSet(due)
    BY <2>1, <2>2, FS_Subset
  <2> QED BY <2>3, FS_CardinalityType
<1>2. stored \in [1..n -> due] /\ DOMAIN stored = 1..n
  BY DEF GetSince
<1>3. \A i \in 1..n : stored[i] \in DOMAIN entries
  BY <1>2
<1>4. \A i \in 1..n : Frame("tick", stored[i], entries[stored[i]]) \in Frames
  <2> SUFFICES ASSUME NEW i \in 1..n PROVE Frame("tick", stored[i], entries[stored[i]]) \in Frames
    OBVIOUS
  <2>1. stored[i] \in 0..MaxTick /\ entries[stored[i]] \in Views
    BY <1>3 DEF TypeOK
  <2> QED BY <2>1, FrameTyped
<1>5. r = [i \in 1..n |-> Frame("tick", stored[i], entries[stored[i]])]
  BY <1>2
<1> HIDE DEF n
<1>6. r \in Seq(Frames) /\ Len(r) = n /\ \A i \in 1..n : r[i] = Frame("tick", stored[i], entries[stored[i]])
  BY <1>1, <1>4, <1>5
<1> HIDE DEF r
<1>7. w = <<f>> \o r
  BY DEF r, f
<1>8. /\ w \in Seq(Frames) /\ Len(w) = n + 1 /\ w[1] = f
      /\ \A i \in 2..Len(w) : w[i] = r[i - 1]
  <2>1. /\ <<f>> \o r \in Seq(Frames)
        /\ Len(<<f>> \o r) = Len(r) + 1
        /\ (<<f>> \o r)[1] = f
        /\ \A i \in 2..(Len(r) + 1) : (<<f>> \o r)[i] = r[i - 1]
    BY <1>0, <1>6, Prepended
  <2> QED BY <1>6, <1>7, <2>1
<1> QED BY <1>1, <1>2, <1>3, <1>6, <1>8 DEF Replays, f

----------------------------------------------------------------------------
(* Types *)

LEMMA PushTyped ==
    ASSUME TypeOK, NEW t \in 1..MaxTick, NEW v \in Views, Push(t, v)
    PROVE  /\ DOMAIN entries' \subseteq 1..MaxTick
           /\ entries' \in [DOMAIN entries' -> Views]
           /\ firstTick' \in 0..MaxTick
           /\ lastTick' \in -1..MaxTick
<1>1. DOMAIN entries' \subseteq 1..MaxTick /\ entries' \in [DOMAIN entries' -> Views]
  <2> DEFINE D == (DOMAIN entries
                     \ (IF Cardinality(DOMAIN entries) >= Depth THEN {firstTick} ELSE {})) \cup {t}
  <2>1. entries' = [u \in D |-> IF u = t THEN v ELSE entries[u]]
    BY DEF Push
  <2>2. D \subseteq 1..MaxTick /\ D \subseteq DOMAIN entries \cup {t}
    BY DEF TypeOK
  <2>3. \A u \in D : (IF u = t THEN v ELSE entries[u]) \in Views
    BY <2>2 DEF TypeOK
  <2> QED BY <2>1, <2>2, <2>3
<1>2. firstTick' \in 0..MaxTick
  BY DEF Push, Stops, TypeOK
<1>3. lastTick' \in -1..MaxTick
  BY DEF Push, TypeOK
<1> QED BY <1>1, <1>2, <1>3

LEMMA ClearTyped ==
    ASSUME Clear
    PROVE  /\ DOMAIN entries' \subseteq 1..MaxTick
           /\ entries' \in [DOMAIN entries' -> Views]
           /\ firstTick' \in 0..MaxTick
           /\ lastTick' \in -1..MaxTick
BY DEF Clear, Empty

LEMMA WireTyped ==
    ASSUME TypeOK, NEW t \in 0..MaxTick, NEW v \in Views
    PROVE  WireAfter(t, v) \in Seq(Frames)
BY FrameTyped DEF WireAfter, TypeOK

LEMMA InitTyped == Init => TypeOK
<1> SUFFICES ASSUME Init PROVE TypeOK
  OBVIOUS
<1>1. now \in Views
  BY DEF Init, Views
<1>2. DOMAIN entries = {} /\ entries \in [DOMAIN entries -> Views]
  BY DEF Init, Empty
<1>3. wire \in Seq(Frames)
  BY DEF Init
<1>4. firstTick \in 0..MaxTick /\ lastTick \in -1..MaxTick /\ tick \in 0..MaxTick
  BY DEF Init
<1> QED BY <1>1, <1>2, <1>3, <1>4 DEF Init, TypeOK

LEMMA StepTyped == TypeOK /\ [Next]_vars => TypeOK'
<1> SUFFICES ASSUME TypeOK, [Next]_vars PROVE TypeOK'
  OBVIOUS
<1>1. CASE Tick
  <2>1. tick + 1 \in 1..MaxTick /\ now' \in Views
    BY <1>1 DEF Tick, TypeOK
  <2>2. /\ DOMAIN entries' \subseteq 1..MaxTick
        /\ entries' \in [DOMAIN entries' -> Views]
        /\ firstTick' \in 0..MaxTick
        /\ lastTick' \in -1..MaxTick
    <3>1. CASE over'
      BY <1>1, <3>1, ClearTyped DEF Tick
    <3>2. CASE ~over' /\ seated
      BY <1>1, <2>1, <3>2, PushTyped DEF Tick
    <3>3. CASE ~over' /\ ~seated
      BY <1>1, <3>3 DEF Tick, buffer, TypeOK
    <3> QED BY <3>1, <3>2, <3>3
  <2>3. wire' \in Seq(Frames)
    BY <1>1, <2>1, WireTyped DEF Tick
  <2>4. lastSent' \in Views \cup {None}
    BY <1>1, <2>1 DEF Tick, TypeOK
  <2> QED BY <1>1, <2>1, <2>2, <2>3, <2>4 DEF Tick, TypeOK
<1>2. CASE Crash
  <2>1. tick' \in 0..MaxTick /\ now' \in Views /\ wire' \in Seq(Frames)
    <3>1. CASE UNCHANGED <<tick, now, wire>>
      BY <3>1 DEF TypeOK
    <3>2. CASE /\ tick < MaxTick /\ tick' = tick + 1 /\ now' \in Views
               /\ wire' \in {wire, WireAfter(tick + 1, now')}
      BY <3>2, WireTyped DEF TypeOK
    <3> QED BY <1>2, <3>1, <3>2 DEF Crash
  <2> QED BY <1>2, <2>1, ClearTyped DEF Crash, Cut, TypeOK
<1>3. CASE Join
  <2>1. [cells |-> now.cells, log |-> NoLog] \in Views
    BY DEF TypeOK, Views
  <2>2. wire' \in Seq(Frames)
    BY <1>3, <2>1, FrameTyped DEF Join, TypeOK
  <2> QED BY <1>3, <2>2 DEF Join, TypeOK
<1>4. CASE Reconnect
  <2>1. PICK stored \in GetSince(0) :
          wire' = <<Frame("full", tick, now)>>
                     \o [i \in DOMAIN stored |-> Frame("tick", stored[i], entries[stored[i]])]
    BY <1>4 DEF Reconnect
  <2>2. Replays(wire', stored)
    BY <2>1, ReplayEntries
  <2>3. wire' \in Seq(Frames)
    BY <2>2 DEF Replays
  <2> QED BY <1>4, <2>3 DEF Reconnect, TypeOK
<1>5. CASE Lose
  BY <1>5 DEF Lose, Cut, TypeOK
<1>6. CASE Expire
  BY <1>6, ClearTyped DEF Expire, Cut, TypeOK
<1>7. CASE Detach
  BY <1>7 DEF Detach, Cut, TypeOK
<1>8. CASE Attach
  BY <1>8 DEF Attach, TypeOK
<1>9. CASE Receive
  <2>1. wire' \in Seq(Frames)
    BY <1>9 DEF Receive, TypeOK
  <2>2. Head(wire) \in Frames
    BY <1>9 DEF Receive, TypeOK
  <2>3. shown' \in Pictures \cup {None}
    BY <1>9, <2>2 DEF Receive, TypeOK, Frames, Pictures
  <2> QED BY <1>9, <2>1, <2>3 DEF Receive, TypeOK
<1>10. CASE UNCHANGED vars
  BY <1>10 DEF vars, TypeOK
<1> QED BY <1>1, <1>2, <1>3, <1>4, <1>5, <1>6, <1>7, <1>8, <1>9, <1>10 DEF Next

\* Every reachable state of a seat's stream is well typed.
THEOREM TypeCorrect == Spec => []TypeOK
BY InitTyped, StepTyped, PTL DEF Spec

----------------------------------------------------------------------------
(* The ring buffer *)

\* What the eviction needs: no more than Depth entries, none of a tick to come,
\* and the cursor at the oldest of them.
RingOK ==
    /\ \A u \in DOMAIN entries : u <= tick
    /\ Cardinality(DOMAIN entries) <= Depth
    /\ DOMAIN entries # {} =>
          firstTick \in DOMAIN entries /\ \A u \in DOMAIN entries : firstTick <= u

RingInv == TypeOK /\ RingOK

LEMMA StoredFinite ==
    ASSUME TypeOK
    PROVE  IsFiniteSet(DOMAIN entries) /\ Cardinality(DOMAIN entries) \in Nat
<1>1. IsFiniteSet(1..MaxTick)
  BY FS_Interval
<1>2. IsFiniteSet(DOMAIN entries)
  BY <1>1, FS_Subset DEF TypeOK
<1> QED BY <1>2, FS_CardinalityType

\* The abstract specification counts with an instance of Cardinality.
LEMMA NewestCounts ==
    ASSUME NEW S
    PROVE  Retained!Newest(S) = {t \in S : Cardinality({u \in S : u > t}) < Depth}
<1>1. ASSUME NEW T PROVE Retained!Cardinality(T) = Cardinality(T)
  BY Zenon DEF Retained!Cardinality, Cardinality
<1> QED BY <1>1 DEF Retained!Newest

\* With room left, adding a tick leaves everything among the newest.
LEMMA NewestWithRoom ==
    ASSUME NEW D \in SUBSET Int, IsFiniteSet(D), NEW t \in Int, t \notin D, Cardinality(D) < Depth
    PROVE  Retained!Newest(D \cup {t}) = D \cup {t}
<1>1. ASSUME NEW u \in D \cup {t}
      PROVE  Cardinality({w \in D \cup {t} : w > u}) < Depth
  <2> DEFINE E == D \cup {t}
             later == {w \in E : w > u}
  <2>1. IsFiniteSet(E) /\ Cardinality(E) = Cardinality(D) + 1
    BY FS_AddElement
  <2>2. IsFiniteSet(E \ {u}) /\ Cardinality(E \ {u}) = Cardinality(E) - 1
    BY <2>1, <1>1, FS_RemoveElement
  <2>3. later \in SUBSET (E \ {u})
    OBVIOUS
  <2>4. IsFiniteSet(later) /\ Cardinality(later) <= Cardinality(E \ {u})
    BY <2>2, <2>3, FS_Subset
  <2>5. Cardinality(D) \in Nat /\ Cardinality(later) \in Nat
    BY <2>4, FS_CardinalityType
  <2> HIDE DEF later, E
  <2>6. Cardinality(later) < Depth
    BY <2>1, <2>2, <2>4, <2>5
  <2> QED BY <2>6 DEF later, E
<1> QED BY <1>1, NewestCounts

\* A full record loses its oldest tick, and nothing else, to a tick after all.
LEMMA NewestWhenFull ==
    ASSUME NEW D \in SUBSET Int, IsFiniteSet(D), NEW t \in Int, \A u \in D : u < t,
           Cardinality(D) = Depth, NEW f \in D, \A u \in D : f <= u
    PROVE  Retained!Newest(D \cup {t}) = (D \ {f}) \cup {t}
<1> DEFINE E == D \cup {t}
           K == (D \ {f}) \cup {t}
<1>1. IsFiniteSet(K) /\ Cardinality(K) = Depth
  <2>1. IsFiniteSet(D \ {f}) /\ Cardinality(D \ {f}) = Cardinality(D) - 1
    BY FS_RemoveElement
  <2>2. t \notin D \ {f}
    OBVIOUS
  <2>3. IsFiniteSet(K) /\ Cardinality(K) = Cardinality(D \ {f}) + 1
    BY <2>1, <2>2, FS_AddElement
  <2> QED BY <2>1, <2>3
<1>2. {w \in E : w > f} = K
  <2>1. \A w \in E : w > f <=> w # f
    OBVIOUS
  <2>2. f \in D /\ f # t
    OBVIOUS
  <2> QED BY <2>1, <2>2
<1>3. ASSUME NEW u \in K
      PROVE  Cardinality({w \in E : w > u}) < Depth
  <2> DEFINE later == {w \in E : w > u}
  <2>1. later \in SUBSET (K \ {u})
    OBVIOUS
  <2>2. IsFiniteSet(K \ {u}) /\ Cardinality(K \ {u}) = Cardinality(K) - 1
    BY <1>1, <1>3, FS_RemoveElement
  <2>3. IsFiniteSet(later) /\ Cardinality(later) <= Cardinality(K \ {u})
    BY <2>1, <2>2, FS_Subset
  <2>4. Cardinality(later) \in Nat
    BY <2>3, FS_CardinalityType
  <2> HIDE DEF later, K
  <2>5. Cardinality(later) < Depth
    BY <1>1, <2>2, <2>3, <2>4
  <2> QED BY <2>5 DEF later
<1>4. E = K \cup {f} /\ ~(Cardinality({w \in E : w > f}) < Depth)
  <2>1. Cardinality({w \in E : w > f}) = Depth
    BY <1>1, <1>2
  <2> QED BY <2>1
<1>5. Retained!Newest(E) = {u \in E : Cardinality({w \in E : w > u}) < Depth}
  BY NewestCounts
<1>6. f \notin K
  OBVIOUS
<1> HIDE DEF E, K
<1>7. {u \in E : Cardinality({w \in E : w > u}) < Depth} = K
  BY <1>3, <1>4, <1>6
<1> QED BY <1>5, <1>7 DEF E, K

\* One push of a new tick: the cursor stays at the oldest entry, and the newest
\* entries are what is kept.
LEMMA PushKeepsNewest ==
    ASSUME RingInv, NEW t \in 1..MaxTick, t > tick, NEW v \in Views, Push(t, v)
    PROVE  /\ Cardinality(DOMAIN entries') <= Depth
           /\ \A u \in DOMAIN entries' : u <= t
           /\ firstTick' \in DOMAIN entries' /\ \A u \in DOMAIN entries' : firstTick' <= u
           /\ Retained!Record(t, v)
<1> DEFINE D == DOMAIN entries
           full == Cardinality(D) >= Depth
           kept == D \ (IF full THEN {firstTick} ELSE {})
<1>1. /\ IsFiniteSet(D) /\ Cardinality(D) \in Nat /\ D \subseteq 1..MaxTick
      /\ \A u \in D : u < t
  BY StoredFinite DEF RingInv, RingOK, TypeOK
<1>2. /\ entries' = [u \in kept \cup {t} |-> IF u = t THEN v ELSE entries[u]]
      /\ DOMAIN entries' = kept \cup {t}
  BY DEF Push
<1>3. t \notin D
  BY <1>1
<1>4. CASE full
  <2>1. Cardinality(D) = Depth /\ D # {}
    BY <1>1, <1>4, FS_EmptySet DEF RingInv, RingOK
  <2>2. firstTick \in D /\ \A u \in D : firstTick <= u
    BY <2>1 DEF RingInv, RingOK
  <2>3. kept = D \ {firstTick}
    BY <1>4
  <2>4. Stops(t) = kept \cup {t}
    <3>1. \A u \in D : u > firstTick <=> u # firstTick
      BY <1>1, <2>2
    <3> QED BY <2>3, <3>1 DEF Stops
  <2>5. firstTick' \in kept \cup {t} /\ \A u \in kept \cup {t} : firstTick' <= u
    BY <1>4, <2>4 DEF Push
  <2>6. Cardinality(kept \cup {t}) = Depth
    <3>1. IsFiniteSet(kept) /\ Cardinality(kept) = Cardinality(D) - 1
      BY <1>1, <2>2, <2>3, FS_RemoveElement
    <3>2. t \notin kept
      BY <1>3, <2>3
    <3>3. Cardinality(kept \cup {t}) = Cardinality(kept) + 1
      BY <3>1, <3>2, FS_AddElement
    <3> QED BY <1>1, <2>1, <3>1, <3>3
  <2>7. Retained!Newest(D \cup {t}) = kept \cup {t}
    <3>1. D \in SUBSET Int /\ t \in Int
      BY <1>1
    <3> QED BY <1>1, <2>1, <2>2, <2>3, <3>1, NewestWhenFull
  <2> QED BY <1>1, <1>2, <2>3, <2>5, <2>6, <2>7 DEF Retained!Record
<1>5. CASE ~full
  <2>1. kept = D /\ Cardinality(D) < Depth
    BY <1>1, <1>5
  <2>2. Cardinality(D \cup {t}) <= Depth
    <3>1. Cardinality(D \cup {t}) = Cardinality(D) + 1
      BY <1>1, <1>3, FS_AddElement
    <3> QED BY <1>1, <2>1, <3>1
  <2>3. firstTick' \in D \cup {t} /\ \A u \in D \cup {t} : firstTick' <= u
    <3>1. entries = Empty <=> D = {}
      BY DEF RingInv, TypeOK, Empty
    <3>2. firstTick' = IF D = {} THEN t ELSE firstTick
      BY <1>5, <3>1 DEF Push
    <3>3. D # {} => firstTick \in D /\ \A u \in D : firstTick <= u
      BY DEF RingInv, RingOK
    <3>4. CASE D = {}
      BY <3>2, <3>4
    <3>5. CASE D # {}
      BY <1>1, <3>2, <3>3, <3>5
    <3> QED BY <3>4, <3>5
  <2>4. Retained!Newest(D \cup {t}) = D \cup {t}
    <3>1. D \in SUBSET Int /\ t \in Int
      BY <1>1
    <3> QED BY <1>1, <1>3, <2>1, <3>1, NewestWithRoom
  <2> QED BY <1>1, <1>2, <2>1, <2>2, <2>3, <2>4 DEF Retained!Record
<1> QED BY <1>4, <1>5

LEMMA ClearForgets ==
    ASSUME Clear
    PROVE  RingOK' /\ Retained!Forget
<1>1. entries' = Retained!Nothing /\ DOMAIN entries' = {}
  BY DEF Clear, Empty, Retained!Nothing
<1>2. Cardinality(DOMAIN entries') = 0
  BY <1>1, FS_EmptySet
<1> QED BY <1>1, <1>2 DEF RingOK, Retained!Forget

LEMMA StepRetains ==
    RingInv /\ [Next]_vars => RingOK' /\ [Retained!Next]_entries
<1> SUFFICES ASSUME RingInv, [Next]_vars PROVE RingOK' /\ [Retained!Next]_entries
  OBVIOUS
<1> USE DEF RingInv
<1>0. ASSUME UNCHANGED <<entries, firstTick>>, tick' = tick \/ tick' = tick + 1
      PROVE  RingOK' /\ [Retained!Next]_entries
  <2>1. \A u \in DOMAIN entries : u <= tick'
    BY <1>0 DEF RingOK, TypeOK
  <2> QED BY <1>0, <2>1 DEF RingOK
<1>1. CASE Tick
  <2>1. tick + 1 \in 1..MaxTick /\ now' \in Views /\ tick' = tick + 1
    BY <1>1 DEF Tick, TypeOK
  <2>2. CASE over'
    BY <1>1, <2>2, ClearForgets DEF Tick, Retained!Next
  <2>3. CASE ~over' /\ seated
    <3>1. Push(tick + 1, now') /\ tick + 1 > tick
      BY <1>1, <2>1, <2>3 DEF Tick, TypeOK
    <3>2. /\ Cardinality(DOMAIN entries') <= Depth
          /\ \A u \in DOMAIN entries' : u <= tick + 1
          /\ firstTick' \in DOMAIN entries' /\ \A u \in DOMAIN entries' : firstTick' <= u
          /\ Retained!Record(tick + 1, now')
      BY <2>1, <3>1, PushKeepsNewest
    <3> QED BY <2>1, <3>2 DEF RingOK, Retained!Next
  <2>4. CASE ~over' /\ ~seated
    BY <1>0, <1>1, <2>4 DEF Tick, buffer
  <2> QED BY <2>2, <2>3, <2>4
<1>2. CASE Crash
  BY <1>2, ClearForgets DEF Crash, Retained!Next
<1>3. CASE Join
  BY <1>0, <1>3 DEF Join
<1>4. CASE Reconnect
  BY <1>0, <1>4 DEF Reconnect
<1>5. CASE Lose
  BY <1>0, <1>5 DEF Lose
<1>6. CASE Expire
  BY <1>6, ClearForgets DEF Expire, Retained!Next
<1>7. CASE Detach
  BY <1>0, <1>7 DEF Detach
<1>8. CASE Attach
  BY <1>0, <1>8 DEF Attach
<1>9. CASE Receive
  BY <1>0, <1>9 DEF Receive
<1>10. CASE UNCHANGED vars
  BY <1>0, <1>10 DEF vars
<1> QED BY <1>1, <1>2, <1>3, <1>4, <1>5, <1>6, <1>7, <1>8, <1>9, <1>10 DEF Next

LEMMA InitRetains == Init => RingOK /\ Retained!Init
<1> SUFFICES ASSUME Init PROVE RingOK /\ Retained!Init
  OBVIOUS
<1>1. entries = Retained!Nothing /\ DOMAIN entries = {}
  BY DEF Init, Empty, Retained!Nothing
<1>2. Cardinality(DOMAIN entries) = 0
  BY <1>1, FS_EmptySet
<1> QED BY <1>1, <1>2 DEF RingOK, Retained!Init

\* The ring buffer with its eviction cursor implements "the newest Depth
\* entries since it was last emptied", over any gaps (resync.ts push and clear).
THEOREM RingImplementsNewest == Spec => RetainsNewest
<1>1. Init => RingInv /\ Retained!Init
  BY InitTyped, InitRetains DEF RingInv
<1>2. RingInv /\ [Next]_vars => RingInv' /\ [Retained!Next]_entries
  BY StepTyped, StepRetains DEF RingInv
<1> QED BY <1>1, <1>2, PTL DEF Spec, RetainsNewest, Retained!Spec

----------------------------------------------------------------------------
(* The stream and the console *)

Before(f, g) == f.kind = "tick" /\ g.kind = "tick" => f.tick < g.tick

\* Nothing is on its way or shown that has not happened, ticks in flight
\* ascend, and a full view is at the head and not older than the view shown.
OrderOK ==
    /\ \A i \in DOMAIN wire : wire[i].tick <= tick
    /\ \A i, j \in DOMAIN wire : i < j => Before(wire[i], wire[j])
    /\ \A i \in DOMAIN wire :
          wire[i].kind = "full" => i = 1 /\ (shown # None => shown.tick <= wire[i].tick)
    /\ shown # None => shown.tick <= tick

OrderInv == RingInv /\ OrderOK

\* What is sent in a tick goes to the end of the wire.
LEMMA WireGrows ==
    ASSUME TypeOK, NEW t \in 0..MaxTick, NEW v \in Views, NEW w, w = WireAfter(t, v)
    PROVE  \/ w = wire
           \/ /\ Len(w) = Len(wire) + 1
              /\ DOMAIN w = 1..Len(w)
              /\ \A i \in DOMAIN wire : i \in DOMAIN w /\ i < Len(w) /\ w[i] = wire[i]
              /\ \A i \in DOMAIN w : i \in DOMAIN wire \/ i = Len(w)
              /\ w[Len(w)] = Frame("tick", t, v)
<1>1. Frame("tick", t, v) \in Frames
  BY FrameTyped
<1>2. wire \in Seq(Frames)
  BY DEF TypeOK
<1> QED BY <1>1, <1>2 DEF WireAfter

LEMMA FrameFields ==
    ASSUME NEW k, NEW t, NEW v
    PROVE  Frame(k, t, v).kind = k /\ Frame(k, t, v).tick = t /\ Frame(k, t, v).view = v
BY DEF Frame

LEMMA WireFrames ==
    ASSUME TypeOK, NEW i \in DOMAIN wire
    PROVE  /\ wire[i] \in Frames /\ wire[i].tick \in 0..MaxTick
           /\ wire[i].kind \in {"full", "tick"} /\ wire[i].view \in Views
<1>1. wire[i] \in Frames
  BY DEF TypeOK
<1> QED BY <1>1 DEF Frames

LEMMA TakenTail ==
    ASSUME TypeOK, wire # <<>>, NEW w, w = Tail(wire)
    PROVE  /\ 1 \in DOMAIN wire /\ Head(wire) = wire[1]
           /\ \A i \in DOMAIN w : i \in Nat /\ i >= 1 /\ i + 1 \in DOMAIN wire /\ w[i] = wire[i + 1]
           /\ \A i \in DOMAIN wire : i > 1 => i - 1 \in DOMAIN w
BY DEF TypeOK

\* The tick counter moves by one, and at most one frame stamped with it goes
\* out: everything stays in order.
LEMMA TickOrdered ==
    ASSUME OrderInv, tick' = tick + 1, tick + 1 \in 1..MaxTick, NEW v \in Views,
           wire' = wire \/ wire' = WireAfter(tick + 1, v), shown' = shown
    PROVE  OrderOK'
<1> USE DEF OrderInv, RingInv
<1>0. TypeOK
  OBVIOUS
<1>1. shown # None => shown.tick \in Int
  BY DEF TypeOK, Pictures
<1> DEFINE Grown ==
             /\ Len(wire') = Len(wire) + 1
             /\ DOMAIN wire' = 1..Len(wire')
             /\ \A i \in DOMAIN wire : i \in DOMAIN wire' /\ i < Len(wire') /\ wire'[i] = wire[i]
             /\ \A i \in DOMAIN wire' : i \in DOMAIN wire \/ i = Len(wire')
             /\ wire'[Len(wire')] = Frame("tick", tick + 1, v)
<1>2. CASE wire' = wire
  <2>1. \A i \in DOMAIN wire : wire[i].tick <= tick + 1
    <3> TAKE i \in DOMAIN wire
    <3> QED BY <1>0, WireFrames DEF OrderOK, TypeOK
  <2>2. shown # None => shown.tick <= tick + 1
    BY <1>0, <1>1 DEF OrderOK, TypeOK
  <2> QED BY <1>2, <2>1, <2>2 DEF OrderOK
<1>3. CASE Grown
  <2> DEFINE w == wire'
             n == Len(w)
  <2>1. w[n].kind = "tick" /\ w[n].tick = tick + 1
    BY <1>3, FrameFields
  <2>2. \A i \in DOMAIN wire : wire[i].tick \in Int /\ wire[i].tick < tick + 1
    <3> TAKE i \in DOMAIN wire
    <3> QED BY <1>0, WireFrames DEF OrderOK, TypeOK
  <2>3. \A i \in DOMAIN w : w[i].tick <= tick + 1
    BY <1>0, <1>3, <2>1, <2>2 DEF TypeOK
  <2>4. \A i, j \in DOMAIN w : i < j => Before(w[i], w[j])
    <3> SUFFICES ASSUME NEW i \in DOMAIN w, NEW j \in DOMAIN w, i < j PROVE Before(w[i], w[j])
      OBVIOUS
    <3>1. i \in DOMAIN wire /\ w[i] = wire[i]
      <4>1. i # n
        BY <1>3
      <4> QED BY <1>3, <4>1
    <3>2. CASE j \in DOMAIN wire
      BY <1>3, <3>1, <3>2 DEF OrderOK
    <3>3. CASE j = n
      BY <2>1, <2>2, <3>1, <3>3 DEF Before
    <3> QED BY <1>3, <3>2, <3>3
  <2>5. \A i \in DOMAIN w :
           w[i].kind = "full" => i = 1 /\ (shown # None => shown.tick <= w[i].tick)
    BY <1>3, <2>1 DEF OrderOK
  <2>6. shown # None => shown.tick <= tick + 1
    BY <1>0, <1>1 DEF OrderOK, TypeOK
  <2> QED BY <2>3, <2>4, <2>5, <2>6 DEF OrderOK
<1>4. wire' = wire \/ Grown
  BY <1>0, WireGrows
<1> QED BY <1>2, <1>3, <1>4

LEMMA StepOrdered == OrderInv /\ [Next]_vars => OrderOK'
<1> SUFFICES ASSUME OrderInv, [Next]_vars PROVE OrderOK'
  OBVIOUS
<1> USE DEF OrderInv, RingInv
<1>0. TypeOK
  OBVIOUS
<1>a. shown # None => shown.tick \in Int
  BY DEF TypeOK, Pictures
<1>b. tick \in Int /\ tick <= tick
  BY DEF TypeOK
<1>1. CASE Tick
  <2>1. tick + 1 \in 1..MaxTick /\ now' \in Views
    BY <1>1 DEF Tick, TypeOK
  <2> QED BY <1>1, <2>1, TickOrdered DEF Tick
<1>2. CASE Crash
  <2>1. CASE UNCHANGED <<tick, now, wire>>
    BY <1>2, <2>1 DEF Crash, OrderOK
  <2>2. CASE /\ tick < MaxTick /\ tick' = tick + 1 /\ now' \in Views
             /\ wire' \in {wire, WireAfter(tick + 1, now')}
    <3>1. tick + 1 \in 1..MaxTick /\ shown' = shown
      BY <1>2, <2>2 DEF Crash, TypeOK
    <3> QED BY <2>2, <3>1, TickOrdered
  <2> QED BY <1>2, <2>1, <2>2 DEF Crash
<1>3. CASE Join
  <2>1. wire' = <<Frame("full", tick, [cells |-> now.cells, log |-> NoLog])>>
    BY <1>3 DEF Join
  <2>2. DOMAIN wire' = {1} /\ wire'[1].kind = "full" /\ wire'[1].tick = tick
    BY <2>1, FrameFields
  <2> QED BY <1>3, <1>b, <2>2 DEF Join, OrderOK, Before
<1>4. CASE Reconnect
  <2>1. PICK stored \in GetSince(0) :
          wire' = <<Frame("full", tick, now)>>
                     \o [i \in DOMAIN stored |-> Frame("tick", stored[i], entries[stored[i]])]
    BY <1>4 DEF Reconnect
  <2>2. Replays(wire', stored)
    BY <1>0, <2>1, ReplayEntries
  <2>3. /\ wire' \in Seq(Frames) /\ Len(wire') >= 1
        /\ wire'[1] = Frame("full", tick, now)
        /\ \A i \in 2..Len(wire') :
              /\ i - 1 \in DOMAIN stored
              /\ stored[i - 1] \in DOMAIN entries
              /\ wire'[i] = Frame("tick", stored[i - 1], entries[stored[i - 1]])
    BY <2>2 DEF Replays
  <2>4. \A i, j \in DOMAIN stored : i < j => stored[i] < stored[j]
    BY DEF GetSince
  <2>5. DOMAIN wire' = 1..Len(wire') /\ Len(wire') \in Nat
    BY <2>3
  <2>6. wire'[1].kind = "full" /\ wire'[1].tick = tick
    BY <2>3, FrameFields
  <2>7. \A i \in DOMAIN wire' : i # 1 =>
           i \in 2..Len(wire') /\ wire'[i].kind = "tick" /\ wire'[i].tick = stored[i - 1]
    BY <2>3, <2>5, FrameFields
  <2>8. \A i \in DOMAIN wire' : wire'[i].tick <= tick
    BY <1>b, <2>3, <2>6, <2>7 DEF RingOK
  <2>9. \A i, j \in DOMAIN wire' : i < j => Before(wire'[i], wire'[j])
    <3> SUFFICES ASSUME NEW i \in DOMAIN wire', NEW j \in DOMAIN wire', i < j,
                        wire'[i].kind = "tick", wire'[j].kind = "tick"
                 PROVE  wire'[i].tick < wire'[j].tick
      BY DEF Before
    <3>1. i # 1 /\ j # 1
      BY <2>6
    <3>2. i - 1 \in DOMAIN stored /\ j - 1 \in DOMAIN stored /\ i - 1 < j - 1
      BY <2>3, <2>5, <2>7, <3>1
    <3> QED BY <2>4, <2>7, <3>1, <3>2
  <2>10. \A i \in DOMAIN wire' :
            wire'[i].kind = "full" => i = 1 /\ (shown # None => shown.tick <= wire'[i].tick)
    BY <2>6, <2>7 DEF OrderOK
  <2> QED BY <1>4, <2>8, <2>9, <2>10 DEF Reconnect, OrderOK
<1>5. CASE Lose
  BY <1>5 DEF Lose, OrderOK
<1>6. CASE Expire
  BY <1>6 DEF Expire, OrderOK
<1>7. CASE Detach
  BY <1>7 DEF Detach, OrderOK
<1>8. CASE Attach
  BY <1>8 DEF Attach, OrderOK
<1>9. CASE Receive
  <2>1. /\ 1 \in DOMAIN wire /\ Head(wire) = wire[1] /\ tick' = tick
        /\ \A i \in DOMAIN wire' :
              i \in Nat /\ i >= 1 /\ i + 1 \in DOMAIN wire /\ wire'[i] = wire[i + 1]
    BY <1>0, <1>9, TakenTail DEF Receive
  <2>2. \A i \in DOMAIN wire' : wire'[i].tick <= tick
    BY <2>1 DEF OrderOK
  <2>3. \A i, j \in DOMAIN wire' : i < j => Before(wire'[i], wire'[j])
    <3> SUFFICES ASSUME NEW i \in DOMAIN wire', NEW j \in DOMAIN wire', i < j
                 PROVE  Before(wire'[i], wire'[j])
      OBVIOUS
    <3>1. i + 1 \in DOMAIN wire /\ j + 1 \in DOMAIN wire /\ i + 1 < j + 1
      BY <2>1
    <3> QED BY <2>1, <3>1 DEF OrderOK
  <2>4. \A i \in DOMAIN wire' : wire'[i].kind # "full"
    <3> TAKE i \in DOMAIN wire'
    <3>1. i + 1 \in DOMAIN wire /\ i + 1 # 1 /\ wire'[i] = wire[i + 1]
      BY <2>1
    <3> QED BY <3>1 DEF OrderOK
  <2>5. shown' # None => shown'.tick <= tick
    BY <1>9, <2>1 DEF Receive, OrderOK
  <2> QED BY <2>1, <2>2, <2>3, <2>4, <2>5 DEF OrderOK
<1>10. CASE UNCHANGED vars
  BY <1>10 DEF vars, OrderOK
<1> QED BY <1>1, <1>2, <1>3, <1>4, <1>5, <1>6, <1>7, <1>8, <1>9, <1>10 DEF Next

LEMMA InitOrdered == Init => OrderOK
BY DEF Init, OrderOK

LEMMA OrderInductive == Spec => []OrderInv
<1>1. Init => OrderInv
  BY InitTyped, InitRetains, InitOrdered DEF OrderInv, RingInv
<1>2. OrderInv /\ [Next]_vars => OrderInv'
  BY StepTyped, StepRetains, StepOrdered DEF OrderInv, RingInv
<1> QED BY <1>1, <1>2, PTL DEF Spec

\* The ticks in flight to a client ascend, those of a replay before the live
\* ones, however often it reconnected (server.ts restoreReconnectedSeat).
THEOREM TicksAscend == Spec => []StreamOrdered
<1>1. OrderInv => StreamOrdered
  BY DEF OrderInv, OrderOK, Before, StreamOrdered
<1> QED BY <1>1, OrderInductive, PTL

\* No frame takes the console back in time: a full view is never older than
\* the one shown, and an older tick is dropped (reducer.ts).
THEOREM ViewAdvances == Spec => ViewNeverGoesBack
<1>1. OrderInv /\ [Next]_vars => [shown # None => shown'.tick >= shown.tick]_vars
  <2> SUFFICES ASSUME OrderInv, Next, shown # None PROVE shown'.tick >= shown.tick
    OBVIOUS
  <2>0. TypeOK /\ shown.tick \in Int
    BY DEF OrderInv, RingInv, TypeOK, Pictures
  <2>1. CASE Receive
    <3>1. 1 \in DOMAIN wire /\ Head(wire) = wire[1]
      BY <2>0, <2>1, TakenTail DEF Receive
    <3>2. wire[1].tick \in Int
      BY <2>0, <3>1, WireFrames
    <3>3. Takes(wire[1]) => wire[1].tick >= shown.tick
      BY <2>0, <3>1, <3>2 DEF Takes, OrderInv, OrderOK
    <3> QED BY <2>0, <2>1, <3>1, <3>3 DEF Receive
  <2>2. CASE shown' = shown
    BY <2>0, <2>2
  <2> QED
    BY <2>1, <2>2
    DEF Next, Tick, Crash, Join, Reconnect, Lose, Expire, Detach, Attach
<1> QED BY <1>1, OrderInductive, PTL DEF Spec, ViewNeverGoesBack

----------------------------------------------------------------------------
(* The client catches up *)

Fresh(v) == v.cells = now.cells

\* The console shows the current cells, and nothing in flight undoes it: what is
\* in flight is dropped or as fresh.
Settled ==
    /\ shown # None /\ Fresh(shown.view)
    /\ \A i \in DOMAIN wire :
          wire[i].kind = "tick" /\ (wire[i].tick < shown.tick \/ Fresh(wire[i].view))

\* The k-th frame in flight has the current cells, nothing before it makes the
\* console drop it, and nothing after it undoes it.
Arriving(k) ==
    /\ k \in DOMAIN wire /\ Fresh(wire[k].view)
    /\ shown # None => shown.tick <= wire[k].tick
    /\ \A i \in DOMAIN wire : i < k => wire[i].tick <= wire[k].tick
    /\ \A i \in DOMAIN wire :
          i > k => wire[i].kind = "tick" /\ (wire[i].tick < wire[k].tick \/ Fresh(wire[i].view))

\* A connected client has the current cells or will have them without another
\* tick; the server's cache and the newest entry of the record are current too.
CurrentOK ==
    /\ joined => Settled \/ \E k \in DOMAIN wire : Arriving(k)
    /\ joined /\ lastSent # None => Fresh(lastSent)
    /\ \A t \in DOMAIN entries : t = tick => Fresh(entries[t])

CurrentInv == OrderInv /\ CurrentOK

LEMMA TickCurrent ==
    ASSUME CurrentInv, Tick
    PROVE  CurrentOK'
<1> USE DEF CurrentInv, OrderInv, RingInv
<1>0. TypeOK
  OBVIOUS
<1>1. tick + 1 \in 1..MaxTick /\ tick + 1 \in 0..MaxTick /\ now' \in Views /\ tick' = tick + 1
  BY DEF Tick, TypeOK
<1>2. \A t \in DOMAIN entries' : t = tick' => Fresh(entries[t])'
  <2> SUFFICES ASSUME tick + 1 \in DOMAIN entries' PROVE entries'[tick + 1].cells = now'.cells
    BY <1>1 DEF Fresh
  <2>1. CASE over'
    BY <2>1 DEF Tick, Clear, Empty
  <2>2. CASE ~over' /\ seated
    BY <2>2 DEF Tick, Push
  <2>3. CASE ~over' /\ ~seated
    BY <1>0, <2>3 DEF Tick, buffer, RingOK, TypeOK
  <2> QED BY <2>1, <2>2, <2>3
<1>3. CASE ~joined
  BY <1>2, <1>3 DEF Tick, CurrentOK
<1>4. CASE joined /\ Sends(now')
  <2> DEFINE f == Frame("tick", tick + 1, now')
  <2>1. wire' = Append(wire, f) /\ lastSent' = now' /\ f \in Frames
    BY <1>1, <1>4, FrameTyped DEF Tick, WireAfter
  <2>2. f.tick = tick + 1 /\ f.view = now'
    BY FrameFields
  <2> HIDE DEF f
  <2> PICK n \in Nat : n = Len(wire) + 1
    BY <1>0 DEF TypeOK
  <2>3. /\ n \in Nat /\ n \in DOMAIN wire' /\ wire'[n] = f
        /\ \A i \in DOMAIN wire' : i <= n /\ (i < n => i \in DOMAIN wire /\ wire'[i] = wire[i])
    BY <1>0, <2>1 DEF TypeOK
  <2>4. \A i \in DOMAIN wire : wire[i].tick <= tick + 1
    <3> TAKE i \in DOMAIN wire
    <3> QED BY <1>0, WireFrames DEF OrderOK, TypeOK
  <2>5. shown' = shown /\ (shown # None => shown.tick <= tick + 1)
    BY DEF Tick, OrderOK, TypeOK, Pictures
  <2>6. \A i \in DOMAIN wire' : i < n => wire'[i].tick <= wire'[n].tick
    BY <2>2, <2>3, <2>4
  <2>7. \A i \in DOMAIN wire' : ~(i > n)
    BY <1>0, <2>1, <2>3 DEF TypeOK
  <2>8. Arriving(n)'
    BY <2>2, <2>3, <2>5, <2>6, <2>7 DEF Arriving, Fresh
  <2> QED BY <1>2, <2>1, <2>3, <2>8 DEF CurrentOK, Fresh
<1>5. CASE joined /\ ~Sends(now')
  <2>1. lastSent # None /\ Alike(lastSent, now') /\ UNCHANGED <<wire, shown, lastSent, joined>>
    BY <1>5 DEF Sends, Tick, WireAfter
  <2>2. now'.cells = now.cells
    BY <1>5, <2>1 DEF Alike, CurrentOK, Fresh
  <2>3. Settled => Settled'
    BY <2>1, <2>2 DEF Settled, Fresh
  <2>4. ASSUME NEW k \in DOMAIN wire, Arriving(k) PROVE Arriving(k)'
    BY <2>1, <2>2, <2>4 DEF Arriving, Fresh
  <2> QED BY <1>2, <1>5, <2>1, <2>2, <2>3, <2>4 DEF CurrentOK, Fresh
<1> QED BY <1>3, <1>4, <1>5

LEMMA JoinCurrent ==
    ASSUME CurrentInv, Join
    PROVE  CurrentOK'
<1>1. wire' = <<Frame("full", tick, [cells |-> now.cells, log |-> NoLog])>>
  BY DEF Join
<1>2. /\ DOMAIN wire' = {1} /\ wire'[1].tick = tick
      /\ wire'[1].view = [cells |-> now.cells, log |-> NoLog]
  BY <1>1, FrameFields
<1>3. shown # None => shown.tick <= tick
  BY DEF CurrentInv, OrderInv, OrderOK
<1>4. Arriving(1)'
  BY <1>2, <1>3 DEF Arriving, Fresh, Join
<1> QED BY <1>2, <1>4 DEF CurrentInv, CurrentOK, Fresh, Join

LEMMA ReconnectCurrent ==
    ASSUME CurrentInv, Reconnect
    PROVE  CurrentOK'
<1> USE DEF CurrentInv, OrderInv, RingInv
<1>1. PICK stored \in GetSince(0) :
        wire' = <<Frame("full", tick, now)>>
                   \o [i \in DOMAIN stored |-> Frame("tick", stored[i], entries[stored[i]])]
  BY DEF Reconnect
<1>2. TypeOK /\ Replays(wire', stored)
  BY <1>1, ReplayEntries
<1>3. /\ wire' \in Seq(Frames) /\ Len(wire') >= 1
      /\ wire'[1] = Frame("full", tick, now)
      /\ \A i \in 2..Len(wire') :
            /\ i - 1 \in DOMAIN stored
            /\ stored[i - 1] \in DOMAIN entries
            /\ wire'[i] = Frame("tick", stored[i - 1], entries[stored[i - 1]])
  BY <1>2 DEF Replays
<1>4. 1 \in DOMAIN wire' /\ wire'[1].tick = tick /\ wire'[1].view = now
  BY <1>3, FrameFields
<1>5. \A i \in DOMAIN wire' : i >= 1 /\ (i > 1 => i \in 2..Len(wire'))
  BY <1>3
<1>6. ASSUME NEW i \in DOMAIN wire', i > 1
      PROVE  /\ wire'[i].kind = "tick"
             /\ wire'[i].tick < tick \/ Fresh(wire'[i].view)
  <2>1. /\ stored[i - 1] \in DOMAIN entries
        /\ wire'[i] = Frame("tick", stored[i - 1], entries[stored[i - 1]])
    BY <1>3, <1>5, <1>6
  <2>2. /\ wire'[i].kind = "tick" /\ wire'[i].tick = stored[i - 1]
        /\ wire'[i].view = entries[stored[i - 1]]
    BY <2>1, FrameFields
  <2>3. stored[i - 1] <= tick /\ stored[i - 1] \in Int /\ tick \in Int
    BY <2>1 DEF RingOK, TypeOK
  <2>4. stored[i - 1] = tick => Fresh(entries[stored[i - 1]])
    BY <2>1 DEF CurrentOK
  <2> QED BY <2>2, <2>3, <2>4
<1>7. UNCHANGED <<shown, now, tick, entries>> /\ lastSent' = None
  BY DEF Reconnect
<1>8. shown # None => shown.tick <= tick
  BY DEF OrderOK
<1>9. \A i \in DOMAIN wire' : ~(i < 1)
  BY <1>5
<1>10. Arriving(1)'
  BY <1>4, <1>6, <1>7, <1>8, <1>9 DEF Arriving, Fresh
<1> QED BY <1>4, <1>7, <1>10 DEF CurrentOK, Fresh

LEMMA ReceiveCurrent ==
    ASSUME CurrentInv, Receive
    PROVE  CurrentOK'
<1> USE DEF CurrentInv, OrderInv, RingInv
<1>0. TypeOK /\ UNCHANGED <<now, tick, entries, joined, lastSent>>
  BY DEF Receive
<1>1. /\ 1 \in DOMAIN wire /\ Head(wire) = wire[1]
      /\ \A i \in DOMAIN wire' : i \in Nat /\ i >= 1 /\ i + 1 \in DOMAIN wire /\ wire'[i] = wire[i + 1]
      /\ \A i \in DOMAIN wire : i > 1 => i - 1 \in DOMAIN wire'
  BY <1>0, TakenTail DEF Receive
<1>2. shown' = IF Takes(wire[1]) THEN [tick |-> wire[1].tick, view |-> wire[1].view] ELSE shown
  BY <1>1 DEF Receive
<1>3. shown # None => shown.tick \in Int
  BY DEF TypeOK, Pictures
<1>4. \A i \in DOMAIN wire : wire[i].tick \in Int
  BY <1>0, WireFrames
<1>5. shown' # None
  <2>1. [tick |-> wire[1].tick, view |-> wire[1].view] \in Pictures
    BY <1>0, <1>1, WireFrames DEF Pictures
  <2> QED BY <1>2, <2>1 DEF Takes
<1>6. CASE Settled
  <2>1. Fresh(shown'.view) /\ shown'.tick \in Int /\ shown'.tick >= shown.tick
    <3>1. CASE Takes(wire[1])
      <4>1. wire[1].kind = "tick" /\ wire[1].tick >= shown.tick
        BY <1>1, <1>6, <3>1 DEF Settled, Takes
      <4>2. Fresh(wire[1].view)
        BY <1>1, <1>3, <1>4, <1>6, <4>1 DEF Settled
      <4> QED BY <1>1, <1>2, <1>4, <3>1, <4>1, <4>2
    <3>2. CASE ~Takes(wire[1])
      BY <1>2, <1>3, <1>6, <3>2 DEF Settled
    <3> QED BY <3>1, <3>2
  <2>2. ASSUME NEW i \in DOMAIN wire'
        PROVE  wire'[i].kind = "tick" /\ (wire'[i].tick < shown'.tick \/ Fresh(wire'[i].view))
    <3>1. i + 1 \in DOMAIN wire /\ wire'[i] = wire[i + 1]
      BY <1>1
    <3>2. wire[i + 1].kind = "tick" /\ (wire[i + 1].tick < shown.tick \/ Fresh(wire[i + 1].view))
      BY <1>6, <3>1 DEF Settled
    <3> QED BY <1>3, <1>4, <1>6, <2>1, <3>1, <3>2 DEF Settled
  <2>3. Settled'
    BY <1>0, <1>5, <2>1, <2>2 DEF Settled, Fresh
  <2> QED BY <1>0, <2>3 DEF CurrentOK, Fresh
<1>7. ASSUME Arriving(1) PROVE CurrentOK'
  <2>1. Takes(wire[1])
    BY <1>1, <1>3, <1>4, <1>7 DEF Takes, Arriving
  <2>2. shown'.tick = wire[1].tick /\ shown'.view = wire[1].view
    BY <1>2, <2>1
  <2>3. ASSUME NEW i \in DOMAIN wire'
        PROVE  wire'[i].kind = "tick" /\ (wire'[i].tick < shown'.tick \/ Fresh(wire'[i].view))
    <3>1. i + 1 \in DOMAIN wire /\ i + 1 > 1 /\ wire'[i] = wire[i + 1]
      BY <1>1
    <3> QED BY <1>7, <2>2, <3>1 DEF Arriving
  <2>4. Settled'
    BY <1>0, <1>5, <1>7, <2>2, <2>3 DEF Settled, Arriving, Fresh
  <2> QED BY <1>0, <2>4 DEF CurrentOK, Fresh
<1>8. ASSUME NEW k \in DOMAIN wire, k > 1, Arriving(k) PROVE CurrentOK'
  <2>1. k \in Nat /\ k - 1 \in DOMAIN wire' /\ wire'[k - 1] = wire[k]
    BY <1>0, <1>1, <1>8 DEF TypeOK
  <2>2. shown'.tick <= wire[k].tick
    <3>1. wire[1].tick <= wire[k].tick
      BY <1>1, <1>8 DEF Arriving
    <3>2. CASE Takes(wire[1])
      BY <1>2, <3>1, <3>2
    <3>3. CASE ~Takes(wire[1])
      BY <1>2, <1>8, <3>3 DEF Arriving, Takes
    <3> QED BY <3>2, <3>3
  <2>3. ASSUME NEW i \in DOMAIN wire', i < k - 1 PROVE wire'[i].tick <= wire[k].tick
    <3>1. i + 1 \in DOMAIN wire /\ i + 1 < k /\ wire'[i] = wire[i + 1]
      BY <1>1, <2>1, <2>3
    <3> QED BY <1>8, <3>1 DEF Arriving
  <2>4. ASSUME NEW i \in DOMAIN wire', i > k - 1
        PROVE  wire'[i].kind = "tick" /\ (wire'[i].tick < wire[k].tick \/ Fresh(wire'[i].view))
    <3>1. i + 1 \in DOMAIN wire /\ i + 1 > k /\ wire'[i] = wire[i + 1]
      BY <1>1, <2>1, <2>4
    <3> QED BY <1>8, <3>1 DEF Arriving
  <2>5. Arriving(k - 1)'
    BY <1>0, <1>8, <2>1, <2>2, <2>3, <2>4 DEF Arriving, Fresh
  <2> QED BY <1>0, <2>1, <2>5 DEF CurrentOK, Fresh
<1>9. CASE ~joined
  BY <1>0, <1>9 DEF CurrentOK, Fresh
<1>10. \A k \in DOMAIN wire : k = 1 \/ k > 1
  BY <1>0 DEF TypeOK
<1> QED BY <1>6, <1>7, <1>8, <1>9, <1>10 DEF CurrentOK

LEMMA CutCurrent ==
    ASSUME CurrentInv, Cut, Clear \/ UNCHANGED <<entries, tick, now>>
    PROVE  CurrentOK'
<1>1. \A t \in DOMAIN entries' : t = tick' => Fresh(entries[t])'
  BY DEF Clear, Empty, CurrentInv, CurrentOK, Fresh
<1> QED BY <1>1 DEF Cut, CurrentOK

LEMMA StepCurrent == CurrentInv /\ [Next]_vars => CurrentOK'
<1> SUFFICES ASSUME CurrentInv, [Next]_vars PROVE CurrentOK'
  OBVIOUS
<1>1. CASE Tick
  BY <1>1, TickCurrent
<1>2. CASE Crash
  BY <1>2, CutCurrent DEF Crash
<1>3. CASE Join
  BY <1>3, JoinCurrent
<1>4. CASE Reconnect
  BY <1>4, ReconnectCurrent
<1>5. CASE Lose
  BY <1>5, CutCurrent DEF Lose
<1>6. CASE Expire
  BY <1>6, CutCurrent DEF Expire
<1>7. CASE Detach
  BY <1>7, CutCurrent DEF Detach
<1>8. CASE Attach
  BY <1>8 DEF Attach, CurrentInv, CurrentOK, Settled, Arriving, Fresh
<1>9. CASE Receive
  BY <1>9, ReceiveCurrent
<1>10. CASE UNCHANGED vars
  BY <1>10 DEF vars, CurrentInv, CurrentOK, Settled, Arriving, Fresh
<1> QED BY <1>1, <1>2, <1>3, <1>4, <1>5, <1>6, <1>7, <1>8, <1>9, <1>10 DEF Next

LEMMA InitCurrent == Init => CurrentOK
BY DEF Init, CurrentOK, Empty

\* Once everything in flight has arrived, a connected client shows the current
\* cells: the skip-send cache and the replay after the snapshot do not leave it
\* behind (broadcast.ts, server.ts restoreReconnectedSeat).
THEOREM ClientCatchesUp == Spec => []ClientCurrent
<1>1. Init => CurrentInv
  BY InitTyped, InitRetains, InitOrdered, InitCurrent DEF CurrentInv, OrderInv, RingInv
<1>2. CurrentInv /\ [Next]_vars => CurrentInv'
  BY StepTyped, StepRetains, StepOrdered, StepCurrent DEF CurrentInv, OrderInv, RingInv
<1>3. CurrentInv => ClientCurrent
  BY DEF CurrentInv, CurrentOK, Settled, Fresh, ClientCurrent
<1> QED BY <1>1, <1>2, <1>3, PTL DEF Spec

=============================================================================
