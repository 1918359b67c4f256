----------------------------- MODULE MatchProofs -----------------------------
(***************************************************************************)
(* Proofs about Terrain and Replay, what a match starts from and what it   *)
(* leaves behind, for every size of board, noise, setting, rule and menu   *)
(* of commands.                                                            *)
(*                                                                         *)
(* Terrain: what the turn by half a circle preserves, how many cities a    *)
(* slot gets and where, and that the engine keeps the start fair until     *)
(* somebody orders something (`Unplayed' is the inductive invariant).      *)
(*                                                                         *)
(* Replay: that the log and the scenario determine the match at the start  *)
(* of every tick (`LogTells'), and that the image of a world gives that    *)
(* world back, field by field.                                             *)
(***************************************************************************)
EXTENDS EngineProofs, Terrain, Replay

----------------------------------------------------------------------------
(* Orders on finite sets *)

\* There are m numbers from 1 to m.
LEMMA FirstNumbers ==
    ASSUME NEW m \in Nat
    PROVE  IsFiniteSet(1 .. m) /\ Cardinality(1 .. m) = m
BY FS_Interval

\* A strict total order of a set,
TotalOn(R, S) ==
    /\ \A i \in S : <<i, i>> \notin R
    /\ \A i, j \in S : i # j => <<i, j>> \in R \/ <<j, i>> \in R
    /\ \A i, j, k \in S : <<i, j>> \in R /\ <<j, k>> \in R => <<i, k>> \in R

\* and what its ranks then are: a numbering of the set from 1 to n.
Numbered(R, S, n) ==
    /\ \A i \in S : 1 + RankIn(R, S, i) \in 1 .. n
    /\ \A k \in 1 .. n : \E i \in S : 1 + RankIn(R, S, i) = k
    /\ \A i, j \in S : RankIn(R, S, i) = RankIn(R, S, j) => i = j

\* The ranks in a finite order number its set.
LEMMA OrderNumbers ==
    ASSUME NEW S, IsFiniteSet(S), NEW R, TotalOn(R, S), NEW n, n = Cardinality(S)
    PROVE  Numbered(R, S, n)
<1>1. /\ \A i \in S : <<i, i>> \notin R
      /\ \A i, j \in S : i # j => <<i, j>> \in R \/ <<j, i>> \in R
      /\ \A i, j, k \in S : <<i, j>> \in R /\ <<j, k>> \in R => <<i, k>> \in R
  BY DEF TotalOn
<1>2. PICK m \in Nat : m = Cardinality(S)
  BY FS_CardinalityType
<1>3. /\ \A i \in S : 1 + RankIn(R, S, i) \in 1 .. m
      /\ \A k \in 1 .. m : \E i \in S : 1 + RankIn(R, S, i) = k
      /\ \A i, j \in S : RankIn(R, S, i) = RankIn(R, S, j) => i = j
  BY <1>1, <1>2, RanksNumberSet
<1> QED BY <1>2, <1>3 DEF Numbered

\* The ids of a match are numbered by their ranks.
LEMMA Ranked ==
    ASSUME NEW ids \in Seq(Int), IsInjective(ids), NEW n, n = Len(ids)
    PROVE  /\ n \in Nat
           /\ \A id \in ToSet(ids) : Dense(ids, id) \in 1 .. n
           /\ \A i \in 1 .. n : \E id \in ToSet(ids) : Dense(ids, id) = i
           /\ \A a, b \in ToSet(ids) : Dense(ids, a) = Dense(ids, b) => a = b
           /\ \A a, b \in ToSet(ids) : a < b => Dense(ids, a) < Dense(ids, b)
<1>1. IsFiniteSet(1 .. n) /\ Cardinality(1 .. n) = n
  <2>1. n \in Nat
    OBVIOUS
  <2> QED BY <2>1, FirstNumbers
<1>2. n \in Nat /\ DOMAIN ids = 1 .. n
  OBVIOUS
<1>3. PICK S : S = ToSet(ids)
  OBVIOUS
<1>4. ids \in Bijection(1 .. n, S)
  <2>1. ids \in [1 .. n -> S] /\ \A x \in S : \E i \in 1 .. n : ids[i] = x
    BY <1>2, <1>3 DEF ToSet
  <2> QED BY <1>2, <2>1 DEF Bijection, Injection, Surjection, IsInjective
<1>5. IsFiniteSet(S) /\ Cardinality(S) = n
  <2> QED BY <1>1, <1>4, FS_Bijection DEF ExistsBijection
<1>6. \A x \in S : x \in Int
  BY <1>3 DEF ToSet
<1>7. PICK R : R = {e \in S \X S : e[1] < e[2]}
  OBVIOUS
<1>8. \A i, j \in S : <<i, j>> \in R <=> i < j
  BY <1>7
<1>9. TotalOn(R, S)
  BY <1>6, <1>8 DEF TotalOn
<1>10. Numbered(R, S, n)
  BY <1>5, <1>9, OrderNumbers
<1>11. ASSUME NEW a \in S
       PROVE  Dense(ids, a) = 1 + RankIn(R, S, a) /\ RankIn(R, S, a) \in Nat
  <2>1. PICK U : U = {j \in S : <<j, a>> \in R}
    OBVIOUS
  <2>2. IsFiniteSet(U) /\ a \notin U
    BY <1>5, <1>9, <2>1, FS_Subset DEF TotalOn
  <2>3. PICK u \in Nat : u = Cardinality(U)
    BY <2>2, FS_CardinalityType
  <2>4. Cardinality(U \cup {a}) = u + 1
    BY <2>2, <2>3, FS_AddElement
  <2>5. {i \in S : i <= a} = U \cup {a}
    BY <1>6, <1>8, <2>1
  <2>6. RankIn(R, S, a) = u
    BY <2>1, <2>3 DEF RankIn
  <2>7. Dense(ids, a) = Cardinality(U \cup {a})
    BY <1>3, <2>5 DEF Dense
  <2> QED BY <2>3, <2>4, <2>6, <2>7
<1>12. ASSUME NEW a \in S, NEW b \in S, a < b
       PROVE  Dense(ids, a) < Dense(ids, b)
  <2>1. PICK U : U = {i \in S : i <= a}
    OBVIOUS
  <2>2. PICK V : V = {i \in S : i <= b}
    OBVIOUS
  <2>3. U \in SUBSET V /\ b \in V /\ b \notin U
    BY <1>6, <1>12, <2>1, <2>2
  <2>4. IsFiniteSet(V)
    BY <1>5, <2>2, FS_Subset
  <2>5. IsFiniteSet(U) /\ Cardinality(U) <= Cardinality(V) /\ (Cardinality(U) = Cardinality(V) => U = V)
    BY <2>3, <2>4, FS_Subset
  <2>6. Cardinality(U) \in Nat /\ Cardinality(V) \in Nat
    BY <2>4, <2>5, FS_CardinalityType
  <2>7. Dense(ids, a) = Cardinality(U) /\ Dense(ids, b) = Cardinality(V)
    BY <1>3, <2>1, <2>2 DEF Dense
  <2> QED BY <2>3, <2>5, <2>6, <2>7
<1>13. \A a \in S : Dense(ids, a) \in 1 .. n
  BY <1>10, <1>11 DEF Numbered
<1>14. \A i \in 1 .. n : \E id \in S : Dense(ids, id) = i
  BY <1>10, <1>11 DEF Numbered
<1>15. \A a, b \in S : Dense(ids, a) = Dense(ids, b) => a = b
  BY <1>10, <1>11 DEF Numbered
<1> QED BY <1>2, <1>3, <1>12, <1>13, <1>14, <1>15

----------------------------------------------------------------------------
(* The turn by half a circle *)

\* Turning twice is the identity, and a cell turned stays on the board.
LEMMA RotateTwice ==
    ASSUME NEW c \in Cells
    PROVE  Rotate(c) \in Cells /\ Rotate(Rotate(c)) = c
BY RulesAssumption DEF Rotate, Cells, RulesAssumption

\* A cell and its partner agree on which of them is walked first.
LEMMA FirstShared ==
    ASSUME NEW c \in Cells
    PROVE  FirstOf(Rotate(c)) = FirstOf(c)
<1>1. /\ Rotate(c) \in Cells
      /\ Rotate(Rotate(c)) = c
  BY RotateTwice
<1>2. /\ c[1] \in Int /\ c[2] \in Int /\ c = <<c[1], c[2]>>
      /\ Rotate(c)[1] \in Int /\ Rotate(c)[2] \in Int
      /\ Rotate(c) = <<Rotate(c)[1], Rotate(c)[2]>>
  BY <1>1, RulesAssumption DEF Cells, RulesAssumption
<1>3. CASE Precedes(c, Rotate(c)) /\ Precedes(Rotate(c), c)
  <2>1. Rotate(c)[1] = c[1] /\ Rotate(c)[2] = c[2]
    BY <1>2, <1>3 DEF Precedes
  <2>2. Rotate(c) = c
    BY <1>2, <2>1
  <2> QED BY <2>2
<1>4. CASE Precedes(c, Rotate(c)) /\ ~Precedes(Rotate(c), c)
  BY <1>1, <1>4 DEF FirstOf
<1>5. CASE ~Precedes(c, Rotate(c)) /\ Precedes(Rotate(c), c)
  BY <1>1, <1>5 DEF FirstOf
<1>6. Precedes(c, Rotate(c)) \/ Precedes(Rotate(c), c)
  BY <1>2 DEF Precedes
<1> QED BY <1>3, <1>4, <1>5, <1>6

\* The in-place mirroring of generateElevationMap leaves no trace of the
\* order of its writes: on a board of any size, even or odd, a cell and its
\* partner end up at the same height.
THEOREM ElevationTurns ==
    ASSUME NEW noise, NEW c \in Cells
    PROVE  EnforcePointSymmetry(noise)[Rotate(c)] = EnforcePointSymmetry(noise)[c]
BY FirstShared, RotateTwice DEF EnforcePointSymmetry

\* extractWater never floods one cell of a pair only, however many cells it is
\* asked for: the count that is odd takes a whole pair more.
THEOREM WaterTurns ==
    ASSUME NEW elev, NEW percent, NEW c \in ExtractWater(elev, percent)
    PROVE  Rotate(c) \in ExtractWater(elev, percent)
<1> DEFINE asked == (percent * Width * Width) \div 100
           pairs == {d \in Cells : d = FirstOf(d)}
           flooded == {q \in pairs :
                         Cardinality({d \in pairs : LowerPair(elev, d, q)}) < (asked + 1) \div 2}
<1>1. ExtractWater(elev, percent) = UNION {{p, Rotate(p)} : p \in flooded}
  BY DEF ExtractWater
<1>2. PICK p \in flooded : c \in {p, Rotate(p)}
  BY <1>1
<1>3. Rotate(c) \in {p, Rotate(p)}
  BY <1>2, RotateTwice
<1> QED BY <1>1, <1>3

\* The bands of the slots that get cities of their own and of their partners.
LEMMA Bands ==
    /\ GetPlayerBand(1, 2) = [x |-> <<0, Width - 1>>, y |-> <<0, Width \div 2 - 1>>]
    /\ GetPlayerBand(2, 2) = [x |-> <<0, Width - 1>>, y |-> <<Width \div 2, Width - 1>>]
    /\ GetPlayerBand(1, 3) = [x |-> <<0, Width - 1>>, y |-> <<0, Width \div 3 - 1>>]
    /\ GetPlayerBand(2, 3) = [x |-> <<0, Width - 1>>,
                              y |-> <<Width \div 3, Width - Width \div 3 - 1>>]
    /\ GetPlayerBand(3, 3) = [x |-> <<0, Width - 1>>, y |-> <<Width - Width \div 3, Width - 1>>]
    /\ GetPlayerBand(1, 4) = [x |-> <<0, Width \div 2 - 1>>, y |-> <<0, Width \div 2 - 1>>]
    /\ GetPlayerBand(2, 4) = [x |-> <<Width \div 2, Width - 1>>, y |-> <<0, Width \div 2 - 1>>]
    /\ GetPlayerBand(3, 4) = [x |-> <<0, Width \div 2 - 1>>, y |-> <<Width \div 2, Width - 1>>]
    /\ GetPlayerBand(4, 4) = [x |-> <<Width \div 2, Width - 1>>,
                              y |-> <<Width \div 2, Width - 1>>]
BY DEF GetPlayerBand

\* Within, for a cell given by its coordinates and a band by its four borders.
LEMMA WithinBorders ==
    ASSUME NEW c, NEW x1, NEW x2, NEW y1, NEW y2
    PROVE  Within(c, [x |-> <<x1, x2>>, y |-> <<y1, y2>>])
             <=> x1 <= c[1] /\ c[1] <= x2 /\ y1 <= c[2] /\ c[2] <= y2
BY DEF Within

\* The cities that enforceCitySymmetry adds belong to the slot in whose band
\* they lie, on every board but one of odd size for four players: there the
\* middle column belongs to the band of slot 2 and turns into that of slot 4.
THEOREM CitiesInOwnBand ==
    ASSUME NEW n \in 2 .. 4, n = 4 => Width % 2 = 0,
           NEW placed,
           \A p \in placed : /\ p.owner \in (IF n = 2 THEN {1} ELSE {1, 2})
                             /\ p.cell \in Cells
                             /\ Within(p.cell, GetPlayerBand(p.owner, n)),
           NEW city \in EnforceCitySymmetry(placed, n)
    PROVE  Within(city.cell, GetPlayerBand(city.owner, n))
<1>1. CASE city \in placed
  BY <1>1
<1>2. ASSUME NEW p \in placed,
             city = [cell |-> Rotate(p.cell), owner |-> PartnerPlayer(p.owner, n)]
      PROVE  Within(city.cell, GetPlayerBand(city.owner, n))
  <2>1. PICK half \in Nat, third \in Nat :
             half = Width \div 2 /\ third = Width \div 3 /\ 2 * half <= Width /\ 3 * third <= Width
    BY RulesAssumption DEF RulesAssumption
  <2>2. PICK x \in 0 .. Width - 1, y \in 0 .. Width - 1 : p.cell = <<x, y>>
    BY DEF Cells
  <2>3. Width \in Nat /\ city.cell = <<Width - 1 - x, Width - 1 - y>>
    BY <1>2, <2>2, RulesAssumption DEF Rotate, RulesAssumption
  <2>4. Within(p.cell, GetPlayerBand(p.owner, n)) /\ city.owner = n + 1 - p.owner
    BY <1>2 DEF PartnerPlayer
  <2>5. CASE n = 2
    <3>1. p.owner = 1 /\ city.owner = 2
      BY <2>4, <2>5
    <3>2. y <= half - 1
      BY <2>1, <2>2, <2>4, <2>5, <3>1, Bands, WithinBorders
    <3>3. Width - 1 - y >= half /\ Width - 1 - x >= 0
      BY <2>1, <2>3, <3>2
    <3> QED BY <2>1, <2>3, <2>5, <3>1, <3>3, Bands, WithinBorders
  <2>6. CASE n = 3
    <3>1. CASE p.owner = 1
      <4>1. city.owner = 3
        BY <2>4, <2>6, <3>1
      <4>2. y <= third - 1
        BY <2>1, <2>2, <2>4, <2>6, <3>1, Bands, WithinBorders
      <4> QED BY <2>1, <2>3, <2>6, <4>1, <4>2, Bands, WithinBorders
    <3>2. CASE p.owner = 2
      <4>1. city.owner = 2
        BY <2>4, <2>6, <3>2
      <4>2. third <= y /\ y <= Width - third - 1
        BY <2>1, <2>2, <2>4, <2>6, <3>2, Bands, WithinBorders
      <4> QED BY <2>1, <2>3, <2>6, <4>1, <4>2, Bands, WithinBorders
    <3> QED BY <2>6, <3>1, <3>2
  <2>7. CASE n = 4
    <3>1. Width = 2 * half
      BY <2>1, <2>3, <2>7
    <3>2. CASE p.owner = 1
      <4>1. city.owner = 4
        BY <2>4, <2>7, <3>2
      <4>2. x <= half - 1 /\ y <= half - 1
        BY <2>1, <2>2, <2>4, <2>7, <3>2, Bands, WithinBorders
      <4> QED BY <2>1, <2>3, <2>7, <3>1, <4>1, <4>2, Bands, WithinBorders
    <3>3. CASE p.owner = 2
      <4>1. city.owner = 3
        BY <2>4, <2>7, <3>3
      <4>2. x >= half /\ y <= half - 1
        BY <2>1, <2>2, <2>4, <2>7, <3>3, Bands, WithinBorders
      <4> QED BY <2>1, <2>3, <2>7, <3>1, <4>1, <4>2, Bands, WithinBorders
    <3> QED BY <2>7, <3>2, <3>3
  <2> QED BY <2>5, <2>6, <2>7
<1> QED BY <1>1, <1>2 DEF EnforceCitySymmetry

\* The flow check of the validator rejects nothing that its check of the land
\* has not: whatever the heights, the downhill direction of an edge moves
\* troops, so every step over land is flow-viable.
THEOREM FlowCheckIdle ==
    ASSUME FlowRate > 0, NEW b, b.elevation \in [Cells -> Int], NEW cities
    PROVE  /\ FlowSteps(b) = StepsInto(Cells \ b.water)
           /\ CitiesMeet(cities, FlowSteps(b)) <=> CitiesMeet(cities, StepsInto(Cells \ b.water))
<1>1. ASSUME NEW from \in Int, NEW to \in Int
      PROVE  IsFlowViableEdge(from, to)
  <2>1. /\ FlowDownhillStep \in Nat /\ FlowSlopeDeltaCap \in Nat /\ FlowRate \in Nat
        /\ FlowUphillStep \in Nat
    BY RulesAssumption DEF RulesAssumption
  <2>2. ASSUME NEW drop \in Int, drop <= 0
        PROVE  FlowRateForDelta(drop, FlowRate) > 0
    <3>1. CASE drop = 0
      <4>1. FlowUphillStep * drop = 0
        BY <2>1, <3>1
      <4> QED BY <2>1, <3>1, <4>1 DEF FlowRateForDelta
    <3>2. CASE drop < 0
      <4>1. Least(-drop, FlowSlopeDeltaCap) \in Nat
        BY <2>1, <3>2 DEF Least
      <4>2. FlowDownhillStep * Least(-drop, FlowSlopeDeltaCap) >= 0
        BY <2>1, <4>1
      <4> QED BY <2>1, <3>2, <4>1, <4>2 DEF FlowRateForDelta
    <3> QED BY <2>2, <3>1, <3>2
  <2>3. CASE to <= from
    <3>1. to - from \in Int /\ to - from <= 0
      BY <2>3
    <3> QED BY <2>2, <3>1 DEF IsFlowViableEdge
  <2>4. CASE from <= to
    <3>1. from - to \in Int /\ from - to <= 0
      BY <2>4
    <3> QED BY <2>2, <3>1 DEF IsFlowViableEdge
  <2> QED BY <2>3, <2>4
<1>2. ASSUME NEW e \in StepsInto(Cells \ b.water)
      PROVE  IsFlowViableEdge(b.elevation[e[1]], b.elevation[e[2]])
  <2>1. e[1] \in Cells /\ e[2] \in Cells
    BY <1>2 DEF StepsInto
  <2> QED BY <1>1, <2>1
<1>3. FlowSteps(b) = StepsInto(Cells \ b.water)
  BY <1>2 DEF FlowSteps
<1> QED BY <1>3

----------------------------------------------------------------------------
(* Where cities are placed *)

\* The land of a band.
LandOf(band, water) == {c \in Cells \ water : Within(c, band)}

\* Which of two cells of a band placeCitiesInBand tries first.
Further(band, a, b) ==
    \/ OffCentre(a, band) > OffCentre(b, band)
    \/ OffCentre(a, band) = OffCentre(b, band) /\ a # b /\ Precedes(a, b)

TriedBefore(band, water, mirrorAware) ==
    {e \in LandOf(band, water) \X LandOf(band, water) :
        IF mirrorAware THEN Further(band, e[2], e[1]) ELSE Further(band, e[1], e[2])}

Bordered == [x : Int \X Int, y : Int \X Int]

\* The order of the cells of a band is total.
LEMMA FurtherTotal ==
    ASSUME NEW band \in Bordered
    PROVE  /\ \A a \in Cells : ~Further(band, a, a)
           /\ \A a, b \in Cells : a # b => Further(band, a, b) \/ Further(band, b, a)
           /\ \A a, b, c \in Cells : Further(band, a, b) /\ Further(band, b, c) => Further(band, a, c)
<1>1. ASSUME NEW a \in Cells PROVE OffCentre(a, band) \in Int
  <2>1. /\ a[1] \in Int /\ a[2] \in Int
        /\ band.x[1] \in Int /\ band.x[2] \in Int /\ band.y[1] \in Int /\ band.y[2] \in Int
    BY RulesAssumption DEF Cells, Bordered
  <2>2. PICK u \in Int : u = 2 * a[1] - band.x[1] - band.x[2]
    BY <2>1
  <2>3. PICK v \in Int : v = 2 * a[2] - band.y[1] - band.y[2]
    BY <2>1
  <2> QED BY <2>2, <2>3 DEF OffCentre, Abs, Least
<1>2. ASSUME NEW a \in Cells
      PROVE  a[1] \in Int /\ a[2] \in Int /\ a = <<a[1], a[2]>>
  BY RulesAssumption DEF Cells
<1>3. ASSUME NEW a \in Cells, NEW b \in Cells, a # b
      PROVE  Further(band, a, b) \/ Further(band, b, a)
  <2>1. a[1] # b[1] \/ a[2] # b[2]
    BY <1>2, <1>3
  <2>2. Precedes(a, b) \/ Precedes(b, a)
    BY <1>2 DEF Precedes
  <2> QED BY <1>1, <1>3, <2>2 DEF Further
<1>4. ASSUME NEW a \in Cells, NEW b \in Cells, NEW c \in Cells,
             Further(band, a, b), Further(band, b, c)
      PROVE  Further(band, a, c)
  <2>1. OffCentre(a, band) \in Int /\ OffCentre(b, band) \in Int /\ OffCentre(c, band) \in Int
    BY <1>1
  <2>2. CASE OffCentre(a, band) > OffCentre(c, band)
    BY <2>2 DEF Further
  <2>3. CASE ~(OffCentre(a, band) > OffCentre(c, band))
    <3>1. /\ OffCentre(a, band) = OffCentre(b, band) /\ OffCentre(b, band) = OffCentre(c, band)
          /\ a # b /\ b # c /\ Precedes(a, b) /\ Precedes(b, c)
      BY <1>4, <2>1, <2>3 DEF Further
    <3>2. a[1] # b[1] \/ a[2] # b[2]
      BY <1>2, <3>1
    <3>3. Precedes(a, c) /\ a # c
      BY <1>2, <3>1, <3>2 DEF Precedes
    <3> QED BY <3>1, <3>3 DEF Further
  <2> QED BY <2>2, <2>3
<1>5. ASSUME NEW a \in Cells PROVE ~Further(band, a, a)
  BY <1>1 DEF Further
<1> QED BY <1>3, <1>4, <1>5

\* There are finitely many cells in a band, and every candidate is one of its land.
LEMMA CandidatesOnLand ==
    ASSUME NEW band \in Bordered, NEW water, NEW mirrorAware \in BOOLEAN
    PROVE  /\ IsFiniteSet(LandOf(band, water))
           /\ Candidates(band, water, mirrorAware) \in Seq(LandOf(band, water))
<1>1. PICK S : S = LandOf(band, water)
  OBVIOUS
<1>2. S \subseteq Cells /\ IsFiniteSet(S)
  <2>1. S \subseteq Cells
    BY <1>1 DEF LandOf
  <2> QED BY <2>1, CellsFinite, FS_Subset
<1>3. PICK R : R = TriedBefore(band, water, mirrorAware)
  OBVIOUS
<1>4. \A a, b \in S : <<a, b>> \in R <=>
         IF mirrorAware THEN Further(band, b, a) ELSE Further(band, a, b)
  BY <1>1, <1>3 DEF TriedBefore
<1>5. TotalOn(R, S)
  <2>1. \A x \in S : x \in Cells
    BY <1>2
  <2> QED BY <1>4, <2>1, FurtherTotal DEF TotalOn
<1>6. PICK n \in Nat : n = Cardinality(S)
  BY <1>2, FS_CardinalityType
<1>7. Numbered(R, S, n)
  BY <1>2, <1>5, <1>6, OrderNumbers
<1> DEFINE before(c) == {d \in S : IF mirrorAware THEN Further(band, c, d) ELSE Further(band, d, c)}
           at(k) == CHOOSE c \in S : 1 + Cardinality(before(c)) = k
<1>8. Candidates(band, water, mirrorAware) = [k \in 1 .. n |-> at(k)]
  BY <1>1, <1>6 DEF Candidates, LandOf, Further
<1>9. \A c \in S : RankIn(R, S, c) = Cardinality(before(c))
  <2> SUFFICES ASSUME NEW c \in S PROVE RankIn(R, S, c) = Cardinality(before(c))
    OBVIOUS
  <2>1. {y \in S : <<y, c>> \in R} = before(c)
    BY <1>4
  <2> QED BY <2>1 DEF RankIn
<1> HIDE DEF before
<1>10. \A k \in 1 .. n : \E x \in S : 1 + Cardinality(before(x)) = k
  BY <1>7, <1>9 DEF Numbered
<1>11. \A k \in 1 .. n : at(k) \in S
  BY <1>10
<1> HIDE DEF at
<1>12. Candidates(band, water, mirrorAware) \in [1 .. n -> S]
  BY <1>8, <1>11
<1>13. \A f \in [1 .. n -> S] : f \in Seq(S)
  OBVIOUS
<1> QED BY <1>1, <1>2, <1>12, <1>13

\* The cells picked after one more candidate, in the pass that asks for distances
Strictly(water, s, count, existing, mirrorAware, picked, c) ==
    LET mirrors(cells) == IF mirrorAware THEN {Rotate(d) : d \in cells} ELSE {}
        spaced(others) == \A o \in others : Chebyshev(c, o) >= s.minCityCityDistance
    IN  IF /\ Cardinality(picked) < count
           /\ DryEnough(c, water, s)
           /\ mirrorAware => Rotate(c) # c
           /\ spaced(mirrors({c}) \cup picked \cup mirrors(picked) \cup existing)
        THEN picked \cup {c} ELSE picked

\* and in the pass that fills up.
Anyhow(count, picked, c) == IF Cardinality(picked) < count THEN picked \cup {c} ELSE picked

\* The two passes.
FirstPass(water, s, count, existing, mirrorAware, b, seq) ==
    FoldLeft(LAMBDA picked, c : Strictly(water, s, count, existing, mirrorAware, picked, c), b, seq)

SecondPass(count, b, seq) ==
    FoldLeft(LAMBDA picked, c : Anyhow(count, picked, c), b, seq)

\* What every candidate keeps, the first pass keeps,
LEMMA FirstPassKept ==
    ASSUME NEW water, NEW s, NEW count, NEW existing, NEW mirrorAware,
           NEW St, NEW b \in St, NEW seq, NEW n \in Nat, DOMAIN seq = 1 .. n,
           \A y \in St, k \in 1 .. n : Strictly(water, s, count, existing, mirrorAware, y, seq[k]) \in St
    PROVE  FirstPass(water, s, count, existing, mirrorAware, b, seq) \in St
<1> DEFINE Is(g) == g = [q \in SUBSET (DOMAIN seq) |->
                           IF q = {} THEN b
                           ELSE Strictly(water, s, count, existing, mirrorAware, g[q \ {Max(q)}], seq[Max(q)])]
           F == [z \in St \X (1 .. n) |-> Strictly(water, s, count, existing, mirrorAware, z[1], seq[z[2]])]
<1>1. PICK g \in [SUBSET (1 .. n) -> St] : IsFold(g, F, b, n)
  <2>1. F \in [St \X (1 .. n) -> St]
    OBVIOUS
  <2> HIDE DEF F
  <2> QED BY <2>1, FoldTyped
<1>2. Is(g)
  <2>1. ASSUME NEW q \in SUBSET (1 .. n), q # {}
        PROVE  g[q] = Strictly(water, s, count, existing, mirrorAware, g[q \ {Max(q)}], seq[Max(q)])
    <3>1. Max(q) \in 1 .. n
      BY <2>1, GreatestChosen
    <3>2. <<g[q \ {Max(q)}], Max(q)>> \in St \X (1 .. n)
      BY <3>1
    <3> QED BY <1>1, <2>1, <3>2 DEF IsFold
  <2>2. g[{}] = b
    BY <1>1 DEF IsFold
  <2> QED BY <2>1, <2>2
<1>3. PICK it : Is(it) /\ FirstPass(water, s, count, existing, mirrorAware, b, seq) = it[DOMAIN seq]
  BY <1>2 DEF FirstPass, FoldLeft, MapThenFoldSet
<1>4. it[{}] = b
  BY <1>3
<1>5. ASSUME NEW q \in SUBSET (1 .. n), q # {}, it[q \ {Max(q)}] \in St
      PROVE  it[q] \in St
  <2>1. Max(q) \in 1 .. n
    BY <1>5, GreatestChosen
  <2>2. it[q] = Strictly(water, s, count, existing, mirrorAware, it[q \ {Max(q)}], seq[Max(q)])
    BY <1>3, <1>5
  <2> QED BY <1>5, <2>1, <2>2
<1> HIDE DEF Is
<1>6. \A q \in SUBSET (1 .. n) : it[q] \in St
  BY <1>4, <1>5, FoldKept
<1> QED BY <1>3, <1>6

\* and so does the second.
LEMMA SecondPassKept ==
    ASSUME NEW count, NEW St, NEW b \in St, NEW seq, NEW n \in Nat, DOMAIN seq = 1 .. n,
           \A y \in St, k \in 1 .. n : Anyhow(count, y, seq[k]) \in St
    PROVE  SecondPass(count, b, seq) \in St
<1> DEFINE Is(g) == g = [q \in SUBSET (DOMAIN seq) |->
                           IF q = {} THEN b
                           ELSE Anyhow(count, g[q \ {Max(q)}], seq[Max(q)])]
           F == [z \in St \X (1 .. n) |-> Anyhow(count, z[1], seq[z[2]])]
<1>1. PICK g \in [SUBSET (1 .. n) -> St] : IsFold(g, F, b, n)
  <2>1. F \in [St \X (1 .. n) -> St]
    OBVIOUS
  <2> HIDE DEF F
  <2> QED BY <2>1, FoldTyped
<1>2. Is(g)
  <2>1. ASSUME NEW q \in SUBSET (1 .. n), q # {}
        PROVE  g[q] = Anyhow(count, g[q \ {Max(q)}], seq[Max(q)])
    <3>1. Max(q) \in 1 .. n
      BY <2>1, GreatestChosen
    <3>2. <<g[q \ {Max(q)}], Max(q)>> \in St \X (1 .. n)
      BY <3>1
    <3> QED BY <1>1, <2>1, <3>2 DEF IsFold
  <2>2. g[{}] = b
    BY <1>1 DEF IsFold
  <2> QED BY <2>1, <2>2
<1>3. PICK it : Is(it) /\ SecondPass(count, b, seq) = it[DOMAIN seq]
  BY <1>2 DEF SecondPass, FoldLeft, MapThenFoldSet
<1>4. it[{}] = b
  BY <1>3
<1>5. ASSUME NEW q \in SUBSET (1 .. n), q # {}, it[q \ {Max(q)}] \in St
      PROVE  it[q] \in St
  <2>1. Max(q) \in 1 .. n
    BY <1>5, GreatestChosen
  <2>2. it[q] = Anyhow(count, it[q \ {Max(q)}], seq[Max(q)])
    BY <1>3, <1>5
  <2> QED BY <1>5, <2>1, <2>2
<1> HIDE DEF Is
<1>6. \A q \in SUBSET (1 .. n) : it[q] \in St
  BY <1>4, <1>5, FoldKept
<1> QED BY <1>3, <1>6

\* placeCitiesInBand is these two passes over the candidates.
LEMMA TwoPasses ==
    ASSUME NEW band, NEW water, NEW s, NEW count, NEW existing, NEW mirrorAware
    PROVE  PlaceCitiesInBand(band, water, s, count, existing, mirrorAware) =
             SecondPass(count,
                        FirstPass(water, s, count, existing, mirrorAware, {},
                                  Candidates(band, water, mirrorAware)),
                        Candidates(band, water, mirrorAware))
BY DEF PlaceCitiesInBand, FirstPass, SecondPass, Strictly, Anyhow

\* Both passes pick land of the band, and no more cells than they are asked for.
LEMMA PickedOnLand ==
    ASSUME NEW band \in Bordered, NEW water, NEW s, NEW count \in Nat, NEW existing,
           NEW mirrorAware \in BOOLEAN,
           NEW picks, picks = PlaceCitiesInBand(band, water, s, count, existing, mirrorAware)
    PROVE  /\ picks \subseteq LandOf(band, water)
           /\ IsFiniteSet(picks) /\ Cardinality(picks) <= count
<1>1. PICK S : S = LandOf(band, water)
  OBVIOUS
<1>2. PICK seq : seq = Candidates(band, water, mirrorAware)
  OBVIOUS
<1>3. IsFiniteSet(S) /\ seq \in Seq(S)
  BY <1>1, <1>2, CandidatesOnLand
<1>4. PICK n \in Nat : n = Len(seq)
  BY <1>3
<1>5. DOMAIN seq = 1 .. n /\ \A k \in 1 .. n : seq[k] \in S
  BY <1>3, <1>4
<1>6. PICK St : St = {P \in SUBSET S : Cardinality(P) <= count}
  OBVIOUS
<1>7. ASSUME NEW P \in St, NEW c \in S, Cardinality(P) < count
      PROVE  P \cup {c} \in St
  <2>1. IsFiniteSet(P)
    BY <1>3, <1>6, FS_Subset
  <2>2. Cardinality(P) \in Nat
    BY <2>1, FS_CardinalityType
  <2>3. Cardinality(P \cup {c}) \in {Cardinality(P), Cardinality(P) + 1}
    BY <2>1, FS_AddElement
  <2>4. Cardinality(P \cup {c}) <= count
    BY <1>7, <2>2, <2>3
  <2> QED BY <1>6, <2>4
<1>8. {} \in St
  BY <1>6, FS_EmptySet
<1>9. \A y \in St, k \in 1 .. n :
         /\ Strictly(water, s, count, existing, mirrorAware, y, seq[k]) \in St
         /\ Anyhow(count, y, seq[k]) \in St
  <2> TAKE y \in St, k \in 1 .. n
  <2>1. PICK c \in S : c = seq[k]
    BY <1>5
  <2>2. /\ Strictly(water, s, count, existing, mirrorAware, y, c)
              \in {y} \cup (IF Cardinality(y) < count THEN {y \cup {c}} ELSE {})
        /\ Anyhow(count, y, c) \in {y} \cup (IF Cardinality(y) < count THEN {y \cup {c}} ELSE {})
    BY DEF Strictly, Anyhow
  <2> QED BY <1>7, <2>1, <2>2
<1>10. PICK first \in St : first = FirstPass(water, s, count, existing, mirrorAware, {}, seq)
  BY <1>5, <1>8, <1>9, FirstPassKept
<1>11. SecondPass(count, first, seq) \in St
  BY <1>5, <1>9, SecondPassKept
<1>12. picks \in St
  BY <1>2, <1>10, <1>11, TwoPasses
<1>13. picks \subseteq S /\ Cardinality(picks) <= count
  BY <1>6, <1>12
<1> QED BY <1>1, <1>3, <1>13, FS_Subset

----------------------------------------------------------------------------
(* How many cities a slot gets *)

\* A set that a function covers is no larger than its domain.
LEMMA CoveredSmaller ==
    ASSUME NEW S, IsFiniteSet(S), NEW T, NEW f \in [S -> T], \A t \in T : \E x \in S : f[x] = t
    PROVE  IsFiniteSet(T) /\ Cardinality(T) <= Cardinality(S)
<1>1. f \in Surjection(S, T)
  BY DEF Surjection
<1> QED BY <1>1, FS_Surjection

\* A set of cells, turned.
Turned(cells) == {Rotate(c) : c \in cells}

\* A set of cells turned has as many as before, and turned again is what it was.
LEMMA TurnedSame ==
    ASSUME NEW cells \in SUBSET Cells
    PROVE  /\ Turned(cells) \subseteq Cells
           /\ IsFiniteSet(cells) /\ IsFiniteSet(Turned(cells))
           /\ Cardinality(Turned(cells)) <= Cardinality(cells)
           /\ Turned(Turned(cells)) = cells
<1>1. Turned(cells) \subseteq Cells
  BY RotateTwice DEF Turned
<1>2. IsFiniteSet(cells)
  BY CellsFinite, FS_Subset
<1>3. Turned(Turned(cells)) = cells
  BY RotateTwice DEF Turned
<1>4. IsFiniteSet(Turned(cells)) /\ Cardinality(Turned(cells)) <= Cardinality(cells)
  <2> DEFINE f == [c \in cells |-> Rotate(c)]
  <2>1. f \in [cells -> Turned(cells)] /\ \A t \in Turned(cells) : \E c \in cells : f[c] = t
    BY DEF Turned
  <2> QED BY <1>2, <2>1, CoveredSmaller
<1> QED BY <1>1, <1>2, <1>3, <1>4

\* The settings a board is built with: for three players the cities of a player
\* are an even number.
SettingsFit(s, n) ==
    /\ s.citiesPerPlayer \in Nat /\ s.maxRegenAttempts \in Nat
    /\ n = 3 => s.citiesPerPlayer % 2 = 0

\* Clamping and normalising leave such settings.
LEMMA SettingsOf ==
    ASSUME NEW r \in Requests, NEW n, n = Len(r.ids),
           NEW s, s = NormalizeSettings(ClampSettings(r.settings), n)
    PROVE  SettingsFit(s, n) /\ s.maxRegenAttempts = ClampSettings(r.settings).maxRegenAttempts
<1>1. /\ {"citiesPerPlayer", "maxRegenAttempts"} \subseteq DOMAIN Safe
      /\ \A f \in DOMAIN Safe : Safe[f] \in Nat \X Nat
      /\ r.settings \in [DOMAIN Safe -> Int]
  BY RequestsAssumption
<1>2. PICK t : t = ClampSettings(r.settings)
  OBVIOUS
<1>3. t \in [DOMAIN Safe -> Nat]
  <2>1. ASSUME NEW f \in DOMAIN Safe PROVE ClampInt(r.settings[f], Safe[f]) \in Nat
    <3>1. Safe[f][1] \in Nat /\ Safe[f][2] \in Nat /\ r.settings[f] \in Int
      BY <1>1
    <3> QED BY <3>1 DEF ClampInt
  <2> QED BY <1>1, <1>2, <2>1 DEF ClampSettings
<1>4. PICK k \in Nat : k = t.citiesPerPlayer
  BY <1>1, <1>3
<1>5. s = [t EXCEPT !.citiesPerPlayer = IF n = 3 /\ k % 2 # 0 THEN k + 1 ELSE k]
  BY <1>2, <1>4 DEF NormalizeSettings
<1>6. s.citiesPerPlayer = (IF n = 3 /\ k % 2 # 0 THEN k + 1 ELSE k) /\ s.maxRegenAttempts = t.maxRegenAttempts
  BY <1>1, <1>3, <1>5
<1>7. t.maxRegenAttempts \in Nat
  BY <1>1, <1>3
<1>8. s.citiesPerPlayer \in Nat /\ (n = 3 => s.citiesPerPlayer % 2 = 0)
  BY <1>4, <1>6
<1> QED BY <1>2, <1>6, <1>7, <1>8 DEF SettingsFit

\* The borders of the bands that are filled are numbers.
LEMMA BandsBordered ==
    ASSUME NEW n \in 2 .. 4, NEW slot \in {1, 2}
    PROVE  GetPlayerBand(slot, n) \in Bordered
<1>1. PICK half \in Int, third \in Int : half = Width \div 2 /\ third = Width \div 3
  BY RulesAssumption
<1>2. Width \in Int
  BY RulesAssumption
<1>3. \A a, b, c, d \in Int : [x |-> <<a, b>>, y |-> <<c, d>>] \in Bordered
  BY DEF Bordered
<1>4. /\ 0 \in Int /\ Width - 1 \in Int /\ half - 1 \in Int /\ third - 1 \in Int
      /\ Width - third - 1 \in Int
  BY <1>1, <1>2
<1>5. n = 2 \/ n = 3 \/ n = 4
  OBVIOUS
<1> QED BY <1>1, <1>2, <1>3, <1>4, <1>5, Bands

\* The cells where the cities of a slot lie.
CellsOf(cities, k) == {c.cell : c \in {d \in cities : d.owner = k}}

\* How many cities of a slot are placed, and not turned from its partner's.
Quota(count, n, k) ==
    IF k = 1 \/ (n = 4 /\ k = 2) THEN count
    ELSE IF n = 3 /\ k = 2 THEN count \div 2
    ELSE 0

\* Where generateCities places cities itself, and how many.
PlacedWell(placed, count, n) ==
    /\ \A p \in placed : /\ p = [cell |-> p.cell, owner |-> p.owner]
                         /\ p.owner \in (IF n = 2 THEN {1} ELSE {1, 2})
                         /\ p.cell \in Cells
                         /\ Within(p.cell, GetPlayerBand(p.owner, n))
    /\ \A k \in 1 .. n : Cardinality(CellsOf(placed, k)) <= Quota(count, n, k)

\* The cities of a slot on these cells.
Given(slot, cells) == {[cell |-> c, owner |-> slot] : c \in cells}

\* Where the cities lie that are given to the first two slots.
LEMMA CellsGiven ==
    ASSUME NEW C, NEW D
    PROVE  /\ CellsOf(Given(1, C), 1) = C
           /\ CellsOf(Given(1, C) \cup Given(2, D), 1) = C
           /\ CellsOf(Given(1, C) \cup Given(2, D), 2) = D
           /\ \A k : k # 1 => CellsOf(Given(1, C), k) = {}
           /\ \A k : k # 1 /\ k # 2 => CellsOf(Given(1, C) \cup Given(2, D), k) = {}
<1>1. PICK A, B : A = Given(1, C) /\ B = Given(2, D)
  OBVIOUS
<1>2. \A d \in A : d.owner = 1 /\ d.cell \in C
  BY <1>1 DEF Given
<1>3. \A d \in B : d.owner = 2 /\ d.cell \in D
  BY <1>1 DEF Given
<1>4. \A c \in C : \E d \in A : d.owner = 1 /\ d.cell = c
  <2> TAKE c \in C
  <2>1. [cell |-> c, owner |-> 1] \in A
    BY <1>1 DEF Given
  <2> QED BY <2>1
<1>5. \A c \in D : \E d \in B : d.owner = 2 /\ d.cell = c
  <2> TAKE c \in D
  <2>1. [cell |-> c, owner |-> 2] \in B
    BY <1>1 DEF Given
  <2> QED BY <2>1
<1>6. /\ \A d \in A : d.owner = 1 /\ d.cell \in C
      /\ \A d \in B : d.owner = 2 /\ d.cell \in D
      /\ \A c \in C : \E d \in A : d.owner = 1 /\ d.cell = c
      /\ \A c \in D : \E d \in B : d.owner = 2 /\ d.cell = c
  BY <1>2, <1>3, <1>4, <1>5
<1>7. CellsOf(A \cup B, 1) = C /\ CellsOf(A, 1) = C
  BY <1>6 DEF CellsOf
<1>8. CellsOf(A \cup B, 2) = D
  BY <1>6 DEF CellsOf
<1>9. (\A k : k # 1 => CellsOf(A, k) = {}) /\ (\A k : k # 1 /\ k # 2 => CellsOf(A \cup B, k) = {})
  BY <1>6 DEF CellsOf
<1> QED BY <1>1, <1>7, <1>8, <1>9

LEMMA PlacedInBands ==
    ASSUME NEW water, NEW n \in 2 .. 4, NEW s, SettingsFit(s, n)
    PROVE  PlacedWell(PlacedCities(water, s, n), s.citiesPerPlayer, n)
<1> DEFINE count == s.citiesPerPlayer
           many == IF n = 3 THEN count \div 2 ELSE count
           first == PlaceCitiesInBand(GetPlayerBand(1, n), water, s, count, {}, FALSE)
           second == PlaceCitiesInBand(GetPlayerBand(2, n), water, s, many, first, n = 3)
           placed == Given(1, first) \cup (IF n = 2 THEN {} ELSE Given(2, second))
<1>1. PlacedCities(water, s, n) = placed
  BY DEF PlacedCities, Given
<1>2. count \in Nat /\ many \in Nat
  BY DEF SettingsFit
<1>3. first \subseteq LandOf(GetPlayerBand(1, n), water) /\ Cardinality(first) <= count
  BY <1>2, BandsBordered, PickedOnLand
<1>4. second \subseteq LandOf(GetPlayerBand(2, n), water) /\ Cardinality(second) <= many
  <2>1. (n = 3) \in BOOLEAN
    OBVIOUS
  <2> HIDE DEF first
  <2> QED BY <1>2, <2>1, BandsBordered, PickedOnLand
<1> HIDE DEF first, second
<1>5. ASSUME NEW p \in placed
      PROVE  /\ p = [cell |-> p.cell, owner |-> p.owner]
             /\ p.owner \in (IF n = 2 THEN {1} ELSE {1, 2})
             /\ p.cell \in Cells
             /\ Within(p.cell, GetPlayerBand(p.owner, n))
  <2>1. CASE p \in Given(1, first)
    BY <1>3, <2>1 DEF LandOf, Given
  <2>2. CASE n # 2 /\ p \in Given(2, second)
    BY <1>4, <2>2 DEF LandOf, Given
  <2> QED BY <2>1, <2>2
<1>6. /\ CellsOf(placed, 1) = first
      /\ n # 2 => CellsOf(placed, 2) = second
      /\ \A k : k # 1 /\ ~(k = 2 /\ n # 2) => CellsOf(placed, k) = {}
  <2>1. CASE n = 2
    <3>1. placed = Given(1, first)
      BY <2>1
    <3> QED BY <2>1, <3>1, CellsGiven
  <2>2. CASE n # 2
    <3>1. placed = Given(1, first) \cup Given(2, second)
      BY <2>2
    <3> QED BY <2>2, <3>1, CellsGiven
  <2> QED BY <2>1, <2>2
<1>7. ASSUME NEW k \in 1 .. n
      PROVE  Cardinality(CellsOf(placed, k)) <= Quota(count, n, k)
  <2>1. CASE k = 1
    <3>1. CellsOf(placed, k) = first
      BY <1>6, <2>1
    <3> QED BY <1>3, <2>1, <3>1 DEF Quota
  <2>2. CASE k = 2 /\ n # 2
    <3>1. CellsOf(placed, k) = second
      BY <1>6, <2>2
    <3>2. many = Quota(count, n, k)
      BY <2>2 DEF Quota
    <3> QED BY <1>4, <3>1, <3>2
  <2>3. CASE k # 1 /\ ~(k = 2 /\ n # 2)
    <3>1. CellsOf(placed, k) = {}
      BY <1>6, <2>3
    <3>2. Quota(count, n, k) = 0
      BY <2>3 DEF Quota
    <3> QED BY <3>1, <3>2, FS_EmptySet
  <2> QED BY <2>1, <2>2, <2>3
<1> QED BY <1>1, <1>5, <1>7 DEF PlacedWell

\* Every slot has the same start on a board with these cities.
EvenCities(cities, n) ==
    /\ \A c \in cities : c.cell \in Cells /\ c.owner \in 1 .. n
    /\ \A k \in 1 .. n :
          /\ Cardinality(CellsOf(cities, k)) = Cardinality(CellsOf(cities, 1))
          /\ (n = 4 => Width % 2 = 0) => \A c \in CellsOf(cities, k) : Within(c, GetPlayerBand(k, n))
          /\ Turned(CellsOf(cities, k)) = CellsOf(cities, n + 1 - k)

\* The turn gives every slot the cells of its partner, turned.
LEMMA TurnGives ==
    ASSUME NEW n \in 2 .. 4, NEW count, NEW placed, PlacedWell(placed, count, n),
           NEW cities, cities = EnforceCitySymmetry(placed, n),
           NEW k \in 1 .. n, NEW j, j = n + 1 - k
    PROVE  CellsOf(cities, k) = CellsOf(placed, k) \cup Turned(CellsOf(placed, j))
<1>1. \A p \in placed : p.owner \in Int
  BY DEF PlacedWell
<1>2. \A x : x \in CellsOf(cities, k) <=> \E c \in cities : c.owner = k /\ c.cell = x
  BY DEF CellsOf
<1>3. \A x : \A i : x \in CellsOf(placed, i) <=> \E p \in placed : p.owner = i /\ p.cell = x
  BY DEF CellsOf
<1>4. \A x : x \in Turned(CellsOf(placed, j)) <=> \E p \in placed : p.owner = j /\ Rotate(p.cell) = x
  BY <1>3 DEF Turned
<1> DEFINE partner(p) == [cell |-> Rotate(p.cell), owner |-> PartnerPlayer(p.owner, n)]
<1>5. \A c : c \in cities <=> c \in placed \/ \E p \in placed : c = partner(p)
  BY DEF EnforceCitySymmetry
<1>6. \A p \in placed : /\ partner(p).cell = Rotate(p.cell)
                        /\ partner(p).owner = k <=> p.owner = j
  <2> TAKE p \in placed
  <2>1. partner(p).owner = n + 1 - p.owner
    BY DEF PartnerPlayer
  <2> QED BY <1>1, <2>1
<1> HIDE DEF partner
<1>7. ASSUME NEW x, NEW c \in cities, c.owner = k, c.cell = x
      PROVE  x \in CellsOf(placed, k) \cup Turned(CellsOf(placed, j))
  <2>1. CASE c \in placed
    BY <1>3, <1>7, <2>1
  <2>2. ASSUME NEW p \in placed, c = partner(p)
        PROVE  x \in Turned(CellsOf(placed, j))
    BY <1>4, <1>6, <1>7, <2>2
  <2> QED BY <1>5, <2>1, <2>2
<1>8. ASSUME NEW x \in CellsOf(placed, k)
      PROVE  x \in CellsOf(cities, k)
  BY <1>2, <1>3, <1>5
<1>9. ASSUME NEW x \in Turned(CellsOf(placed, j))
      PROVE  x \in CellsOf(cities, k)
  <2>1. PICK p \in placed : p.owner = j /\ Rotate(p.cell) = x
    BY <1>4
  <2>2. partner(p) \in cities
    BY <1>5, <2>1
  <2> QED BY <1>2, <1>6, <2>1, <2>2
<1> QED BY <1>2, <1>7, <1>8, <1>9

\* So no slot has more than its number of cities, and the cities of a slot turn
\* into those of its partner.
LEMMA SlotsFilled ==
    ASSUME NEW n \in 2 .. 4, NEW count \in Nat, n = 3 => count % 2 = 0,
           NEW placed, PlacedWell(placed, count, n),
           NEW cities, cities = EnforceCitySymmetry(placed, n),
           NEW k \in 1 .. n
    PROVE  /\ CellsOf(cities, k) \subseteq Cells /\ IsFiniteSet(CellsOf(cities, k))
           /\ Cardinality(CellsOf(cities, k)) <= count
           /\ Turned(CellsOf(cities, k)) = CellsOf(cities, n + 1 - k)
<1>1. PICK j \in 1 .. n : j = n + 1 - k /\ k = n + 1 - j
  OBVIOUS
<1>2. PICK A, B : A = CellsOf(placed, k) /\ B = CellsOf(placed, j)
  OBVIOUS
<1>3. CellsOf(cities, k) = A \cup Turned(B) /\ CellsOf(cities, j) = B \cup Turned(A)
  BY <1>1, <1>2, TurnGives
<1>4. A \subseteq Cells /\ B \subseteq Cells
  <2>1. \A p \in placed : p.cell \in Cells
    BY DEF PlacedWell
  <2> QED BY <1>2, <2>1 DEF CellsOf
<1>5. Turned(A \cup Turned(B)) = B \cup Turned(A)
  <2>1. Turned(A \cup Turned(B)) = Turned(A) \cup Turned(Turned(B))
    BY DEF Turned
  <2> QED BY <1>4, <2>1, TurnedSame
<1>6. /\ A \cup Turned(B) \subseteq Cells /\ IsFiniteSet(A) /\ IsFiniteSet(Turned(B))
      /\ Cardinality(Turned(B)) <= Cardinality(B)
      /\ IsFiniteSet(B)
  BY <1>4, TurnedSame
<1>7. Cardinality(A) <= Quota(count, n, k) /\ Cardinality(B) <= Quota(count, n, j)
  BY <1>1, <1>2 DEF PlacedWell
<1>8. /\ IsFiniteSet(A \cup Turned(B))
      /\ Cardinality(A \cup Turned(B)) =
           Cardinality(A) + Cardinality(Turned(B)) - Cardinality(A \cap Turned(B))
      /\ IsFiniteSet(A \cap Turned(B))
  <2>1. A \cap Turned(B) \in SUBSET A
    OBVIOUS
  <2> QED BY <1>6, <2>1, FS_Union, FS_Subset
<1>9. PICK a \in Nat, b \in Nat, t \in Nat, i \in Nat :
        a = Cardinality(A) /\ b = Cardinality(B) /\ t = Cardinality(Turned(B))
          /\ i = Cardinality(A \cap Turned(B))
  BY <1>6, <1>8, FS_CardinalityType
<1>10. PICK q \in Nat, u \in Nat : q = Quota(count, n, k) /\ u = Quota(count, n, j)
  BY DEF Quota
<1>11. q + u = count
  <2>1. n = 2 \/ n = 3 \/ n = 4
    OBVIOUS
  <2>2. CASE n = 2
    BY <1>1, <1>10, <2>2 DEF Quota
  <2>3. CASE n = 3
    <3>1. PICK h \in Nat : h = count \div 2
      OBVIOUS
    <3>2. count = h + h
      BY <2>3, <3>1
    <3>3. (k = 1 /\ j = 3) \/ (k = 2 /\ j = 2) \/ (k = 3 /\ j = 1)
      BY <1>1, <2>3
    <3> QED BY <1>10, <2>3, <3>1, <3>2, <3>3 DEF Quota
  <2>4. CASE n = 4
    <3>1. (k = 1 /\ j = 4) \/ (k = 2 /\ j = 3) \/ (k = 3 /\ j = 2) \/ (k = 4 /\ j = 1)
      BY <1>1, <2>4
    <3> QED BY <1>10, <2>4, <3>1 DEF Quota
  <2> QED BY <2>1, <2>2, <2>3, <2>4
<1>12. a + t - i <= count
  BY <1>6, <1>7, <1>9, <1>10, <1>11
<1> QED BY <1>1, <1>3, <1>5, <1>6, <1>8, <1>9, <1>12

\* A finite set of m elements at most.
AtMost(S, m) == IsFiniteSet(S) /\ Cardinality(S) \in Nat /\ Cardinality(S) <= m

LEMMA UnionAtMost ==
    ASSUME NEW A, NEW B, NEW a \in Nat, NEW b \in Nat, AtMost(A, a), AtMost(B, b)
    PROVE  AtMost(A \cup B, a + b)
<1>1. IsFiniteSet(A) /\ IsFiniteSet(B)
  BY DEF AtMost
<1>2. IsFiniteSet(A \cap B)
  <2>1. A \cap B \in SUBSET A
    OBVIOUS
  <2> QED BY <1>1, <2>1, FS_Subset
<1>3. /\ IsFiniteSet(A \cup B)
      /\ Cardinality(A \cup B) = Cardinality(A) + Cardinality(B) - Cardinality(A \cap B)
  BY <1>1, FS_Union
<1>4. PICK i \in Nat, u \in Nat, x \in Nat, y \in Nat :
        i = Cardinality(A \cap B) /\ u = Cardinality(A \cup B)
          /\ x = Cardinality(A) /\ y = Cardinality(B)
  BY <1>1, <1>2, <1>3, FS_CardinalityType
<1>5. u = x + y - i /\ x <= a /\ y <= b
  BY <1>3, <1>4 DEF AtMost
<1>6. u <= a + b
  BY <1>5
<1> QED BY <1>3, <1>4, <1>6 DEF AtMost

\* A board that passes the validator gives every slot the same start: it has as
\* many cities as all slots together may have.
LEMMA ValidEven ==
    ASSUME NEW n \in 2 .. 4, NEW count \in Nat, n = 3 => count % 2 = 0,
           NEW placed, PlacedWell(placed, count, n),
           NEW cities, cities = EnforceCitySymmetry(placed, n),
           cities # {} => Cardinality(cities) = n * count
    PROVE  EvenCities(cities, n)
<1>1. ASSUME NEW c \in cities
      PROVE  /\ c = [cell |-> c.cell, owner |-> c.owner]
             /\ c.cell \in Cells /\ c.owner \in 1 .. n
  <2>1. \A p \in placed : /\ p = [cell |-> p.cell, owner |-> p.owner]
                          /\ p.cell \in Cells /\ p.owner \in 1 .. n
    BY DEF PlacedWell
  <2>2. CASE c \in placed
    BY <2>1, <2>2
  <2>3. ASSUME NEW p \in placed,
               c = [cell |-> Rotate(p.cell), owner |-> PartnerPlayer(p.owner, n)]
        PROVE  /\ c = [cell |-> c.cell, owner |-> c.owner]
               /\ c.cell \in Cells /\ c.owner \in 1 .. n
    <3>1. Rotate(p.cell) \in Cells /\ PartnerPlayer(p.owner, n) \in 1 .. n
      BY <2>1, RotateTwice DEF PartnerPlayer
    <3> QED BY <2>3, <3>1
  <2> QED BY <2>2, <2>3 DEF EnforceCitySymmetry
<1>2. \A k \in 1 .. n : /\ CellsOf(cities, k) \subseteq Cells /\ IsFiniteSet(CellsOf(cities, k))
                        /\ Cardinality(CellsOf(cities, k)) <= count
                        /\ Turned(CellsOf(cities, k)) = CellsOf(cities, n + 1 - k)
  BY SlotsFilled
<1>3. ASSUME NEW k \in 1 .. n, n = 4 => Width % 2 = 0, NEW x \in CellsOf(cities, k)
      PROVE  Within(x, GetPlayerBand(k, n))
  <2>1. PICK c \in cities : c.owner = k /\ c.cell = x
    BY DEF CellsOf
  <2>2. \A p \in placed : /\ p.owner \in (IF n = 2 THEN {1} ELSE {1, 2})
                          /\ p.cell \in Cells
                          /\ Within(p.cell, GetPlayerBand(p.owner, n))
    BY DEF PlacedWell
  <2>3. c \in EnforceCitySymmetry(placed, n)
    OBVIOUS
  <2>4. Within(c.cell, GetPlayerBand(c.owner, n))
    BY <1>3, <2>2, <2>3, CitiesInOwnBand
  <2> QED BY <2>1, <2>4
<1> DEFINE part(k) == {c \in cities : c.owner = k}
           size(k) == Cardinality(CellsOf(cities, k))
<1>4. ASSUME NEW k \in 1 .. n
      PROVE  AtMost(part(k), size(k))
  <2> DEFINE f == [x \in CellsOf(cities, k) |-> [cell |-> x, owner |-> k]]
  <2>1. \A x \in CellsOf(cities, k) : [cell |-> x, owner |-> k] \in part(k)
    <3> TAKE x \in CellsOf(cities, k)
    <3>1. PICK c \in cities : c.owner = k /\ c.cell = x
      BY DEF CellsOf
    <3>2. c = [cell |-> x, owner |-> k]
      BY <1>1, <3>1
    <3> QED BY <3>1, <3>2
  <2>2. \A c \in part(k) : \E x \in CellsOf(cities, k) : f[x] = c
    <3> TAKE c \in part(k)
    <3>1. c = [cell |-> c.cell, owner |-> k] /\ c.cell \in CellsOf(cities, k)
      BY <1>1 DEF CellsOf
    <3> QED BY <3>1
  <2>3. f \in [CellsOf(cities, k) -> part(k)]
    BY <2>1
  <2> HIDE DEF f, part
  <2> QED BY <1>2, <2>2, <2>3, CoveredSmaller, FS_CardinalityType DEF AtMost
<1>5. \A k \in 1 .. n : size(k) \in Nat /\ size(k) <= count
  BY <1>2, FS_CardinalityType
<1>6. ASSUME cities # {}
      PROVE  \A k \in 1 .. n : size(k) = count
  <2>1. PICK total \in Int : total = Cardinality(cities) /\ total = n * count
    BY <1>6
  <2> HIDE DEF size
  <2>2. \A c \in cities : c.owner \in 1 .. n
    BY <1>1
  <2>3. n = 2 \/ n = 3 \/ n = 4
    OBVIOUS
  <2>4. ASSUME NEW m \in Nat, AtMost(cities, m) PROVE total <= m
    BY <2>1, <2>4 DEF AtMost
  <2>5. CASE n = 2
    <3>1. 1 \in 1 .. n /\ 2 \in 1 .. n /\ \A k \in 1 .. n : k \in {1, 2}
      BY <2>5
    <3>2. cities = part(1) \cup part(2)
      BY <2>2, <3>1
    <3> HIDE DEF part
    <3>3. AtMost(cities, size(1) + size(2)) /\ size(1) + size(2) \in Nat
      BY <1>4, <1>5, <3>1, <3>2, UnionAtMost
    <3>4. total <= size(1) + size(2) /\ total = count + count
      BY <2>1, <2>4, <2>5, <3>3
    <3>5. size(1) = count /\ size(2) = count
      BY <1>5, <3>1, <3>4
    <3> QED BY <3>1, <3>5
  <2>6. CASE n = 3
    <3>1. 1 \in 1 .. n /\ 2 \in 1 .. n /\ 3 \in 1 .. n /\ \A k \in 1 .. n : k \in {1, 2, 3}
      BY <2>6
    <3>2. cities = (part(1) \cup part(2)) \cup part(3)
      BY <2>2, <3>1
    <3> HIDE DEF part
    <3>3. AtMost(part(1) \cup part(2), size(1) + size(2)) /\ size(1) + size(2) \in Nat
      BY <1>4, <1>5, <3>1, UnionAtMost
    <3>4. AtMost(cities, (size(1) + size(2)) + size(3)) /\ (size(1) + size(2)) + size(3) \in Nat
      BY <1>4, <1>5, <3>1, <3>2, <3>3, UnionAtMost
    <3>5. total <= size(1) + size(2) + size(3) /\ total = count + count + count
      BY <2>1, <2>4, <2>6, <3>4
    <3>6. size(1) = count /\ size(2) = count /\ size(3) = count
      BY <1>5, <3>1, <3>5
    <3> QED BY <3>1, <3>6
  <2>7. CASE n = 4
    <3>1. 1 \in 1 .. n /\ 2 \in 1 .. n /\ 3 \in 1 .. n /\ 4 \in 1 .. n
            /\ \A k \in 1 .. n : k \in {1, 2, 3, 4}
      BY <2>7
    <3>2. cities = (part(1) \cup part(2)) \cup (part(3) \cup part(4))
      BY <2>2, <3>1
    <3> HIDE DEF part
    <3>3. AtMost(part(1) \cup part(2), size(1) + size(2)) /\ size(1) + size(2) \in Nat
      BY <1>4, <1>5, <3>1, UnionAtMost
    <3>4. AtMost(part(3) \cup part(4), size(3) + size(4)) /\ size(3) + size(4) \in Nat
      BY <1>4, <1>5, <3>1, UnionAtMost
    <3>5. AtMost(cities, (size(1) + size(2)) + (size(3) + size(4)))
            /\ (size(1) + size(2)) + (size(3) + size(4)) \in Nat
      BY <3>2, <3>3, <3>4, UnionAtMost
    <3>6. total <= size(1) + size(2) + size(3) + size(4) /\ total = count + count + count + count
      BY <1>5, <2>1, <2>4, <2>7, <3>1, <3>5
    <3>7. size(1) = count /\ size(2) = count /\ size(3) = count /\ size(4) = count
      BY <1>5, <3>1, <3>6
    <3> QED BY <3>1, <3>7
  <2> QED BY <2>3, <2>5, <2>6, <2>7
<1>7. \A k \in 1 .. n : size(k) = size(1)
  <2>1. CASE cities = {}
    <3>1. \A k \in 1 .. n : CellsOf(cities, k) = {}
      BY <2>1 DEF CellsOf
    <3> QED BY <3>1
  <2>2. CASE cities # {}
    <3>1. 1 \in 1 .. n
      OBVIOUS
    <3> QED BY <1>6, <2>2, <3>1
  <2> QED BY <2>1, <2>2
<1> QED BY <1>1, <1>2, <1>3, <1>7 DEF EvenCities

----------------------------------------------------------------------------
(* The boards that are generated *)

\* What is found after one more attempt.
Try(s, n, found, noise) ==
    IF found # {} THEN found
    ELSE {b \in {BuildBoard(noise, s, n)} : ValidateBoard(b, s, n)}

Tries(s, n, b, seq) == FoldLeft(LAMBDA found, noise : Try(s, n, found, noise), b, seq)

\* What every attempt keeps, all of them keep.
LEMMA TriesKept ==
    ASSUME NEW s, NEW m, NEW St, NEW b \in St, NEW seq, NEW n \in Nat, DOMAIN seq = 1 .. n,
           \A y \in St, k \in 1 .. n : Try(s, m, y, seq[k]) \in St
    PROVE  Tries(s, m, b, seq) \in St
<1> DEFINE Is(g) == g = [q \in SUBSET (DOMAIN seq) |->
                           IF q = {} THEN b
                           ELSE Try(s, m, g[q \ {Max(q)}], seq[Max(q)])]
           F == [z \in St \X (1 .. n) |-> Try(s, m, z[1], seq[z[2]])]
<1>1. PICK g \in [SUBSET (1 .. n) -> St] : IsFold(g, F, b, n)
  <2>1. F \in [St \X (1 .. n) -> St]
    OBVIOUS
  <2> HIDE DEF F
  <2> QED BY <2>1, FoldTyped
<1>2. Is(g)
  <2>1. ASSUME NEW q \in SUBSET (1 .. n), q # {}
        PROVE  g[q] = Try(s, m, g[q \ {Max(q)}], seq[Max(q)])
    <3>1. Max(q) \in 1 .. n
      BY <2>1, GreatestChosen
    <3>2. <<g[q \ {Max(q)}], Max(q)>> \in St \X (1 .. n)
      BY <3>1
    <3> QED BY <1>1, <2>1, <3>2 DEF IsFold
  <2>2. g[{}] = b
    BY <1>1 DEF IsFold
  <2> QED BY <2>1, <2>2
<1>3. PICK it : Is(it) /\ Tries(s, m, b, seq) = it[DOMAIN seq]
  BY <1>2 DEF Tries, FoldLeft, MapThenFoldSet
<1>4. it[{}] = b
  BY <1>3
<1>5. ASSUME NEW q \in SUBSET (1 .. n), q # {}, it[q \ {Max(q)}] \in St
      PROVE  it[q] \in St
  <2>1. Max(q) \in 1 .. n
    BY <1>5, GreatestChosen
  <2>2. it[q] = Try(s, m, it[q \ {Max(q)}], seq[Max(q)])
    BY <1>3, <1>5
  <2> QED BY <1>5, <2>1, <2>2
<1> HIDE DEF Is
<1>6. \A q \in SUBSET (1 .. n) : it[q] \in St
  BY <1>4, <1>5, FoldKept
<1> QED BY <1>3, <1>6

\* generateBoard makes its attempts in turn.
LEMMA BoardTried ==
    ASSUME NEW r
    PROVE  GenerateBoard(r) =
             Tries(NormalizeSettings(ClampSettings(r.settings), Len(r.ids)), Len(r.ids), {},
                   SubSeq(r.noise, 1,
                          NormalizeSettings(ClampSettings(r.settings), Len(r.ids)).maxRegenAttempts))
BY DEF GenerateBoard, Tries, Try

\* What the board builder places is placed well.
LEMMA BuiltEven ==
    ASSUME NEW noise, NEW n \in 2 .. 4, NEW s, SettingsFit(s, n),
           NEW b, b = BuildBoard(noise, s, n), ValidateBoard(b, s, n)
    PROVE  EvenCities(b.cities, n)
<1>1. PICK water : b.cities = EnforceCitySymmetry(PlacedCities(water, s, n), n)
  BY DEF BuildBoard
<1>2. PICK placed : placed = PlacedCities(water, s, n)
  OBVIOUS
<1>3. PlacedWell(placed, s.citiesPerPlayer, n)
  BY <1>2, PlacedInBands
<1>4. b.cities # {} => Cardinality(b.cities) = n * s.citiesPerPlayer
  BY DEF ValidateBoard
<1>5. PICK count \in Nat : count = s.citiesPerPlayer /\ (n = 3 => count % 2 = 0)
  BY DEF SettingsFit
<1>6. PICK cities : cities = b.cities
  OBVIOUS
<1>7. EvenCities(cities, n)
  BY <1>1, <1>2, <1>3, <1>4, <1>5, <1>6, ValidEven
<1> QED BY <1>6, <1>7

\* Every board of a request is one the validator let pass.
LEMMA BoardsEven ==
    ASSUME NEW r \in Requests, NEW n, n = Len(r.ids)
    PROVE  n \in 2 .. 4 /\ \A b \in GenerateBoard(r) : EvenCities(b.cities, n)
<1>1. /\ n \in 2 .. 4 /\ r.noise \in Seq([Cells -> Int])
      /\ ClampSettings(r.settings).maxRegenAttempts <= Len(r.noise)
  BY RequestsAssumption
<1>2. PICK s : s = NormalizeSettings(ClampSettings(r.settings), n)
  OBVIOUS
<1>3. SettingsFit(s, n) /\ s.maxRegenAttempts = ClampSettings(r.settings).maxRegenAttempts
  BY <1>2, SettingsOf
<1>4. PICK m \in Nat : m = s.maxRegenAttempts /\ m <= Len(r.noise)
  BY <1>1, <1>3 DEF SettingsFit
<1>5. PICK seq : seq = SubSeq(r.noise, 1, s.maxRegenAttempts)
  OBVIOUS
<1>6. DOMAIN seq = 1 .. m
  <2>1. seq \in Seq([Cells -> Int]) /\ Len(seq) = m
    BY <1>1, <1>4, <1>5
  <2> QED BY <2>1
<1>7. PICK Built : Built = {BuildBoard(seq[k], s, n) : k \in 1 .. m}
  OBVIOUS
<1>8. PICK St : St = SUBSET {b \in Built : EvenCities(b.cities, n)}
  OBVIOUS
<1>9. \A y \in St, k \in 1 .. m : Try(s, n, y, seq[k]) \in St
  <2> TAKE y \in St, k \in 1 .. m
  <2>1. PICK b \in Built : b = BuildBoard(seq[k], s, n)
    BY <1>7
  <2>2. Try(s, n, y, seq[k]) \in {y, {x \in {b} : ValidateBoard(x, s, n)}}
    BY <2>1 DEF Try
  <2>3. ValidateBoard(b, s, n) => EvenCities(b.cities, n)
    BY <1>1, <1>3, <2>1, BuiltEven
  <2> QED BY <1>8, <2>2, <2>3
<1>10. {} \in St
  BY <1>8
<1>11. Tries(s, n, {}, seq) \in St
  BY <1>6, <1>9, <1>10, TriesKept
<1>12. GenerateBoard(r) \in St
  BY <1>2, <1>5, <1>11, BoardTried
<1> QED BY <1>1, <1>8, <1>12

\* The cities of a generated match are those of an even board, slot by slot.
EvenStart(m, cities) ==
    /\ EvenCities(cities, Len(m.ids)) /\ Len(m.ids) \in 2 .. 4
    /\ DOMAIN m.ids = 1 .. Len(m.ids)
    /\ m.cities = [k \in DOMAIN m.ids |-> CellsOf(cities, k)]

LEMMA MatchesEven ==
    ASSUME NEW m \in GeneratedMatches
    PROVE  \E cities : EvenStart(m, cities)
<1>1. PICK r \in Requests : \E b \in GenerateBoard(r) :
        m = [ids |-> r.ids, elevation |-> b.elevation, water |-> b.water,
             cities |-> [k \in DOMAIN r.ids |->
                           {c.cell : c \in {d \in b.cities : d.owner = k}}]]
  BY DEF GeneratedMatches
<1>2. PICK b \in GenerateBoard(r) :
        m = [ids |-> r.ids, elevation |-> b.elevation, water |-> b.water,
             cities |-> [k \in DOMAIN r.ids |->
                           {c.cell : c \in {d \in b.cities : d.owner = k}}]]
  BY <1>1
<1>3. EvenCities(b.cities, Len(r.ids)) /\ Len(r.ids) \in 2 .. 4
  BY BoardsEven
<1>4. r.ids \in Seq(Int)
  BY RequestsAssumption
<1>5. m.ids = r.ids /\ m.cities = [k \in DOMAIN r.ids |-> CellsOf(b.cities, k)]
  BY <1>2 DEF CellsOf
<1>6. DOMAIN r.ids = 1 .. Len(r.ids)
  BY <1>4
<1>7. EvenStart(m, b.cities)
  BY <1>3, <1>5, <1>6 DEF EvenStart
<1> QED BY <1>7

----------------------------------------------------------------------------
(* A match that nobody plays *)

\* The cities of a slot are those that bear the byte of its player.
LEMMA CitiesCreated ==
    ASSUME NEW m \in Scenarios, NEW city, city = CreateWorld(m).state.city
    PROVE  /\ \A k \in DOMAIN m.ids :
                 {c \in Cells : city[c] = Dense(m.ids, m.ids[k])} = m.cities[k]
           /\ \A c \in Cells : city[c] # 0 <=> \E k \in DOMAIN m.ids : c \in m.cities[k]
<1>1. /\ m.ids \in Seq(Int) /\ IsInjective(m.ids)
      /\ \A j, k \in DOMAIN m.ids : j # k => m.cities[j] \cap m.cities[k] = {}
      /\ m.cities \in [DOMAIN m.ids -> SUBSET (Cells \ m.water)]
  BY MenuAssumption DEF Scenarios
<1>2. PICK n : n = Len(m.ids) /\ DOMAIN m.ids = 1 .. n
  BY <1>1
<1>3. /\ \A id \in ToSet(m.ids) : Dense(m.ids, id) \in 1 .. n
      /\ \A a, b \in ToSet(m.ids) : Dense(m.ids, a) = Dense(m.ids, b) => a = b
  BY <1>1, <1>2, Ranked
<1>4. \A k \in DOMAIN m.ids : m.ids[k] \in ToSet(m.ids)
  BY DEF ToSet
<1>5. \A k \in DOMAIN m.ids : Dense(m.ids, m.ids[k]) # 0
  BY <1>1, <1>2, <1>3, <1>4
<1> DEFINE of(c) == CHOOSE k \in DOMAIN m.ids : c \in m.cities[k]
           in(c) == \E k \in DOMAIN m.ids : c \in m.cities[k]
<1>6. \A c \in Cells : city[c] = IF in(c) THEN Dense(m.ids, m.ids[of(c)]) ELSE 0
  BY DEF CreateWorld
<1>7. \A c : in(c) => of(c) \in DOMAIN m.ids /\ c \in m.cities[of(c)]
  OBVIOUS
<1> HIDE DEF of
<1>8. ASSUME NEW k \in DOMAIN m.ids, NEW c \in Cells
      PROVE  city[c] = Dense(m.ids, m.ids[k]) <=> c \in m.cities[k]
  <2>1. CASE in(c)
    <3>1. of(c) \in DOMAIN m.ids /\ c \in m.cities[of(c)] /\ city[c] = Dense(m.ids, m.ids[of(c)])
      BY <1>6, <1>7, <2>1
    <3>2. city[c] = Dense(m.ids, m.ids[k]) => of(c) = k
      BY <1>1, <1>3, <1>4, <3>1 DEF IsInjective
    <3>3. c \in m.cities[k] => of(c) = k
      BY <1>1, <3>1
    <3> QED BY <3>1, <3>2, <3>3
  <2>2. CASE ~in(c)
    BY <1>5, <1>6, <2>2
  <2> QED BY <2>1, <2>2
<1>9. \A k \in DOMAIN m.ids : m.cities[k] \subseteq Cells
  BY <1>1
<1>10. \A c \in Cells : city[c] # 0 <=> in(c)
  BY <1>5, <1>6, <1>7
<1> QED BY <1>8, <1>9, <1>10

\* The board of a match in which nobody has ordered anything: no pipes, the cities
\* that createWorld dealt out, nobody but their owners in them, and as many troops
\* in one as in any other.
Undisturbed(state, s) ==
    /\ \A c \in Cells : /\ state.pipes[c] = {}
                        /\ state.city[c] = CreateWorld(s).state.city[c]
                        /\ state.owner[c] \in {0, state.city[c]}
    /\ \E n \in Nat : \A c \in Cells : state.count[c] = IF state.city[c] = 0 THEN 0 ELSE n

\* It is what a match begins with,
LEMMA CreatedUndisturbed ==
    ASSUME NEW s, NEW w, w = CreateWorld(s)
    PROVE  Undisturbed(w.state, s)
<1>1. \A c \in Cells : /\ w.state.pipes[c] = {} /\ w.state.owner[c] = 0 /\ w.state.count[c] = 0
                       /\ w.state.city[c] = CreateWorld(s).state.city[c]
  BY DEF CreateWorld
<1>2. \A c \in Cells : w.state.count[c] = IF w.state.city[c] = 0 THEN 0 ELSE 0
  BY <1>1
<1> QED BY <1>1, <1>2 DEF Undisturbed

\* and production keeps it: the cities grow alike.
LEMMA ProductionUndisturbed ==
    ASSUME NEW s \in Scenarios, NEW state \in BoardStates(s), Undisturbed(state, s),
           NEW st, st = Production(state)
    PROVE  Undisturbed(st, s)
<1>1. PICK n \in Nat : \A c \in Cells : state.count[c] = IF state.city[c] = 0 THEN 0 ELSE n
  BY DEF Undisturbed
<1>2. state = [count |-> state.count, owner |-> state.owner, pipes |-> state.pipes,
               reserves |-> state.reserves, city |-> state.city]
  BY BoardIs
<1> DEFINE grows(c) == state.city[c] # 0 /\ state.count[c] < CityCapacity
           more(c) == state.count[c] + Least(ProductionRate, CityCapacity - state.count[c])
<1>3. /\ st.pipes = state.pipes /\ st.city = state.city
      /\ \A c \in Cells : /\ st.count[c] = IF grows(c) THEN more(c) ELSE state.count[c]
                          /\ st.owner[c] = IF grows(c) THEN state.city[c] ELSE state.owner[c]
  BY <1>2 DEF Production
<1>4. PICK q : q = IF n < CityCapacity THEN n + Least(ProductionRate, CityCapacity - n) ELSE n
  OBVIOUS
<1>5. q \in Nat
  BY <1>4, RulesAssumption DEF Least
<1>6. \A c \in Cells : st.count[c] = IF st.city[c] = 0 THEN 0 ELSE q
  <2> TAKE c \in Cells
  <2>1. CASE state.city[c] = 0
    BY <1>1, <1>3, <2>1
  <2>2. CASE state.city[c] # 0
    <3>1. state.count[c] = n
      BY <1>1, <2>2
    <3> QED BY <1>3, <1>4, <2>2, <3>1
  <2> QED BY <2>1, <2>2
<1>7. \A c \in Cells : st.owner[c] \in {0, st.city[c]}
  BY <1>3 DEF Undisturbed
<1> QED BY <1>3, <1>5, <1>6, <1>7 DEF Undisturbed

\* Without orders nothing comes between production and the flow.
LEMMA NothingFired ==
    ASSUME NEW w, NEW orders \in Seq({})
    PROVE  Fired(w, orders).state = Production(w.state)
<1>1. DOMAIN orders = 1 .. 0
  OBVIOUS
<1>2. Staging(w.state, orders) = w.state
  <2>1. PICK St : St = {w.state}
    OBVIOUS
  <2>2. w.state \in St /\ 0 \in Nat
    BY <2>1
  <2>3. \A y \in St, k \in 1 .. 0 : OrderEffect(y, orders[k]) \in St
    OBVIOUS
  <2>4. Staging(w.state, orders) \in St
    BY <1>1, <2>2, <2>3, StagingKept
  <2> QED BY <2>1, <2>4
<1>3. \A kind : OfKind(orders, kind) \in Seq({})
  <2> TAKE kind
  <2>1. {i \in DOMAIN orders : orders[i].kind = kind} = {}
    BY <1>1
  <2>2. OfKind(orders, kind) \in Seq({i \in DOMAIN orders : orders[i].kind = kind})
    BY OfKindTyped
  <2> QED BY <2>1, <2>2
<1>4. \A kind : DOMAIN OfKind(orders, kind) = 1 .. 0
  BY <1>3
<1>5. PICK start : start = [state |-> Production(w.state), combat |-> <<>>, errors |-> <<>>, done |-> {}]
  OBVIOUS
<1>6. PICK St : St = {start}
  OBVIOUS
<1>7. start \in St /\ 0 \in Nat
  BY <1>6
<1>8. Drops(w, orders, start, OfKind(orders, "paratroop")) \in St
  <2>1. PICK seq : seq = OfKind(orders, "paratroop")
    OBVIOUS
  <2>2. \A y \in St, k \in 1 .. 0 : Paratroop(w, orders, y, seq[k]) \in St
    OBVIOUS
  <2> QED BY <1>4, <1>7, <2>1, <2>2, DropsKept
<1>9. Shots(w, orders, start, OfKind(orders, "gun")) \in St
  <2>1. PICK seq : seq = OfKind(orders, "gun")
    OBVIOUS
  <2>2. \A y \in St, k \in 1 .. 0 : Gun(w, orders, y, seq[k]) \in St
    OBVIOUS
  <2> QED BY <1>4, <1>7, <2>1, <2>2, ShotsKept
<1>10. Fired(w, orders) = start
  BY <1>2, <1>5, <1>6, <1>8, <1>9, FiredPhases
<1> QED BY <1>5, <1>10

\* Without pipes nothing flows, and without two owners on a cell nobody fights.
LEMMA NothingFought ==
    ASSUME NEW s \in Scenarios, NEW w, w.scenario = s, NEW st \in BoardStates(s), Undisturbed(st, s),
           NEW f, f = Combat(w, st, Flow(w, st))
    PROVE  /\ f.count = st.count /\ f.owner = st.owner /\ f.pipes = st.pipes /\ f.city = st.city
           /\ f.reserves = st.reserves
<1>1. \A c \in Cells : st.pipes[c] = {}
  BY DEF Undisturbed
<1>2. \A c \in Cells : DOMAIN PipesOf(st, c) = {}
  <2> TAKE c \in Cells
  <2>1. Compass \in Seq(DOMAIN Offset)
    BY DEF Compass, Offset
  <2>2. Among(Compass, {}) \in Seq((DOMAIN Offset) \cap {})
    BY <2>1, AmongKept
  <2>3. Among(Compass, {}) \in Seq({})
    BY <2>2
  <2>4. DOMAIN Among(Compass, {}) = {}
    BY <2>3
  <2> QED BY <1>1, <2>4 DEF PipesOf
<1>3. Transfers(st) \in Seq({})
  <2>1. Transferable(st) = {}
    BY <1>2 DEF Transferable
  <2> QED BY <2>1, TransfersTyped
<1>4. PICK b : b = [count |-> st.count, owner |-> st.owner,
                    committed |-> [c \in Cells |-> [p \in Bytes(w) |-> 0]]]
  OBVIOUS
<1>5. Flow(w, st) = b
  <2>1. PICK seq : seq = Transfers(st)
    OBVIOUS
  <2>2. DOMAIN seq = 1 .. 0
    BY <1>3, <2>1
  <2>3. PICK St : St = {b}
    OBVIOUS
  <2>4. b \in St /\ 0 \in Nat
    BY <2>3
  <2>5. \A y \in St, k \in 1 .. 0 : Transfer(w, st, y, seq[k]) \in St
    OBVIOUS
  <2>6. Moves(w, st, b, seq) \in St
    BY <2>2, <2>4, <2>5, TransfersKept
  <2> QED BY <1>4, <2>1, <2>3, <2>6, FlowMoves
<1>6. b \in Flows(s)
  BY <1>5, FlowTyped
<1>7. Contested(w, st, b) = {}
  <2>1. \A c \in Cells, p \in Bytes(w) : b.committed[c][p] = 0
    BY <1>4
  <2>2. \A c \in Cells : \A p, q \in Sides(w, st, b, c) : p = q
    BY <2>1 DEF Sides
  <2>3. \A c \in Cells : c \notin Contested(w, st, b)
    BY <1>6, <2>2, ContestedMeets
  <2> QED BY <2>3 DEF Contested
<1>8. Combat(w, st, b).count = b.count /\ Combat(w, st, b).owner = b.owner
  BY <1>6, <1>7, NothingSettled
<1>9. f = Combat(w, st, b)
  BY <1>5
<1>10. f.pipes = st.pipes /\ f.city = st.city /\ f.reserves = st.reserves
  <2>1. PICK after : /\ after = SettledCells(w, st, b, [count |-> b.count, owner |-> b.owner],
                                              Among(RowMajor, Contested(w, st, b)))
                     /\ Combat(w, st, b) = [count |-> after.count, owner |-> after.owner,
                          pipes |-> st.pipes, reserves |-> st.reserves, city |-> st.city]
    BY CombatSettles
  <2> QED BY <1>9, <2>1
<1> QED BY <1>4, <1>8, <1>9, <1>10

\* Nobody is caught in a foreign city, and nobody stands outside of one.
LEMMA NothingLost ==
    ASSUME NEW s \in Scenarios, NEW f \in BoardStates(s), Undisturbed(f, s),
           NEW g, g = Decay(Capture(f))
    PROVE  Undisturbed(g, s)
<1>1. f = [count |-> f.count, owner |-> f.owner, pipes |-> f.pipes,
           reserves |-> f.reserves, city |-> f.city]
  BY BoardIs
<1>2. PICK x : x = Capture(f)
  OBVIOUS
<1>3. \A c \in Cells : c \notin Captured(f)
  BY DEF Captured, Undisturbed
<1>4. /\ x = [count |-> x.count, owner |-> x.owner, pipes |-> x.pipes,
              reserves |-> x.reserves, city |-> x.city]
      /\ x.count = f.count /\ x.owner = f.owner /\ x.pipes = f.pipes
      /\ \A c \in Cells : x.city[c] = f.city[c]
  BY <1>1, <1>2, <1>3 DEF Capture
<1>5. \A c \in Cells : x.owner[c] # 0 => x.city[c] # 0
  BY <1>4 DEF Undisturbed
<1>6. /\ g.pipes = x.pipes /\ g.city = x.city
      /\ \A c \in Cells : g.count[c] = x.count[c] /\ g.owner[c] = x.owner[c]
  BY <1>2, <1>4, <1>5 DEF Decay
<1>7. \A c \in Cells : /\ g.pipes[c] = f.pipes[c] /\ g.city[c] = f.city[c]
                       /\ g.count[c] = f.count[c] /\ g.owner[c] = f.owner[c]
  BY <1>4, <1>6
<1> QED BY <1>7 DEF Undisturbed

\* So a tick without orders keeps it.
LEMMA TickUndisturbed ==
    ASSUME Sound, pending = <<>>, NEW s, s = world.scenario, Undisturbed(world.state, s),
           NEW orders, orders = SortedOrders(pending)
    PROVE  Undisturbed(Decay(Capture(Fought(world, orders))), s)
<1>1. s \in Scenarios /\ world.state \in BoardStates(s)
  BY DEF Sound
<1>2. orders \in Seq({})
  <2>1. DOMAIN orders = DOMAIN pending
    BY DEF SortedOrders
  <2>2. orders \in Seq(Stageable(s))
    BY TickSound
  <2> QED BY <2>1, <2>2
<1>3. PICK st : st = Production(world.state)
  OBVIOUS
<1>4. st \in BoardStates(s) /\ Undisturbed(st, s)
  BY <1>1, <1>3, ProductionTyped, ProductionUndisturbed
<1>5. Fired(world, orders).state = st
  BY <1>2, <1>3, NothingFired
<1>6. PICK f : f = Fought(world, orders)
  OBVIOUS
<1>7. f = Combat(world, st, Flow(world, st))
  BY <1>5, <1>6 DEF Fought, FlowOf
<1>8. f \in BoardStates(s)
  BY <1>6, TickSound
<1>9. /\ f.count = st.count /\ f.owner = st.owner /\ f.pipes = st.pipes /\ f.city = st.city
  BY <1>1, <1>4, <1>7, NothingFought
<1>10. Undisturbed(f, s)
  BY <1>4, <1>9 DEF Undisturbed
<1> QED BY <1>1, <1>6, <1>8, <1>10, NothingLost

\* Nobody has ordered anything, or the board is undisturbed no more.
Unplayed ==
    /\ \E X : log \in Seq(X)
    /\ log = <<>> => pending = <<>> /\ Undisturbed(world.state, world.scenario)

\* A step of the match keeps it.
LEMMA UnplayedKept ==
    ASSUME Sound, Unplayed, [Next]_vars
    PROVE  Unplayed'
<1>1. CASE UNCHANGED vars
  BY <1>1 DEF vars, Unplayed
<1>2. ASSUME NEW o \in Menu[world.scenario], Submit(o)
      PROVE  Unplayed'
  <2>1. PICK X : log \in Seq(X)
    BY DEF Unplayed
  <2>2. PICK r : log' = Append(log, r)
    BY <1>2 DEF Submit
  <2>3. log \in Seq(X \cup {r})
    BY <2>1
  <2>4. log' \in Seq(X \cup {r}) /\ log' # <<>>
    BY <2>2, <2>3
  <2> QED BY <2>4 DEF Unplayed
<1>3. CASE Advance
  <2>1. log' = log
    BY <1>3 DEF Advance
  <2>2. ASSUME log = <<>>
        PROVE  pending' = <<>> /\ Undisturbed(world'.state, world'.scenario)
    <3>1. pending = <<>> /\ Undisturbed(world.state, world.scenario)
      BY <2>2 DEF Unplayed
    <3>2. CASE IsTerminal(world)
      <4>1. world' = world /\ pending' = pending
        BY <1>3, <3>2, TickStands DEF Advance
      <4> QED BY <3>1, <4>1
    <3>3. CASE ~IsTerminal(world)
      <4>1. PICK orders : orders = SortedOrders(pending)
        OBVIOUS
      <4>2. world' = Settled(world, Fought(world, orders)) /\ pending' = <<>>
        BY <1>3, <3>3, <4>1, TickOf DEF Advance
      <4>3. world'.state = Decay(Capture(Fought(world, orders)))
        BY <4>2, SettledShape DEF Sound
      <4>4. world'.scenario = world.scenario
        BY <1>3, StepShape DEF Next, Sound
      <4>5. Undisturbed(Decay(Capture(Fought(world, orders))), world.scenario)
        BY <3>1, <4>1, TickUndisturbed
      <4> QED BY <4>2, <4>3, <4>4, <4>5
    <3> QED BY <3>2, <3>3
  <2> QED BY <2>1, <2>2 DEF Unplayed
<1> QED BY <1>1, <1>2, <1>3 DEF Next

\* A generated match that nobody has played is fair.
LEMMA UndisturbedFair ==
    ASSUME Sound, Unplayed,
           \A r \in Requests : Len(r.ids) = 4 => Width % 2 = 0
    PROVE  FairStart
<1> SUFFICES ASSUME world.scenario \in GeneratedMatches, log = <<>>
             PROVE  FairStart
  BY DEF FairStart
<1>1. PICK m : m = world.scenario
  OBVIOUS
<1>2. m \in Scenarios /\ m \in GeneratedMatches /\ Undisturbed(world.state, m)
  BY <1>1 DEF Sound, Unplayed
<1>3. PICK n : n = Len(m.ids)
  OBVIOUS
<1>4. PICK cities : EvenStart(m, cities)
  BY <1>2, MatchesEven
<1>5. /\ n \in 2 .. 4 /\ DOMAIN m.ids = 1 .. n /\ EvenCities(cities, n)
      /\ \A k \in 1 .. n : m.cities[k] = CellsOf(cities, k)
  BY <1>3, <1>4 DEF EvenStart
<1>6. n = 4 => Width % 2 = 0
  <2>1. PICK r \in Requests : m.ids = r.ids
    BY <1>2 DEF GeneratedMatches
  <2> QED BY <1>3, <2>1
<1>7. /\ \A k \in 1 .. n : {c \in Cells : CreateWorld(m).state.city[c] = Dense(m.ids, m.ids[k])} = m.cities[k]
      /\ \A c \in Cells : CreateWorld(m).state.city[c] # 0 <=> \E k \in 1 .. n : c \in m.cities[k]
  BY <1>2, <1>5, CitiesCreated
<1>8. \A c \in Cells : world.state.city[c] = CreateWorld(m).state.city[c]
  BY <1>2 DEF Undisturbed
<1> DEFINE held(k) == {c \in Cells : world.state.city[c] = Dense(m.ids, m.ids[k])}
<1>9. \A k \in 1 .. n : held(k) = CellsOf(cities, k)
  BY <1>5, <1>7, <1>8
<1>10. \A c \in Cells : world.state.city[c] # 0 <=> \E k \in 1 .. n : c \in held(k)
  BY <1>5, <1>7, <1>8, <1>9
<1> HIDE DEF held
<1>11. ASSUME NEW k \in 1 .. n
       PROVE  /\ Cardinality(held(k)) = Cardinality(held(1))
              /\ \A c \in held(k) : Within(c, GetPlayerBand(k, n))
              /\ \E j \in 1 .. n : Turned(held(k)) = held(j)
  <2>1. 1 \in 1 .. n /\ n + 1 - k \in 1 .. n
    BY <1>5
  <2>2. /\ Cardinality(CellsOf(cities, k)) = Cardinality(CellsOf(cities, 1))
        /\ \A c \in CellsOf(cities, k) : Within(c, GetPlayerBand(k, n))
        /\ Turned(CellsOf(cities, k)) = CellsOf(cities, n + 1 - k)
    BY <1>5, <1>6 DEF EvenCities
  <2> QED BY <1>9, <2>1, <2>2
<1>12. \A c \in Cells : world.state.city[c] # 0 => world.state.city[Rotate(c)] # 0
  <2> SUFFICES ASSUME NEW c \in Cells, world.state.city[c] # 0
               PROVE  world.state.city[Rotate(c)] # 0
    OBVIOUS
  <2>1. PICK k \in 1 .. n : c \in held(k)
    BY <1>10
  <2>2. PICK j \in 1 .. n : Turned(held(k)) = held(j)
    BY <1>11
  <2>3. Rotate(c) \in held(j)
    BY <2>1, <2>2 DEF Turned
  <2> QED BY <1>10, <2>3, RotateTwice
<1>13. \A c \in Cells : world.state.count[c] = world.state.count[Rotate(c)]
  <2> TAKE c \in Cells
  <2>1. PICK q \in Nat : \A d \in Cells : world.state.count[d] = IF world.state.city[d] = 0 THEN 0 ELSE q
    BY <1>2 DEF Undisturbed
  <2>2. Rotate(c) \in Cells /\ Rotate(Rotate(c)) = c
    BY RotateTwice
  <2>3. world.state.city[c] = 0 <=> world.state.city[Rotate(c)] = 0
    BY <1>12, <2>2
  <2> QED BY <2>1, <2>2, <2>3
<1> DEFINE mine(k) == {c \in Cells : world.state.city[c] = Dense(world.scenario.ids, world.scenario.ids[k])}
<1>14. \A k \in 1 .. n : held(k) = mine(k)
  BY <1>1 DEF held
<1>15. 1 \in 1 .. n /\ DOMAIN world.scenario.ids = 1 .. n /\ n = Len(world.scenario.ids)
  <2>1. m.ids = world.scenario.ids
    BY <1>1
  <2>2. 1 \in 1 .. n
    BY <1>5
  <2>3. DOMAIN m.ids = 1 .. n /\ n = Len(m.ids)
    BY <1>3, <1>5
  <2> QED BY <2>1, <2>2, <2>3
<1> HIDE DEF mine
<1>16. \A k \in DOMAIN world.scenario.ids :
          /\ Cardinality(mine(k)) = Cardinality(mine(1))
          /\ \A c \in mine(k) : Within(c, GetPlayerBand(k, Len(world.scenario.ids)))
          /\ \E j \in DOMAIN world.scenario.ids : {Rotate(c) : c \in mine(k)} = mine(j)
  <2> TAKE k \in DOMAIN world.scenario.ids
  <2>1. k \in 1 .. n /\ mine(k) = held(k) /\ mine(1) = held(1)
    BY <1>14, <1>15
  <2>2. PICK j \in 1 .. n : Turned(held(k)) = held(j)
    BY <1>11, <2>1
  <2>3. {Rotate(c) : c \in mine(k)} = mine(j)
    BY <1>14, <2>1, <2>2 DEF Turned
  <2> QED BY <1>11, <1>15, <2>1, <2>3
<1> QED BY <1>13, <1>16 DEF FairStart, mine

\* The terrain gives every player the same start, and the engine keeps it as long
\* as nobody orders anything: for every noise, every setting in its range and every
\* number of ticks, a board that passes the validator gives all slots as many
\* cities, each in the band of its own slot, and cities and troops look the same
\* after the turn by half a circle.  Four players need a board of even size.
THEOREM StartIsFair ==
    ASSUME \A r \in Requests : Len(r.ids) = 4 => Width % 2 = 0
    PROVE  Spec => []FairStart
<1>1. Init => Unplayed
  <2> SUFFICES ASSUME Init PROVE Unplayed
    OBVIOUS
  <2>1. PICK s \in Scenarios : world = CreateWorld(s)
    BY DEF Init
  <2>2. world.scenario = s
    BY <2>1 DEF CreateWorld
  <2>3. log \in Seq({}) /\ pending = <<>>
    BY DEF Init
  <2> QED BY <2>1, <2>2, <2>3, CreatedUndisturbed DEF Unplayed
<1>2. Sound /\ Unplayed /\ [Next]_vars => Unplayed'
  BY UnplayedKept
<1>3. Sound /\ Unplayed => FairStart
  BY UndisturbedFair
<1> QED BY <1>1, <1>2, <1>3, SoundKept, PTL DEF Spec

----------------------------------------------------------------------------
(* Telling recorded orders *)

\* What a match becomes by one recorded order.
Hears(m, r) == ApplyCommand(m.world, m.pending, r.order)

\* The function on sets of indices by which `Told' folds the first n orders.
IsTelling(g, m, orders, n) ==
    g = [s \in SUBSET (1 .. n) |->
            IF s = {} THEN m ELSE Hears(g[s \ {Max(s)}], orders[Max(s)])]

\* That recursive function exists.
LEMMA TellingDefined ==
    ASSUME NEW m, NEW orders
    PROVE  \A n \in Nat : \E g : IsTelling(g, m, orders, n)
<1> DEFINE S == {n \in Nat : \E g : IsTelling(g, m, orders, n)}
<1>1. 0 \in S
  <2>1. \A s \in SUBSET (1 .. 0) : s = {}
    OBVIOUS
  <2>2. IsTelling([s \in SUBSET (1 .. 0) |-> m], m, orders, 0)
    BY <2>1 DEF IsTelling
  <2> QED BY <2>2
<1>2. \A n \in Nat : n \in S => n + 1 \in S
  <2> SUFFICES ASSUME NEW n \in Nat, NEW g, IsTelling(g, m, orders, n)
               PROVE  \E h : IsTelling(h, m, orders, n + 1)
    OBVIOUS
  <2> DEFINE h == [s \in SUBSET (1 .. n + 1) |->
                     IF n + 1 \in s THEN Hears(g[s \ {n + 1}], orders[n + 1]) ELSE g[s]]
  <2>1. ASSUME NEW s \in SUBSET (1 .. n + 1)
        PROVE  h[s] = IF s = {} THEN m ELSE Hears(h[s \ {Max(s)}], orders[Max(s)])
    <3>1. CASE n + 1 \in s
      <4>1. n + 1 \in Nat /\ s # {}
        BY <3>1
      <4>2. Max(s) \in s /\ \A i \in s : i <= Max(s)
        BY <4>1, GreatestChosen
      <4>3. Max(s) = n + 1
        <5>1. Max(s) \in 1 .. n + 1 /\ n + 1 <= Max(s)
          BY <3>1, <4>2
        <5> QED BY <5>1
      <4>4. s \ {n + 1} \in SUBSET (1 .. n + 1) /\ n + 1 \notin s \ {n + 1}
        OBVIOUS
      <4>5. h[s \ {n + 1}] = g[s \ {n + 1}]
        BY <4>4
      <4> QED BY <3>1, <4>3, <4>5
    <3>2. CASE n + 1 \notin s /\ s # {}
      <4>1. s \in SUBSET (1 .. n)
        BY <3>2
      <4>2. Max(s) \in s
        BY <4>1, <3>2, GreatestChosen
      <4>3. g[s] = Hears(g[s \ {Max(s)}], orders[Max(s)])
        BY <4>1, <3>2 DEF IsTelling
      <4>4. s \ {Max(s)} \in SUBSET (1 .. n + 1) /\ n + 1 \notin s \ {Max(s)}
        BY <3>2
      <4>5. h[s \ {Max(s)}] = g[s \ {Max(s)}]
        BY <4>4
      <4> QED BY <3>2, <4>3, <4>5
    <3>3. CASE s = {}
      <4>1. s \in SUBSET (1 .. n) /\ n + 1 \notin s
        BY <3>3
      <4> QED BY <4>1, <3>3 DEF IsTelling
    <3> QED BY <3>1, <3>2, <3>3
  <2>2. IsTelling(h, m, orders, n + 1)
    <3> HIDE DEF h
    <3>1. h = [s \in SUBSET (1 .. n + 1) |-> h[s]]
      BY DEF h
    <3> QED BY <2>1, <3>1 DEF IsTelling
  <2> HIDE DEF h
  <2> QED BY <2>2
<1> HIDE DEF S
<1>3. Nat \subseteq S
  BY <1>1, <1>2, NatInductionInSet
<1> QED BY <1>3 DEF S

\* Two of them agree as far as the orders do.
LEMMA TellingsAgree ==
    ASSUME NEW m, NEW one, NEW other, NEW n \in Nat, NEW l \in Nat, n <= l,
           \A i \in 1 .. n : one[i] = other[i],
           NEW g, IsTelling(g, m, one, n), NEW h, IsTelling(h, m, other, l)
    PROVE  \A s \in SUBSET (1 .. n) : g[s] = h[s]
<1> DEFINE St == [s \in SUBSET (1 .. n) |-> {h[s]}]
<1>1. {} \in SUBSET (1 .. n) /\ {} \in SUBSET (1 .. l)
  OBVIOUS
<1>2. g[{}] \in St[{}]
  BY <1>1 DEF IsTelling
<1>3. ASSUME NEW s \in SUBSET (1 .. n), s # {}, g[s \ {Max(s)}] \in St[s \ {Max(s)}]
      PROVE  g[s] \in St[s]
  <2>1. Max(s) \in 1 .. n /\ s \ {Max(s)} \in SUBSET (1 .. n)
    BY <1>3, GreatestChosen
  <2>2. g[s \ {Max(s)}] = h[s \ {Max(s)}]
    BY <1>3, <2>1
  <2>3. g[s] = Hears(g[s \ {Max(s)}], one[Max(s)])
    BY <1>3 DEF IsTelling
  <2>4. s \in SUBSET (1 .. l)
    OBVIOUS
  <2>5. h[s] = Hears(h[s \ {Max(s)}], other[Max(s)])
    BY <1>3, <2>4 DEF IsTelling
  <2>6. one[Max(s)] = other[Max(s)]
    BY <2>1
  <2> QED BY <2>2, <2>3, <2>5, <2>6
<1> HIDE DEF St
<1>4. \A s \in SUBSET (1 .. n) : g[s] \in St[s]
  BY <1>2, <1>3, FoldGrows
<1> QED BY <1>4 DEF St

\* What a match becomes is the value of that function on all of the orders.
LEMMA ToldIs ==
    ASSUME NEW m, NEW orders, NEW n \in Nat, DOMAIN orders = 1 .. n
    PROVE  \E g : IsTelling(g, m, orders, n) /\ Told(m, orders) = g[1 .. n]
<1> DEFINE Is(g) == g = [s \in SUBSET (DOMAIN orders) |->
                           IF s = {} THEN m
                           ELSE ApplyCommand(g[s \ {Max(s)}].world, g[s \ {Max(s)}].pending,
                                             orders[Max(s)].order)]
<1>1. \E g : Is(g)
  <2>1. PICK g : IsTelling(g, m, orders, n)
    BY TellingDefined
  <2>2. Is(g)
    BY <2>1 DEF IsTelling, Hears
  <2> QED BY <2>2
<1>2. PICK it : Is(it) /\ Told(m, orders) = it[DOMAIN orders]
  BY <1>1 DEF Told, FoldLeft, MapThenFoldSet
<1>3. IsTelling(it, m, orders, n)
  BY <1>2 DEF IsTelling, Hears
<1> QED BY <1>2, <1>3

\* Told nothing, a match stays as it is; the last order comes after the others.
LEMMA ToldInTurn ==
    ASSUME NEW m, NEW X, NEW orders \in Seq(X), NEW r
    PROVE  /\ Told(m, <<>>) = m
           /\ Told(m, Append(orders, r)) = Hears(Told(m, orders), r)
<1>1. Told(m, <<>>) = m
  <2>1. PICK g : IsTelling(g, m, <<>>, 0) /\ Told(m, <<>>) = g[1 .. 0]
    <3>1. 0 \in Nat /\ DOMAIN <<>> = 1 .. 0
      OBVIOUS
    <3> QED BY <3>1, ToldIs
  <2>2. 1 .. 0 = {} /\ {} \in SUBSET (1 .. 0)
    OBVIOUS
  <2> QED BY <2>1, <2>2 DEF IsTelling
<1>2. PICK n \in Nat : n = Len(orders)
  OBVIOUS
<1>3. PICK longer : longer = Append(orders, r)
  OBVIOUS
<1>4. PICK l \in Nat : l = n + 1
  OBVIOUS
<1>5. /\ DOMAIN orders = 1 .. n /\ DOMAIN longer = 1 .. l
      /\ \A i \in 1 .. n : orders[i] = longer[i]
      /\ longer[l] = r /\ n <= l /\ l \in 1 .. l /\ (1 .. l) \ {l} = 1 .. n
  BY <1>2, <1>3, <1>4
<1>6. PICK g : IsTelling(g, m, orders, n) /\ Told(m, orders) = g[1 .. n]
  BY <1>5, ToldIs
<1>7. PICK h : IsTelling(h, m, longer, l) /\ Told(m, longer) = h[1 .. l]
  BY <1>5, ToldIs
<1>8. \A s \in SUBSET (1 .. n) : g[s] = h[s]
  BY <1>5, <1>6, <1>7, TellingsAgree
<1>9. Max(1 .. l) = l
  <2>1. 1 .. l \in SUBSET (1 .. l) /\ 1 .. l # {}
    BY <1>5
  <2>2. Max(1 .. l) \in 1 .. l /\ \A i \in 1 .. l : i <= Max(1 .. l)
    BY <2>1, GreatestChosen
  <2>3. l <= Max(1 .. l)
    BY <1>5, <2>2
  <2> QED BY <2>2, <2>3
<1>10. h[1 .. l] = Hears(h[(1 .. l) \ {l}], longer[l])
  <2>1. 1 .. l \in SUBSET (1 .. l) /\ 1 .. l # {}
    BY <1>5
  <2>2. h[1 .. l] = Hears(h[(1 .. l) \ {Max(1 .. l)}], longer[Max(1 .. l)])
    BY <1>7, <2>1 DEF IsTelling
  <2> QED BY <1>9, <2>2
<1>11. h[(1 .. l) \ {l}] = g[1 .. n]
  <2>1. 1 .. n \in SUBSET (1 .. n)
    OBVIOUS
  <2> QED BY <1>5, <1>8, <2>1
<1> QED BY <1>1, <1>3, <1>5, <1>6, <1>7, <1>10, <1>11

----------------------------------------------------------------------------
(* The orders of a tick *)

\* The places of a set of indices in their order are a numbering.
LEMMA PlacesTaken ==
    ASSUME NEW n \in Nat, NEW at \in SUBSET (1 .. n)
    PROVE  \A k \in 1 .. Cardinality(at) :
              \E i \in at : 1 + Cardinality({j \in at : j < i}) = k
<1>1. IsFiniteSet(at)
  <2>1. IsFiniteSet(1 .. n)
    BY FS_Interval
  <2> QED BY <2>1, FS_Subset
<1>2. PICK R : R = {e \in at \X at : e[1] < e[2]}
  OBVIOUS
<1>3. \A i, j \in at : <<i, j>> \in R <=> i < j
  BY <1>2
<1>4. TotalOn(R, at)
  <2>1. \A i \in at : i \in Int
    OBVIOUS
  <2> QED BY <1>3, <2>1 DEF TotalOn
<1>5. PICK m \in Nat : m = Cardinality(at)
  BY <1>1, FS_CardinalityType
<1>6. Numbered(R, at, m)
  BY <1>1, <1>4, <1>5, OrderNumbers
<1>7. ASSUME NEW i \in at
      PROVE  1 + RankIn(R, at, i) = 1 + Cardinality({j \in at : j < i})
  <2>1. {j \in at : <<j, i>> \in R} = {j \in at : j < i}
    BY <1>3
  <2> QED BY <2>1 DEF RankIn
<1> QED BY <1>5, <1>6, <1>7 DEF Numbered

\* The selection of a sequence that has one entry more.
LEMMA AmongAppend ==
    ASSUME NEW X, NEW s \in Seq(X), NEW e, NEW set, NEW other,
           \A i \in DOMAIN s : s[i] \in set <=> s[i] \in other
    PROVE  Among(Append(s, e), other) =
             IF e \in other THEN Append(Among(s, set), e) ELSE Among(s, set)
<1>1. PICK n \in Nat : n = Len(s)
  OBVIOUS
<1>2. PICK t : t = Append(s, e)
  OBVIOUS
<1>3. PICK l \in Nat : l = n + 1
  OBVIOUS
<1>4. /\ DOMAIN s = 1 .. n /\ DOMAIN t = 1 .. l
      /\ \A i \in 1 .. n : t[i] = s[i] /\ i < l
      /\ t[l] = e
  BY <1>1, <1>2, <1>3
<1>5. PICK at : at = {i \in DOMAIN s : s[i] \in set}
  OBVIOUS
<1>6. PICK all : all = {i \in DOMAIN t : t[i] \in other}
  OBVIOUS
<1>7. /\ at \subseteq 1 .. n /\ all \subseteq 1 .. l /\ l \notin at
      /\ \A i \in 1 .. n : i \in all <=> i \in at
      /\ \A i \in all : i \in at \/ i = l
      /\ l \in all <=> e \in other
  <2>1. \A i \in 1 .. l : i = l \/ i \in 1 .. n
    BY <1>3
  <2>2. l \notin 1 .. n /\ l \in 1 .. l
    BY <1>3
  <2>3. \A i \in 1 .. n : i \in 1 .. l
    BY <1>3
  <2> QED BY <1>4, <1>5, <1>6, <2>1, <2>2, <2>3
<1>8. IsFiniteSet(at)
  <2>1. IsFiniteSet(1 .. n)
    BY FS_Interval
  <2> QED BY <1>7, <2>1, FS_Subset
<1>9. PICK m \in Nat : m = Cardinality(at)
  BY <1>8, FS_CardinalityType
<1>10. PICK p : p = [i \in 1 .. l |-> 1 + Cardinality({j \in at : j < i})]
  OBVIOUS
<1>11. ASSUME NEW i \in 1 .. l
       PROVE  /\ 1 + Cardinality({j \in at : j < i}) = p[i]
              /\ 1 + Cardinality({j \in all : j < i}) = p[i]
  <2>1. \A j \in all : j < i => j \in at
    BY <1>7
  <2>2. \A j \in at : j \in all
    BY <1>7
  <2>3. {j \in all : j < i} = {j \in at : j < i}
    BY <2>1, <2>2
  <2> QED BY <1>10, <2>3
<1>12. ASSUME NEW i \in at PROVE p[i] \in 1 .. m
  <2>1. PICK U : U = {j \in at : j < i}
    OBVIOUS
  <2>2. U \in SUBSET at /\ U # at /\ i \in 1 .. l
    BY <1>3, <1>7, <2>1
  <2>3. IsFiniteSet(U) /\ Cardinality(U) <= Cardinality(at) /\ (Cardinality(U) = Cardinality(at) => U = at)
    BY <1>8, <2>2, FS_Subset
  <2>4. PICK u \in Nat : u = Cardinality(U)
    BY <2>3, FS_CardinalityType
  <2>5. p[i] = 1 + u
    BY <1>10, <2>1, <2>2, <2>4
  <2>6. u <= m /\ u # m
    BY <1>9, <2>2, <2>3, <2>4
  <2> QED BY <2>5, <2>6
<1>13. p[l] = 1 + m
  <2>1. l \in 1 .. l
    BY <1>3
  <2>2. {j \in at : j < l} = at
    BY <1>4, <1>7
  <2> QED BY <1>9, <1>10, <2>1, <2>2
<1> DEFINE first(k) == CHOOSE i \in at : 1 + Cardinality({j \in at : j < i}) = k
           firsts(k) == CHOOSE i \in all : 1 + Cardinality({j \in all : j < i}) = k
<1>14. Among(s, set) = [k \in 1 .. m |-> s[first(k)]]
  BY <1>5, <1>9 DEF Among
<1>15. Among(t, other) = [k \in 1 .. Cardinality(all) |-> t[firsts(k)]]
  BY <1>6 DEF Among
<1>16. ASSUME NEW k \in 1 .. m
       PROVE  firsts(k) = first(k)
  <2>1. PICK A : A = {i \in all : 1 + Cardinality({j \in all : j < i}) = k}
    OBVIOUS
  <2>2. PICK B : B = {i \in at : 1 + Cardinality({j \in at : j < i}) = k}
    OBVIOUS
  <2>3. ASSUME NEW i \in A PROVE i \in B
    <3>1. i \in all /\ i \in 1 .. l /\ p[i] = k
      BY <1>7, <1>11, <2>1
    <3>2. i # l
      BY <1>13, <3>1
    <3>3. i \in at
      BY <1>7, <3>1, <3>2
    <3> QED BY <1>11, <2>2, <3>1, <3>3
  <2>4. ASSUME NEW i \in B PROVE i \in A
    <3>1. i \in at /\ i \in all /\ i \in 1 .. l
      BY <1>3, <1>7, <2>2
    <3>2. p[i] = k
      BY <1>11, <2>2, <3>1
    <3> QED BY <1>11, <2>1, <3>1, <3>2
  <2>5. A = B
    BY <2>3, <2>4
  <2>6. firsts(k) = CHOOSE i : i \in A
    BY <2>1
  <2>7. first(k) = CHOOSE i : i \in B
    BY <2>2
  <2> QED BY <2>5, <2>6, <2>7
<1> HIDE DEF firsts
<1>17. ASSUME NEW k \in 1 .. m
       PROVE  first(k) \in at /\ t[firsts(k)] = s[first(k)]
  <2>1. \E i \in at : 1 + Cardinality({j \in at : j < i}) = k
    BY <1>7, <1>9, PlacesTaken
  <2>2. first(k) \in at
    BY <2>1
  <2> HIDE DEF first
  <2> QED BY <1>4, <1>7, <1>16, <2>2
<1> HIDE DEF first
<1>18. CASE e \notin other
  <2>1. all = at
    BY <1>3, <1>7, <1>18
  <2>2. Among(t, other) = Among(s, set)
    BY <1>9, <1>14, <1>15, <1>17, <2>1
  <2> QED BY <1>2, <1>18, <2>2
<1>19. CASE e \in other
  <2>1. all = at \cup {l}
    BY <1>3, <1>7, <1>19
  <2>2. Cardinality(all) = m + 1
    BY <1>7, <1>8, <1>9, <2>1, FS_AddElement
  <2>3. firsts(m + 1) = l
    <3>1. l \in all /\ 1 + Cardinality({j \in all : j < l}) = m + 1
      <4>1. l \in 1 .. l
        BY <1>3
      <4>2. 1 + Cardinality({j \in all : j < l}) = p[l]
        BY <1>11, <4>1
      <4> QED BY <1>7, <1>13, <1>19, <4>2
    <3>2. ASSUME NEW i \in all, 1 + Cardinality({j \in all : j < i}) = m + 1
          PROVE  i = l
      <4>1. i \in 1 .. l /\ p[i] = m + 1
        BY <1>7, <1>11, <3>2
      <4>2. i \notin at
        BY <1>12, <4>1
      <4> QED BY <1>7, <4>2
    <3>3. \E i \in all : 1 + Cardinality({j \in all : j < i}) = m + 1
      BY <3>1
    <3>4. /\ firsts(m + 1) \in all
          /\ 1 + Cardinality({j \in all : j < firsts(m + 1)}) = m + 1
      BY <3>3 DEF firsts
    <3> QED BY <3>2, <3>4
  <2>4. PICK h \in Nat : h = m + 1
    OBVIOUS
  <2>5. Among(t, other) = [k \in 1 .. h |-> t[firsts(k)]]
    BY <1>15, <2>2, <2>4
  <2>6. PICK short : short = Among(s, set)
    OBVIOUS
  <2>7. DOMAIN short = 1 .. m /\ short = [k \in 1 .. m |-> short[k]]
    BY <1>14, <2>6
  <2>8. Append(short, e) = [k \in 1 .. h |-> IF k = h THEN e ELSE short[k]]
    <3>1. short \in Seq({short[k] : k \in 1 .. m})
      <4>1. PICK Y : Y = {short[k] : k \in 1 .. m}
        OBVIOUS
      <4>2. short \in [1 .. m -> Y]
        BY <2>7, <4>1
      <4>3. \A f \in [1 .. m -> Y] : f \in Seq(Y)
        OBVIOUS
      <4> QED BY <4>1, <4>2, <4>3
    <3>2. Len(short) = m
      BY <2>7, <3>1
    <3> QED BY <2>4, <2>7, <3>1, <3>2
  <2>9. \A k \in 1 .. h : t[firsts(k)] = IF k = h THEN e ELSE short[k]
    <3>1. \A k \in 1 .. h : k = h \/ k \in 1 .. m
      BY <2>4
    <3>2. t[firsts(h)] = e
      BY <1>4, <2>3, <2>4
    <3>3. \A k \in 1 .. m : t[firsts(k)] = short[k]
      BY <1>14, <1>17, <2>6
    <3> QED BY <2>4, <3>1, <3>2, <3>3
  <2>10. Among(t, other) = Append(short, e)
    BY <2>5, <2>8, <2>9
  <2> QED BY <1>2, <1>19, <2>6, <2>10
<1> QED BY <1>18, <1>19

\* The orders of one tick of a log that has one entry more.
LEMMA OrdersAppend ==
    ASSUME NEW X, NEW orders \in Seq(X), NEW r, NEW t
    PROVE  OrdersAt(Append(orders, r), t) =
             IF r.tick = t THEN Append(OrdersAt(orders, t), r) ELSE OrdersAt(orders, t)
<1> DEFINE more == Append(orders, r)
           set == {q \in ToSet(orders) : q.tick = t}
           other == {q \in ToSet(more) : q.tick = t}
<1>1. \A i \in DOMAIN orders : i \in DOMAIN more /\ more[i] = orders[i]
  OBVIOUS
<1>2. r \in ToSet(more)
  <2>1. Len(more) \in DOMAIN more /\ more[Len(more)] = r
    OBVIOUS
  <2> HIDE DEF more
  <2> QED BY <2>1 DEF ToSet
<1>3. \A i \in DOMAIN orders : orders[i] \in ToSet(orders) /\ orders[i] \in ToSet(more)
  <2> HIDE DEF more
  <2> QED BY <1>1 DEF ToSet
<1>4. \A i \in DOMAIN orders : orders[i] \in set <=> orders[i] \in other
  BY <1>3
<1>5. r \in other <=> r.tick = t
  BY <1>2
<1>6. OrdersAt(more, t) = Among(more, other) /\ OrdersAt(orders, t) = Among(orders, set)
  BY DEF OrdersAt
<1> HIDE DEF set, other
<1>7. Among(more, other) = IF r \in other THEN Append(Among(orders, set), r) ELSE Among(orders, set)
  BY <1>4, AmongAppend
<1> QED BY <1>5, <1>6, <1>7

\* A tick nobody has ordered anything for has no orders.
LEMMA NoOrders ==
    ASSUME NEW X, NEW orders \in Seq(X), NEW t, \A i \in DOMAIN orders : orders[i].tick # t
    PROVE  OrdersAt(orders, t) = <<>>
<1>1. {r \in ToSet(orders) : r.tick = t} = {}
  BY DEF ToSet
<1>2. Among(orders, {}) \in Seq(X \cap {})
  BY AmongKept
<1>3. OrdersAt(orders, t) \in Seq({})
  BY <1>1, <1>2 DEF OrdersAt
<1> QED BY <1>3

----------------------------------------------------------------------------
(* The match played again *)

\* The match as it is.
Match == [world |-> world, pending |-> pending]

\* h is the match at the start of every tick up to the present one: each follows
\* from the one before by the orders of the log, and the match as it is from the last.
History(h) ==
    /\ h[0] = [world |-> CreateWorld(world.scenario), pending |-> <<>>]
    /\ \A t \in 0 .. world.tick - 1 : h[t + 1] = PlayTick(h[t], OrdersAt(log, t))
    /\ Match = Told(h[world.tick], OrdersAt(log, world.tick))
    /\ copy = h[played]

\* The log holds no order of a tick to come, and the match is what it says.
LogTells ==
    /\ world.tick \in Nat /\ played \in 0 .. world.tick
    /\ \E X : log \in Seq(X)
    /\ \A i \in DOMAIN log : log[i].tick \in 0 .. world.tick
    /\ \E h : History(h)

\* It does when the match begins,
LEMMA LogTellsFirst ==
    ASSUME RecordInit
    PROVE  LogTells
<1>1. PICK s \in Scenarios : world = CreateWorld(s)
  BY DEF RecordInit, Init
<1>2. world.tick = 0 /\ world.scenario = s
  BY <1>1 DEF CreateWorld
<1>3. log = <<>> /\ pending = <<>> /\ played = 0
  BY DEF RecordInit, Init
<1>4. copy = [world |-> world, pending |-> <<>>]
  BY <1>1, <1>2 DEF RecordInit
<1>5. OrdersAt(log, world.tick) = <<>>
  <2>1. log \in Seq({}) /\ \A i \in DOMAIN log : log[i].tick # world.tick
    BY <1>3
  <2> QED BY <2>1, NoOrders
<1>6. Told(copy, <<>>) = copy
  <2>1. <<>> \in Seq({})
    OBVIOUS
  <2> QED BY <2>1, ToldInTurn
<1> DEFINE h == [t \in {0} |-> copy]
<1>7. History(h)
  <2>1. h[0] = copy
    OBVIOUS
  <2> HIDE DEF h
  <2>2. \A t \in 0 .. world.tick - 1 : FALSE
    BY <1>2
  <2> QED BY <1>1, <1>2, <1>3, <1>4, <1>5, <1>6, <2>1, <2>2 DEF History, Match
<1> HIDE DEF h
<1>8. log \in Seq({}) /\ \A i \in DOMAIN log : log[i].tick \in 0 .. world.tick
  BY <1>3
<1> QED BY <1>2, <1>3, <1>7, <1>8 DEF LogTells

\* a command is told to the match as it is told to the log,
LEMMA LogTellsCommand ==
    ASSUME LogTells, WorldShape, NEW o, Submit(o), UNCHANGED <<copy, played>>
    PROVE  LogTells'
<1>1. PICK h : History(h)
  BY DEF LogTells
<1>2. PICK r : r = [tick |-> world.tick, order |-> o]
  OBVIOUS
<1>3. log' = Append(log, r) /\ Match' = Hears(Match, r)
  <2>1. PICK done : done = ApplyCommand(world, pending, o)
    OBVIOUS
  <2>2. done = [world |-> done.world, pending |-> done.pending]
    BY <2>1 DEF ApplyCommand
  <2>3. world' = done.world /\ pending' = done.pending /\ log' = Append(log, r)
    BY <1>2, <2>1 DEF Submit
  <2>4. Hears(Match, r) = done
    BY <1>2, <2>1 DEF Hears, Match
  <2> QED BY <2>2, <2>3, <2>4 DEF Match
<1>4. world'.tick = world.tick /\ world'.scenario = world.scenario
  <2>1. world' = ApplyCommand(world, pending, o).world
    BY DEF Submit
  <2>2. \/ world' = world
        \/ \E p : world' = [world EXCEPT !.players[p].status = "eliminated"]
    BY <2>1, Commanded
  <2>3. ASSUME NEW p, world' = [world EXCEPT !.players[p].status = "eliminated"]
        PROVE  world'.tick = world.tick /\ world'.scenario = world.scenario
    <3>1. PICK ps : ps = [world.players EXCEPT ![p].status = "eliminated"]
      OBVIOUS
    <3>2. world' = [world EXCEPT !.players = ps]
      BY <2>3, <3>1 DEF WorldShape
    <3> QED BY <3>2 DEF WorldShape
  <2> QED BY <2>2, <2>3
<1>5. PICK X : log \in Seq(X)
  BY DEF LogTells
<1>6. log \in Seq(X) /\ world.tick \in Nat
  BY <1>5 DEF LogTells
<1>7. \A t : OrdersAt(log', t) =
         IF world.tick = t THEN Append(OrdersAt(log, t), r) ELSE OrdersAt(log, t)
  <2> TAKE t
  <2>1. r.tick = world.tick
    BY <1>2
  <2>2. OrdersAt(Append(log, r), t) =
          IF r.tick = t THEN Append(OrdersAt(log, t), r) ELSE OrdersAt(log, t)
    BY <1>6, OrdersAppend
  <2> QED BY <1>3, <2>1, <2>2
<1>8. \A t : OrdersAt(log, t) \in Seq(X)
  <2> TAKE t
  <2>1. PICK set : set = {q \in ToSet(log) : q.tick = t}
    OBVIOUS
  <2>2. Among(log, set) \in Seq(X \cap set)
    BY <1>6, AmongKept
  <2>3. X \cap set \subseteq X
    OBVIOUS
  <2>4. Among(log, set) \in Seq(X)
    BY <2>2, <2>3
  <2> QED BY <2>1, <2>4 DEF OrdersAt
<1>9. Match' = Told(h[world.tick], OrdersAt(log', world.tick))
  <2>1. PICK list : list = OrdersAt(log, world.tick)
    OBVIOUS
  <2>2. list \in Seq(X)
    BY <1>8, <2>1
  <2>3. Told(h[world.tick], Append(list, r)) = Hears(Told(h[world.tick], list), r)
    BY <2>2, ToldInTurn
  <2>4. Match = Told(h[world.tick], list)
    BY <1>1, <2>1 DEF History
  <2> QED BY <1>3, <1>7, <2>1, <2>3, <2>4
<1>10. \A t \in 0 .. world.tick - 1 : h[t + 1] = PlayTick(h[t], OrdersAt(log', t))
  <2> TAKE t \in 0 .. world.tick - 1
  <2>1. OrdersAt(log', t) = OrdersAt(log, t)
    BY <1>6, <1>7
  <2> QED BY <1>1, <2>1 DEF History
<1>11. History(h)'
  <2>1. h[0] = [world |-> CreateWorld(world.scenario), pending |-> <<>>] /\ copy = h[played]
    BY <1>1 DEF History
  <2> QED BY <1>4, <1>9, <1>10, <2>1 DEF History
<1>12. log' \in Seq(X \cup {r}) /\ \A i \in DOMAIN log' : log'[i].tick \in 0 .. world.tick
  <2>1. PICK n \in Nat : n = Len(log)
    BY <1>6
  <2>2. \A i \in 1 .. n : log[i].tick \in 0 .. world.tick
    BY <1>6, <2>1 DEF LogTells
  <2>3. PICK l \in Nat : l = n + 1
    OBVIOUS
  <2>4. /\ DOMAIN log' = 1 .. l
        /\ \A i \in 1 .. l : i \in 1 .. n \/ i = l
        /\ \A i \in 1 .. n : log'[i] = log[i]
        /\ log'[l] = r
    BY <1>3, <1>6, <2>1, <2>3
  <2>5. log'[l].tick \in 0 .. world.tick
    BY <1>2, <1>6, <2>4
  <2>6. log' \in Seq(X \cup {r})
    BY <1>3, <1>6
  <2> QED BY <2>2, <2>4, <2>5, <2>6
<1>13. played' = played
  OBVIOUS
<1>14. \E f : History(f)'
  BY <1>11
<1> QED BY <1>4, <1>12, <1>13, <1>14 DEF LogTells

\* a tick plays what the log has for it,
LEMMA LogTellsTick ==
    ASSUME LogTells, WorldShape, Advance, UNCHANGED <<copy, played>>
    PROVE  LogTells'
<1>1. PICK h : History(h)
  BY DEF LogTells
<1>2. /\ world' = TickResult(world, pending).world
      /\ pending' = TickResult(world, pending).pending
      /\ log' = log
  BY DEF Advance
<1>3. CASE IsTerminal(world)
  <2>1. world' = world /\ pending' = pending
    BY <1>2, <1>3, TickStands
  <2> QED BY <1>2, <2>1 DEF LogTells, History, Match
<1>4. CASE ~IsTerminal(world)
  <2>1. /\ world' = Settled(world, Fought(world, SortedOrders(pending)))
        /\ pending' = <<>>
    BY <1>2, <1>4, TickOf
  <2>2. world.tick \in Nat /\ world'.tick = world.tick + 1 /\ world'.scenario = world.scenario
    <3>1. world.tick \in Nat
      BY DEF LogTells
    <3> QED BY <2>1, <3>1 DEF Settled, WorldShape
  <2>3. PICK n \in Nat : n = world.tick + 1
    BY <2>2
  <2>4. OrdersAt(log, n) = <<>>
    <3>1. \A i \in DOMAIN log : log[i].tick # n
      <4> TAKE i \in DOMAIN log
      <4>1. log[i].tick \in 0 .. world.tick
        BY DEF LogTells
      <4> QED BY <2>2, <2>3, <4>1
    <3>2. PICK X : log \in Seq(X)
      BY DEF LogTells
    <3> QED BY <3>1, <3>2, NoOrders
  <2>5. PICK f : f = [t \in 0 .. n |-> IF t = n THEN Match' ELSE h[t]]
    OBVIOUS
  <2>6. f[n] = Match' /\ \A t \in 0 .. world.tick : f[t] = h[t] /\ t # n
    BY <2>2, <2>3, <2>5
  <2>7. Match' = PlayTick(h[world.tick], OrdersAt(log, world.tick))
    <3>1. Match = Told(h[world.tick], OrdersAt(log, world.tick))
      BY <1>1 DEF History
    <3> QED BY <1>2, <3>1 DEF PlayTick, Match
  <2>8. f[0] = [world |-> CreateWorld(world.scenario), pending |-> <<>>]
    BY <1>1, <2>2, <2>6 DEF History
  <2>9. \A t \in 0 .. n - 1 : f[t + 1] = PlayTick(f[t], OrdersAt(log, t))
    <3> TAKE t \in 0 .. n - 1
    <3>1. f[t] = h[t]
      BY <2>2, <2>3, <2>6
    <3>2. CASE t = world.tick
      BY <2>3, <2>6, <2>7, <3>1, <3>2
    <3>3. CASE t # world.tick
      <4>1. t \in 0 .. world.tick - 1 /\ t + 1 \in 0 .. world.tick
        BY <2>2, <2>3, <3>3
      <4>2. h[t + 1] = PlayTick(h[t], OrdersAt(log, t))
        BY <1>1, <4>1 DEF History
      <4> QED BY <2>6, <3>1, <4>1, <4>2
    <3> QED BY <3>2, <3>3
  <2>10. Match' = Told(f[n], OrdersAt(log, n))
    <3>1. <<>> \in Seq({})
      OBVIOUS
    <3>2. Told(f[n], <<>>) = f[n]
      BY <3>1, ToldInTurn
    <3> QED BY <2>4, <2>6, <3>2
  <2>11. copy = f[played]
    <3>1. copy = h[played] /\ played \in 0 .. world.tick
      BY <1>1 DEF History, LogTells
    <3> QED BY <2>6, <3>1
  <2>12. History(f)'
    <3>1. world'.tick = n /\ log' = log /\ copy' = copy /\ played' = played
      BY <1>2, <2>2, <2>3
    <3>2. f[0] = [world |-> CreateWorld(world'.scenario), pending |-> <<>>]
      BY <2>2, <2>8
    <3> QED BY <2>9, <2>10, <2>11, <3>1, <3>2 DEF History
  <2>13. played \in 0 .. n
    BY <2>2, <2>3 DEF LogTells
  <2>14. \A i \in DOMAIN log : log[i].tick \in 0 .. n
    <3> TAKE i \in DOMAIN log
    <3>1. log[i].tick \in 0 .. world.tick
      BY DEF LogTells
    <3> QED BY <2>2, <2>3, <3>1
  <2>15. \E g : History(g)'
    BY <2>12
  <2> QED BY <1>2, <2>2, <2>3, <2>13, <2>14, <2>15 DEF LogTells
<1> QED BY <1>3, <1>4

\* and a tick that is played again leads from one entry of the history to the next.
LEMMA LogTellsReplay ==
    ASSUME LogTells, ReplayTick
    PROVE  LogTells'
<1>1. PICK h : History(h)
  BY DEF LogTells
<1>2. /\ world' = world /\ pending' = pending /\ log' = log
      /\ played < world.tick /\ played' = played + 1
      /\ copy' = PlayTick(copy, OrdersAt(log, played))
  BY DEF ReplayTick, vars
<1>3. world.tick \in Nat /\ played \in 0 .. world.tick - 1 /\ played + 1 \in 0 .. world.tick
  BY <1>2 DEF LogTells
<1>4. copy' = h[played + 1]
  BY <1>1, <1>2, <1>3 DEF History
<1>5. History(h)'
  <2>1. /\ h[0] = [world |-> CreateWorld(world.scenario), pending |-> <<>>]
        /\ \A t \in 0 .. world.tick - 1 : h[t + 1] = PlayTick(h[t], OrdersAt(log, t))
        /\ Match = Told(h[world.tick], OrdersAt(log, world.tick))
    BY <1>1 DEF History
  <2> QED BY <1>2, <1>4, <2>1 DEF History, Match
<1>6. \E f : History(f)'
  BY <1>5
<1> QED BY <1>2, <1>3, <1>6 DEF LogTells

\* A match that is recorded and played again goes by the rules of the engine.
LEMMA RecordPlays == RecordSpec => Spec
<1>1. RecordInit => Init
  BY DEF RecordInit
<1>2. [RecordNext]_<<vars, copy, played>> => [Next]_vars
  BY DEF RecordNext, ReplayTick, vars
<1> QED BY <1>1, <1>2, PTL DEF RecordSpec, Spec

\* So the log always tells how the match came to be as it is.
LEMMA LogKept == RecordSpec => []LogTells
<1>1. RecordInit => LogTells
  BY LogTellsFirst
<1>2. LogTells /\ WorldShape /\ [RecordNext]_<<vars, copy, played>> => LogTells'
  <2> SUFFICES ASSUME LogTells, WorldShape, [RecordNext]_<<vars, copy, played>>
               PROVE  LogTells'
    OBVIOUS
  <2>1. CASE UNCHANGED <<vars, copy, played>>
    BY <2>1 DEF vars, LogTells, History, Match
  <2>2. CASE ReplayTick
    BY <2>2, LogTellsReplay
  <2>3. CASE Next /\ UNCHANGED <<copy, played>>
    BY <2>3, LogTellsCommand, LogTellsTick DEF Next
  <2> QED BY <2>1, <2>2, <2>3 DEF RecordNext
<1> QED BY <1>1, <1>2, RecordPlays, ShapeKept, PTL DEF RecordSpec

\* A match played again to its end is the match.
LEMMA ReplayEnds ==
    ASSUME LogTells, Recorded, played = world.tick
    PROVE  copy = Match
<1>1. PICK h : History(h)
  BY DEF LogTells
<1>2. PICK X : log \in Seq(X)
  BY DEF LogTells
<1>3. \A i \in DOMAIN log : log[i].tick # world.tick
  <2> TAKE i \in DOMAIN log
  <2>1. log[i].tick < world.tick
    BY DEF Recorded
  <2>2. log[i].tick \in 0 .. world.tick /\ world.tick \in Nat
    BY DEF LogTells
  <2> QED BY <2>1, <2>2
<1>4. OrdersAt(log, world.tick) = <<>>
  BY <1>2, <1>3, NoOrders
<1>5. <<>> \in Seq({})
  OBVIOUS
<1>6. Told(h[world.tick], <<>>) = h[world.tick]
  BY <1>5, ToldInTurn
<1> QED BY <1>1, <1>4, <1>6 DEF History

----------------------------------------------------------------------------
(* The image of a world *)

\* Four bytes hold a number that fits them.
LEMMA BytesBack ==
    ASSUME NEW n \in Nat, FitsU32(n)
    PROVE  ReadU32(U32(n)) = n
<1>1. ASSUME NEW m \in Nat
      PROVE  m = 256 * (m \div 256) + (m % 256) /\ m \div 256 \in Nat /\ m % 256 \in 0 .. 255
  OBVIOUS
<1>2. PICK q \in Nat : q = n \div 256
  BY <1>1
<1>3. PICK q2 \in Nat : q2 = q \div 256
  BY <1>1
<1>4. PICK q3 \in Nat : q3 = q2 \div 256
  BY <1>1
<1>5. PICK r \in 0 .. 255 : n = 256 * q + r /\ r = n % 256
  BY <1>1, <1>2
<1>6. PICK r2 \in 0 .. 255 : q = 256 * q2 + r2 /\ r2 = q % 256
  BY <1>1, <1>3
<1>7. PICK r3 \in 0 .. 255 : q2 = 256 * q3 + r3 /\ r3 = q2 % 256
  BY <1>1, <1>4
<1>8. n \div 65536 = q2
  <2>1. n = 65536 * q2 + (256 * r2 + r)
    BY <1>5, <1>6
  <2>2. 0 <= 256 * r2 + r /\ 256 * r2 + r < 65536
    OBVIOUS
  <2> QED BY <2>1, <2>2
<1>9. n \div 16777216 = q3
  <2>1. n = 16777216 * q3 + (65536 * r3 + 256 * r2 + r)
    BY <1>5, <1>6, <1>7
  <2>2. 0 <= 65536 * r3 + 256 * r2 + r /\ 65536 * r3 + 256 * r2 + r < 16777216
    OBVIOUS
  <2> QED BY <2>1, <2>2
<1>10. q3 < 256 /\ q3 % 256 = q3
  <2>1. q3 < 256
    BY <1>9 DEF FitsU32
  <2> QED BY <2>1
<1>11. U32(n) = <<r, r2, r3, q3>>
  BY <1>2, <1>5, <1>6, <1>7, <1>8, <1>9, <1>10 DEF U32
<1>12. ReadU32(U32(n)) = r + 256 * (r2 + 256 * (r3 + 256 * q3))
  BY <1>11 DEF ReadU32
<1> QED BY <1>5, <1>6, <1>7, <1>12

\* A mask holds a set of directions.
LEMMA MaskBack ==
    ASSUME NEW P \in SUBSET DOMAIN Offset
    PROVE  MaskOf(P) \in 0 .. 15 /\ PipesIn(MaskOf(P)) = P
<1>1. DOMAIN Bit = {"N", "E", "S", "W"} /\ DOMAIN Offset = {"N", "E", "S", "W"}
  BY DEF Bit, Offset
<1>2. Bit \in [{"N", "E", "S", "W"} -> Int]
  BY DEF Bit
<1>3. PICK D : D = {"N", "E", "S", "W"}
  OBVIOUS
<1>4. IsFiniteSet(D)
  <2>1. IsFiniteSet({}) /\ D = ((({} \cup {"N"}) \cup {"E"}) \cup {"S"}) \cup {"W"}
    BY <1>3, FS_EmptySet
  <2>2. IsFiniteSet({} \cup {"N"})
    BY <2>1, FS_AddElement
  <2>3. IsFiniteSet(({} \cup {"N"}) \cup {"E"})
    BY <2>2, FS_AddElement
  <2>4. IsFiniteSet((({} \cup {"N"}) \cup {"E"}) \cup {"S"})
    BY <2>3, FS_AddElement
  <2> QED BY <2>1, <2>4, FS_AddElement
<1>5. /\ \A U \in SUBSET D : Total(Bit, U) \in Int
      /\ Total(Bit, {}) = 0
      /\ \A U \in SUBSET D : \A x \in U : Total(Bit, U) = Bit[x] + Total(Bit, U \ {x})
  <2>1. Bit \in [D -> Int]
    BY <1>2, <1>3
  <2> QED BY <1>4, <2>1, TotalTakes
<1>6. \A U \in SUBSET D : \A x \in D :
         Total(Bit, U) = (IF x \in U THEN Bit[x] ELSE 0) + Total(Bit, U \ {x})
  <2> TAKE U \in SUBSET D
  <2> TAKE x \in D
  <2>1. CASE x \in U
    BY <1>5, <2>1
  <2>2. CASE x \notin U
    <3>1. U \ {x} = U
      BY <2>2
    <3>2. PICK k \in Int : k = Total(Bit, U)
      BY <1>5
    <3>3. k = 0 + k
      OBVIOUS
    <3> QED BY <2>2, <3>1, <3>2, <3>3
  <2> QED BY <2>1, <2>2
<1>7. Bit["N"] = 1 /\ Bit["E"] = 2 /\ Bit["S"] = 4 /\ Bit["W"] = 8
  BY DEF Bit
<1>8. PICK n \in {0, 1} : "N" \in P <=> n = 1
  OBVIOUS
<1>9. PICK e \in {0, 1} : "E" \in P <=> e = 1
  OBVIOUS
<1>10. PICK s \in {0, 1} : "S" \in P <=> s = 1
  OBVIOUS
<1>11. PICK w \in {0, 1} : "W" \in P <=> w = 1
  OBVIOUS
<1>12. MaskOf(P) = n + 2 * e + 4 * s + 8 * w
  <2>1. MaskOf(P) = Total(Bit, P)
    BY DEF MaskOf, Total
  <2>2. PICK P1 : P1 = P \ {"N"}
    OBVIOUS
  <2>3. PICK P2 : P2 = P1 \ {"E"}
    OBVIOUS
  <2>4. PICK P3 : P3 = P2 \ {"S"}
    OBVIOUS
  <2>5. /\ P \in SUBSET D /\ P1 \in SUBSET D /\ P2 \in SUBSET D /\ P3 \in SUBSET D
        /\ P3 \ {"W"} = {} /\ "N" \in D /\ "E" \in D /\ "S" \in D /\ "W" \in D
    BY <1>1, <1>3, <2>2, <2>3, <2>4
  <2>6. /\ "E" \in P1 <=> "E" \in P
        /\ "S" \in P2 <=> "S" \in P
        /\ "W" \in P3 <=> "W" \in P
    BY <2>2, <2>3, <2>4
  <2>7. /\ Total(Bit, P1) \in Int /\ Total(Bit, P2) \in Int /\ Total(Bit, P3) \in Int
        /\ Total(Bit, P3 \ {"W"}) = 0
    BY <1>5, <2>5
  <2>8. Total(Bit, P) = n + Total(Bit, P1)
    BY <1>6, <1>7, <1>8, <2>2, <2>5
  <2>9. Total(Bit, P1) = 2 * e + Total(Bit, P2)
    <3>1. Total(Bit, P1) = (IF "E" \in P1 THEN 2 ELSE 0) + Total(Bit, P2)
      BY <1>6, <1>7, <2>3, <2>5
    <3> QED BY <1>9, <2>6, <3>1
  <2>10. Total(Bit, P2) = 4 * s + Total(Bit, P3)
    <3>1. Total(Bit, P2) = (IF "S" \in P2 THEN 4 ELSE 0) + Total(Bit, P3)
      BY <1>6, <1>7, <2>4, <2>5
    <3> QED BY <1>10, <2>6, <3>1
  <2>11. Total(Bit, P3) = 8 * w
    <3>1. Total(Bit, P3) = (IF "W" \in P3 THEN 8 ELSE 0) + Total(Bit, P3 \ {"W"})
      BY <1>6, <1>7, <2>5
    <3> QED BY <1>11, <2>6, <2>7, <3>1
  <2> QED BY <2>1, <2>7, <2>8, <2>9, <2>10, <2>11
<1>13. PipesIn(MaskOf(P)) = {d \in D : (MaskOf(P) \div Bit[d]) % 2 = 1}
  BY <1>1, <1>3 DEF PipesIn
<1>14. /\ (MaskOf(P) \div 1) % 2 = n /\ (MaskOf(P) \div 2) % 2 = e
       /\ (MaskOf(P) \div 4) % 2 = s /\ (MaskOf(P) \div 8) % 2 = w
  BY <1>12
<1>15. /\ "N" \in PipesIn(MaskOf(P)) <=> "N" \in P
       /\ "E" \in PipesIn(MaskOf(P)) <=> "E" \in P
       /\ "S" \in PipesIn(MaskOf(P)) <=> "S" \in P
       /\ "W" \in PipesIn(MaskOf(P)) <=> "W" \in P
  BY <1>3, <1>7, <1>8, <1>9, <1>10, <1>11, <1>13, <1>14
<1>16. PipesIn(MaskOf(P)) \subseteq D /\ P \subseteq D
  BY <1>1, <1>3, <1>13
<1>17. \A d \in D : d \in PipesIn(MaskOf(P)) <=> d \in P
  BY <1>3, <1>15
<1>18. PipesIn(MaskOf(P)) = P
  BY <1>16, <1>17
<1> QED BY <1>12, <1>18

\* Where a cell is in row-major order.
LEMMA RowMajorAt ==
    ASSUME NEW c \in Cells
    PROVE  /\ c[2] * Width + c[1] + 1 \in DOMAIN RowMajor
           /\ RowMajor[c[2] * Width + c[1] + 1] = c
<1>1. Width \in Nat \ {0}
  BY RulesAssumption
<1>2. PICK x \in 0 .. Width - 1, y \in 0 .. Width - 1 : c = <<x, y>>
  BY DEF Cells
<1>3. PICK z \in Nat : z = Width * y /\ z = y * Width
  BY <1>1
<1>4. PICK n \in Nat : n = Width * Width
  BY <1>1
<1>5. PICK k \in Nat : k = z + x + 1
  OBVIOUS
<1>6. k \in 1 .. n
  <2>1. z <= Width * (Width - 1)
    BY <1>1, <1>3
  <2>2. Width * (Width - 1) = n - Width
    BY <1>1, <1>4
  <2> QED BY <1>1, <1>2, <1>5, <2>1, <2>2
<1>7. (k - 1) % Width = x /\ (k - 1) \div Width = y
  BY <1>1, <1>2, <1>3, <1>5
<1>8. k \in DOMAIN RowMajor /\ RowMajor[k] = <<(k - 1) % Width, (k - 1) \div Width>>
  BY <1>4, <1>6 DEF RowMajor
<1>9. c[2] * Width + c[1] + 1 = k
  BY <1>2, <1>3, <1>5
<1> QED BY <1>2, <1>7, <1>8, <1>9

\* What a player holds is not less than nothing.
LEMMA HeldNatural ==
    ASSUME NEW x, x.count \in [Cells -> Nat], NEW p
    PROVE  Held(x, p) \in Nat
<1>1. PICK m : m = [c \in Cells |-> Mine(x, p, c)]
  OBVIOUS
<1>2. m \in [Cells -> Nat] /\ Held(x, p) = Total(m, Cells)
  BY <1>1, HeldTotal
<1>3. PICK z : z = [c \in Cells |-> IF c \in {} THEN m[c] ELSE 0]
  OBVIOUS
<1>4. m \in [Cells -> Int] /\ z \in [Cells -> Int] /\ {} \in SUBSET Cells /\ Cells \in SUBSET Cells
  BY <1>2, <1>3
<1>5. Total(m, {}) = Total(z, Cells)
  BY <1>3, <1>4, CellsFinite, TotalOfPart
<1>6. Total(m, {}) = 0 /\ Total(m, Cells) \in Int
  BY <1>4, CellsFinite, TotalTakes
<1>7. \A c \in Cells : z[c] <= m[c] + (IF c \in {} THEN 0 ELSE 0)
  BY <1>2, <1>3
<1>8. Total(z, Cells) <= Total(m, Cells) + 0 * Cardinality(Cells \cap {})
  BY <1>4, <1>7, CellsFinite, TotalBelow
<1>9. Cells \cap {} = {} /\ Cardinality({}) = 0
  BY FS_EmptySet
<1> QED BY <1>2, <1>5, <1>6, <1>8, <1>9

\* Nor are a player's cities.
LEMMA CityCountNatural ==
    ASSUME NEW x, NEW p
    PROVE  CityCount(x, p) \in Nat
<1>1. PICK S : S = {c \in Cells : x.city[c] = p}
  OBVIOUS
<1>2. IsFiniteSet(S)
  BY <1>1, CellsFinite, FS_Subset
<1>3. Cardinality(S) \in Nat
  BY <1>2, FS_CardinalityType
<1> QED BY <1>1, <1>3 DEF CityCount

\* The records of the players hold numbers.
RecordsCount ==
    \A p \in Bytes(world) : world.players[p].cities \in Nat /\ world.players[p].troops \in Nat

LEMMA RecordsKept == Spec => []RecordsCount
<1>1. Init => RecordsCount
  <2> SUFFICES ASSUME Init PROVE RecordsCount
    OBVIOUS
  <2>1. PICK s \in Scenarios : world = CreateWorld(s)
    BY DEF Init
  <2>2. DOMAIN s.ids = Bytes(world)
    <3>1. s.ids \in Seq(Int)
      BY MenuAssumption DEF Scenarios
    <3>2. world.scenario = s
      BY <2>1 DEF CreateWorld
    <3> QED BY <3>1, <3>2 DEF Bytes
  <2>3. \A p \in DOMAIN s.ids : \E x : world.players[p].cities = CityCount(x, p)
                                     /\ world.players[p].troops = 0
    BY <2>1 DEF CreateWorld
  <2> QED BY <2>2, <2>3, CityCountNatural DEF RecordsCount
<1>2. RecordsCount /\ Sound /\ Sound' /\ [Next]_vars => RecordsCount'
  <2> SUFFICES ASSUME RecordsCount, Sound, Sound', [Next]_vars PROVE RecordsCount'
    OBVIOUS
  <2>1. WorldShape
    BY DEF Sound
  <2>2. CASE world' = world
    BY <2>2 DEF RecordsCount, Bytes
  <2>3. ASSUME NEW q, world' = [world EXCEPT !.players[q].status = "eliminated"]
        PROVE  RecordsCount'
    <3>1. /\ Bytes(world)' = Bytes(world)
          /\ \A p \in Bytes(world) :
                /\ world'.players[p].cities = world.players[p].cities
                /\ world'.players[p].troops = world.players[p].troops
      BY <2>1, <2>3, EliminatedShape
    <3> QED BY <3>1 DEF RecordsCount
  <2>4. ASSUME NEW s, NEW flow, world' = Settled(world, Combat(world, s, flow))
        PROVE  RecordsCount'
    <3>1. PICK f : f = Decay(Capture(Combat(world, s, flow)))
      OBVIOUS
    <3>2. /\ world'.state = f /\ world'.players = Standing(world, f)
          /\ Bytes(world)' = Bytes(world)
      BY <2>1, <2>4, <3>1, SettledShape
    <3>3. f.count \in [Cells -> Nat]
      BY <3>2, BoardCounts DEF Sound
    <3>4. \A p \in Bytes(world) :
            /\ world'.players[p].troops = Held(f, p)
            /\ world'.players[p].cities = CityCount(f, p)
      BY <3>2 DEF Standing
    <3> QED BY <3>2, <3>3, <3>4, HeldNatural, CityCountNatural DEF RecordsCount
  <2> QED BY <2>1, <2>2, <2>3, <2>4, StepShape
<1> QED BY <1>1, <1>2, SoundKept, PTL DEF Spec

\* What is below a number that fits four bytes fits them.
LEMMA FitsBelow ==
    ASSUME NEW m \in Nat, FitsU32(m), NEW n \in 0 .. m
    PROVE  FitsU32(n)
BY DEF FitsU32

\* A table in order that has the ids where their ranks are,
OrderedTable(table, ids, n) ==
    /\ table \in Seq(Int) /\ Len(table) = n
    /\ \A i \in 1 .. n - 1 : table[i] < table[i + 1]
    /\ \A k \in 1 .. n : Dense(ids, ids[k]) \in 1 .. n /\ table[Dense(ids, ids[k])] = ids[k]
    /\ \A i \in 1 .. n : \E k \in 1 .. n : Dense(ids, ids[k]) = i

\* as that of a world is.
LEMMA TableOrdered ==
    ASSUME NEW w, NEW ids \in Seq(Int), IsInjective(ids), w.scenario.ids = ids,
           NEW n, n = Len(ids), NEW table, table = Table(w)
    PROVE  OrderedTable(table, ids, n)
<1>1. /\ n \in Nat /\ DOMAIN ids = 1 .. n
      /\ \A k \in 1 .. n : ids[k] \in ToSet(ids)
      /\ \A id \in ToSet(ids) : id \in Int /\ \E k \in 1 .. n : ids[k] = id
  BY DEF ToSet
<1>2. /\ \A id \in ToSet(ids) : Dense(ids, id) \in 1 .. n
      /\ \A i \in 1 .. n : \E id \in ToSet(ids) : Dense(ids, id) = i
      /\ \A a, b \in ToSet(ids) : Dense(ids, a) = Dense(ids, b) => a = b
      /\ \A a, b \in ToSet(ids) : a < b => Dense(ids, a) < Dense(ids, b)
  BY Ranked
<1>3. table = [i \in 1 .. n |-> CHOOSE id \in ToSet(ids) : Dense(ids, id) = i]
  BY <1>1 DEF Table
<1>4. \A i \in 1 .. n : table[i] \in ToSet(ids) /\ Dense(ids, table[i]) = i
  BY <1>2, <1>3
<1>5. table \in Seq(Int) /\ Len(table) = n
  <2>1. table \in [1 .. n -> Int]
    BY <1>1, <1>3, <1>4
  <2>2. \A f \in [1 .. n -> Int] : f \in Seq(Int) /\ Len(f) = n
    BY <1>1
  <2> QED BY <2>1, <2>2
<1>6. ASSUME NEW i \in 1 .. n - 1
      PROVE  table[i] < table[i + 1]
  <2>1. PICK j \in 1 .. n : j = i + 1
    BY <1>1
  <2>2. i \in 1 .. n /\ i < j /\ ~(j < i) /\ i # j
    BY <1>1, <2>1
  <2>3. table[i] \in Int /\ table[j] \in Int /\ table[i] \in ToSet(ids) /\ table[j] \in ToSet(ids)
    BY <1>1, <1>4, <2>2
  <2>4. ~(table[j] < table[i]) /\ table[i] # table[j]
    BY <1>2, <1>4, <2>2, <2>3
  <2>5. table[i] < table[j]
    BY <2>3, <2>4
  <2> QED BY <2>1, <2>5
<1>7. ASSUME NEW k \in 1 .. n
      PROVE  Dense(ids, ids[k]) \in 1 .. n /\ table[Dense(ids, ids[k])] = ids[k]
  <2>1. PICK r : r = Dense(ids, ids[k])
    OBVIOUS
  <2>2. r \in 1 .. n
    BY <1>1, <1>2, <2>1
  <2>3. Dense(ids, table[r]) = r /\ table[r] \in ToSet(ids)
    BY <1>4, <2>2
  <2> QED BY <1>1, <1>2, <2>1, <2>2, <2>3
<1>8. \A i \in 1 .. n : \E k \in 1 .. n : Dense(ids, ids[k]) = i
  <2> TAKE i \in 1 .. n
  <2>1. PICK id \in ToSet(ids) : Dense(ids, id) = i
    BY <1>2
  <2>2. PICK k \in 1 .. n : ids[k] = id
    BY <1>1
  <2> QED BY <2>1, <2>2
<1> QED BY <1>5, <1>6, <1>7, <1>8 DEF OrderedTable

\* What is in the fields of the image of a world.
Encodes(image, w) ==
    /\ image.size = U8(Width) /\ image.tick = U32(w.tick)
    /\ image.table = Table(w) /\ image.slots = SlotOrder(w)
    /\ DOMAIN image.players = Bytes(w)
    /\ \A p \in Bytes(w) :
          /\ image.players[p].status = StatusByte[w.players[p].status]
          /\ image.players[p].cities = U8(w.players[p].cities)
          /\ image.players[p].troops = U32(w.players[p].troops)
    /\ image.cities = {e \in Cells \X DOMAIN w.scenario.ids : e[1] \in w.scenario.cities[e[2]]}
    /\ DOMAIN image.cells = DOMAIN RowMajor
    /\ \A k \in DOMAIN RowMajor :
          /\ image.cells[k].count = U32(w.state.count[RowMajor[k]])
          /\ image.cells[k].owner = w.state.owner[RowMajor[k]]
          /\ image.cells[k].pipes = MaskOf(w.state.pipes[RowMajor[k]])
          /\ image.cells[k].reserves = w.state.reserves[RowMajor[k]]
          /\ image.cells[k].city = w.state.city[RowMajor[k]]
          /\ image.cells[k].elevation = U8(w.scenario.elevation[RowMajor[k]])
          /\ image.cells[k].water = IF RowMajor[k] \in w.scenario.water THEN 1 ELSE 0

LEMMA ImageHolds ==
    ASSUME NEW w, NEW image, image = Serialize(w)
    PROVE  Encodes(image, w)
<1>1. image = Serialize(w)
  OBVIOUS
<1>2. /\ image.size = U8(Width) /\ image.tick = U32(w.tick)
      /\ image.table = Table(w) /\ image.slots = SlotOrder(w)
  BY <1>1 DEF Serialize
<1>3. /\ DOMAIN image.players = Bytes(w)
      /\ \A p \in Bytes(w) :
            /\ image.players[p].status = StatusByte[w.players[p].status]
            /\ image.players[p].cities = U8(w.players[p].cities)
            /\ image.players[p].troops = U32(w.players[p].troops)
  BY <1>1 DEF Serialize
<1>4. image.cities = {e \in Cells \X DOMAIN w.scenario.ids : e[1] \in w.scenario.cities[e[2]]}
  BY <1>1 DEF Serialize
<1>5. /\ DOMAIN image.cells = DOMAIN RowMajor
      /\ \A k \in DOMAIN RowMajor :
            /\ image.cells[k].count = U32(w.state.count[RowMajor[k]])
            /\ image.cells[k].owner = w.state.owner[RowMajor[k]]
            /\ image.cells[k].pipes = MaskOf(w.state.pipes[RowMajor[k]])
            /\ image.cells[k].reserves = w.state.reserves[RowMajor[k]]
            /\ image.cells[k].city = w.state.city[RowMajor[k]]
            /\ image.cells[k].elevation = U8(w.scenario.elevation[RowMajor[k]])
            /\ image.cells[k].water = IF RowMajor[k] \in w.scenario.water THEN 1 ELSE 0
  BY <1>1 DEF Serialize
<1> QED BY <1>2, <1>3, <1>4, <1>5 DEF Encodes

\* The image of a world that can be written is one that can be read.
LEMMA ImageWellFormed ==
    ASSUME Sound, NEW image, image = Serialize(world)
    PROVE  WellFormed(image)
<1>1. Encodes(image, world)
  BY ImageHolds
<1>2. PICK s : s = world.scenario /\ s \in Scenarios
  BY DEF Sound
<1>3. PICK n \in Nat : n = Len(s.ids)
  BY <1>2, MenuAssumption DEF Scenarios
<1>4. /\ s.ids \in Seq(Int) /\ n \in 2 .. 4 /\ IsInjective(s.ids) /\ DOMAIN s.ids = 1 .. n
      /\ Bytes(world) = 1 .. n
  BY <1>2, <1>3, MenuAssumption DEF Scenarios, Bytes
<1>5. PICK table : table = Table(world)
  OBVIOUS
<1>6. world.scenario.ids = s.ids /\ s.ids \in Seq(Int) /\ IsInjective(s.ids)
  BY <1>2, <1>4
<1>7. /\ Len(table) = n
      /\ \A i \in 1 .. n - 1 : table[i] < table[i + 1]
      /\ \A k \in 1 .. n : Dense(s.ids, s.ids[k]) \in 1 .. n
      /\ \A i \in 1 .. n : \E k \in 1 .. n : Dense(s.ids, s.ids[k]) = i
  <2>1. OrderedTable(table, s.ids, n)
    BY <1>3, <1>5, <1>6, TableOrdered
  <2> QED BY <2>1 DEF OrderedTable
<1>8. {image.slots[k] : k \in DOMAIN image.slots} = 0 .. n - 1
  <2>1. image.slots = [k \in 1 .. n |-> Dense(s.ids, s.ids[k]) - 1]
    BY <1>1, <1>2, <1>4 DEF Encodes, SlotOrder
  <2>2. ASSUME NEW j \in 0 .. n - 1 PROVE \E k \in 1 .. n : image.slots[k] = j
    <3>1. PICK i \in 1 .. n : i = j + 1
      OBVIOUS
    <3>2. PICK k \in 1 .. n : Dense(s.ids, s.ids[k]) = i
      BY <1>7
    <3>3. image.slots[k] = j
      BY <2>1, <3>1, <3>2
    <3> QED BY <3>3
  <2>3. ASSUME NEW k \in 1 .. n PROVE image.slots[k] \in 0 .. n - 1
    <3>1. PICK i \in 1 .. n : i = Dense(s.ids, s.ids[k])
      BY <1>7
    <3>2. image.slots[k] = i - 1
      BY <2>1, <3>1
    <3> QED BY <3>2
  <2>4. DOMAIN image.slots = 1 .. n
    BY <2>1
  <2> QED BY <2>2, <2>3, <2>4
<1>9. \A i \in DOMAIN image.players : image.players[i].status \in 1 .. 3
  <2> TAKE i \in DOMAIN image.players
  <2>1. i \in Bytes(world) /\ image.players[i].status = StatusByte[world.players[i].status]
    BY <1>1 DEF Encodes
  <2>2. world.players[i].status \in {"alive", "eliminated"}
    BY <2>1 DEF Sound
  <2> QED BY <2>1, <2>2 DEF StatusByte
<1>10. \A e \in image.cities : e[2] \in 1 .. n
  <2>1. image.cities = {e \in Cells \X DOMAIN s.ids : e[1] \in s.cities[e[2]]}
    BY <1>1, <1>2 DEF Encodes
  <2> QED BY <1>4, <2>1
<1>11. ASSUME NEW k \in DOMAIN image.cells
       PROVE  /\ image.cells[k].owner <= n /\ image.cells[k].city <= n
              /\ image.cells[k].pipes <= 15 /\ image.cells[k].reserves <= 9
  <2>1. k \in DOMAIN RowMajor
    BY <1>1 DEF Encodes
  <2>2. PICK c \in Cells : c = RowMajor[k]
    BY <2>1, RowMajorCells
  <2>3. /\ image.cells[k].owner = world.state.owner[c] /\ image.cells[k].city = world.state.city[c]
        /\ image.cells[k].pipes = MaskOf(world.state.pipes[c])
        /\ image.cells[k].reserves = world.state.reserves[c]
    BY <1>1, <2>1, <2>2 DEF Encodes
  <2>4. /\ world.state.owner[c] \in 0 .. n /\ world.state.city[c] \in 0 .. n
        /\ world.state.pipes[c] \in SUBSET DOMAIN Offset /\ world.state.reserves[c] \in 0 .. 9
    BY <1>2, <1>3, BoardIs DEF Sound
  <2>5. MaskOf(world.state.pipes[c]) \in 0 .. 15
    BY <2>4, MaskBack
  <2> QED BY <2>3, <2>4, <2>5
<1>12. image.table = table
  BY <1>1, <1>5 DEF Encodes
<1> QED BY <1>4, <1>7, <1>8, <1>9, <1>10, <1>11, <1>12 DEF WellFormed

\* The fields of a cell, read where they were written.
LEMMA CellBack ==
    ASSUME Sound, Width <= 255, NEW image, image = Serialize(world), NEW c \in Cells,
           NEW cell, cell = image.cells[c[2] * image.size + c[1] + 1]
    PROVE  /\ cell.elevation = world.scenario.elevation[c]
           /\ cell.water = 1 <=> c \in world.scenario.water
           /\ ReadU32(cell.count) = world.state.count[c]
           /\ cell.owner = world.state.owner[c]
           /\ PipesIn(cell.pipes) = world.state.pipes[c]
           /\ cell.reserves = world.state.reserves[c]
           /\ cell.city = world.state.city[c]
<1>1. Encodes(image, world)
  BY ImageHolds
<1>2. image.size = Width
  <2>1. Width \in Nat
    BY RulesAssumption
  <2> QED BY <1>1, <2>1 DEF Encodes, U8
<1>3. PICK k : k = c[2] * Width + c[1] + 1
  OBVIOUS
<1>4. k \in DOMAIN RowMajor /\ RowMajor[k] = c
  BY <1>3, RowMajorAt
<1>5. /\ cell.count = U32(world.state.count[c]) /\ cell.owner = world.state.owner[c]
      /\ cell.pipes = MaskOf(world.state.pipes[c])
      /\ cell.reserves = world.state.reserves[c] /\ cell.city = world.state.city[c]
      /\ cell.elevation = U8(world.scenario.elevation[c])
      /\ cell.water = IF c \in world.scenario.water THEN 1 ELSE 0
  <2>1. cell = image.cells[k]
    BY <1>2, <1>3
  <2> QED BY <1>1, <1>4, <2>1 DEF Encodes
<1>6. U8(world.scenario.elevation[c]) = world.scenario.elevation[c]
  <2>1. world.scenario.elevation[c] \in 0 .. 255
    BY MenuAssumption DEF Sound, Scenarios
  <2> QED BY <2>1 DEF U8
<1>7. /\ world.state.count[c] \in 0 .. CellCapacity
      /\ world.state.pipes[c] \in SUBSET DOMAIN Offset
  BY BoardIs DEF Sound
<1>8. ReadU32(U32(world.state.count[c])) = world.state.count[c]
  <2>1. FitsU32(world.state.count[c])
    BY <1>7, FieldsAssumption, RulesAssumption, FitsBelow
  <2> QED BY <1>7, <2>1, RulesAssumption, BytesBack
<1>9. PipesIn(MaskOf(world.state.pipes[c])) = world.state.pipes[c]
  BY <1>7, MaskBack
<1> QED BY <1>5, <1>6, <1>8, <1>9

\* A world that can be written is read as it was.
LEMMA ImageBack ==
    ASSUME Sound, RecordsCount, Encodable(world)
    PROVE  Deserialize(Serialize(world)) = world
<1>1. PICK s : s = world.scenario /\ s \in Scenarios
  BY DEF Sound
<1>2. PICK n \in Nat : n = Len(s.ids)
  BY <1>1, MenuAssumption DEF Scenarios
<1>3. /\ s.ids \in Seq(Int) /\ IsInjective(s.ids) /\ DOMAIN s.ids = 1 .. n
      /\ s = [ids |-> s.ids, elevation |-> s.elevation, water |-> s.water, cities |-> s.cities]
      /\ s.water \subseteq Cells /\ s.elevation \in [Cells -> 0 .. 255]
      /\ s.cities \in [1 .. n -> SUBSET (Cells \ s.water)]
      /\ Bytes(world) = 1 .. n
  <2>1. s \in DOMAIN Menu
    BY <1>1 DEF Scenarios
  <2>2. /\ s = [ids |-> s.ids, elevation |-> s.elevation, water |-> s.water, cities |-> s.cities]
        /\ s.ids \in Seq(Int) /\ IsInjective(s.ids)
        /\ s.water \subseteq Cells /\ s.elevation \in [Cells -> 0 .. 255]
        /\ s.cities \in [DOMAIN s.ids -> SUBSET (Cells \ s.water)]
    BY <2>1, MenuAssumption
  <2>3. DOMAIN s.ids = 1 .. n
    BY <1>2, <2>2
  <2>4. Bytes(world) = 1 .. n
    BY <1>1, <1>2 DEF Bytes
  <2> QED BY <2>2, <2>3, <2>4
<1>4. PICK image : image = Serialize(world)
  OBVIOUS
<1>5. Encodes(image, world)
  BY <1>4, ImageHolds
<1>6. WellFormed(image)
  BY <1>4, ImageWellFormed
<1> DEFINE cell(c) == image.cells[c[2] * image.size + c[1] + 1]
<1>7. Width <= 255
  BY DEF Encodable
<1>8. \A c \in Cells :
         /\ cell(c).elevation = s.elevation[c]
         /\ cell(c).water = 1 <=> c \in s.water
         /\ ReadU32(cell(c).count) = world.state.count[c]
         /\ cell(c).owner = world.state.owner[c]
         /\ PipesIn(cell(c).pipes) = world.state.pipes[c]
         /\ cell(c).reserves = world.state.reserves[c]
         /\ cell(c).city = world.state.city[c]
  BY <1>1, <1>4, <1>7, CellBack
<1> HIDE DEF cell
<1>9. PICK ids : ids = [k \in DOMAIN image.slots |-> image.table[image.slots[k] + 1]]
  OBVIOUS
<1>10. ids = s.ids
  <2>1. image.slots = [k \in 1 .. n |-> Dense(s.ids, s.ids[k]) - 1]
    BY <1>5, <1>1, <1>3 DEF Encodes, SlotOrder
  <2>2. PICK table : table = Table(world)
    OBVIOUS
  <2>3. \A k \in 1 .. n : /\ Dense(s.ids, s.ids[k]) \in 1 .. n
                          /\ table[Dense(s.ids, s.ids[k])] = s.ids[k]
    <3>1. world.scenario.ids = s.ids /\ s.ids \in Seq(Int) /\ IsInjective(s.ids)
      BY <1>1, <1>3
    <3>2. OrderedTable(table, s.ids, n)
      BY <1>2, <2>2, <3>1, TableOrdered
    <3> QED BY <3>2 DEF OrderedTable
  <2>4. image.table = table
    BY <1>5, <2>2 DEF Encodes
  <2>5. \A k \in 1 .. n : image.slots[k] + 1 = Dense(s.ids, s.ids[k])
    <3> TAKE k \in 1 .. n
    <3>1. PICK d \in Int : d = Dense(s.ids, s.ids[k])
      BY <2>3
    <3>2. image.slots[k] = d - 1
      BY <2>1, <3>1
    <3> QED BY <3>1, <3>2
  <2>6. ids = [k \in 1 .. n |-> s.ids[k]]
    BY <1>9, <2>1, <2>3, <2>4, <2>5
  <2>7. s.ids = [k \in 1 .. n |-> s.ids[k]]
    BY <1>2, <1>3
  <2> QED BY <2>6, <2>7
<1>11. /\ [c \in Cells |-> cell(c).elevation] = s.elevation
       /\ {c \in Cells : cell(c).water = 1} = s.water
  BY <1>3, <1>8
<1>12. [k \in DOMAIN ids |-> {c \in Cells : <<c, k>> \in image.cities}] = s.cities
  <2>1. image.cities = {e \in Cells \X (1 .. n) : e[1] \in s.cities[e[2]]}
    BY <1>5, <1>1, <1>3 DEF Encodes
  <2>2. ASSUME NEW k \in 1 .. n
        PROVE  {c \in Cells : <<c, k>> \in image.cities} = s.cities[k]
    <3>1. \A c \in Cells : <<c, k>> \in image.cities <=> c \in s.cities[k]
      BY <2>1
    <3>2. s.cities[k] \subseteq Cells
      BY <1>3
    <3> QED BY <3>1, <3>2
  <2>3. DOMAIN ids = 1 .. n
    BY <1>3, <1>10
  <2> QED BY <1>3, <2>2, <2>3
<1>13. ReadU32(image.tick) = world.tick
  <2>1. world.tick \in 0 .. MaxTick
    BY RulesAssumption DEF Sound, WorldShape
  <2>2. FitsU32(world.tick)
    BY <2>1, FieldsAssumption, RulesAssumption, FitsBelow
  <2>3. ReadU32(U32(world.tick)) = world.tick
    BY <2>1, <2>2, RulesAssumption, BytesBack
  <2> QED BY <1>5, <2>3 DEF Encodes
<1>14. /\ [c \in Cells |-> ReadU32(cell(c).count)] = world.state.count
       /\ [c \in Cells |-> cell(c).owner] = world.state.owner
       /\ [c \in Cells |-> PipesIn(cell(c).pipes)] = world.state.pipes
       /\ [c \in Cells |-> cell(c).reserves] = world.state.reserves
       /\ [c \in Cells |-> cell(c).city] = world.state.city
  <2>1. /\ world.state.count = [c \in Cells |-> world.state.count[c]]
        /\ world.state.owner = [c \in Cells |-> world.state.owner[c]]
        /\ world.state.pipes = [c \in Cells |-> world.state.pipes[c]]
        /\ world.state.reserves = [c \in Cells |-> world.state.reserves[c]]
        /\ world.state.city = [c \in Cells |-> world.state.city[c]]
    BY BoardIs DEF Sound
  <2> QED BY <1>8, <2>1
<1> DEFINE status(b) == CHOOSE x \in DOMAIN StatusByte : StatusByte[x] = b
<1>15. ASSUME NEW p \in Bytes(world)
       PROVE  /\ status(image.players[p].status) = world.players[p].status
              /\ image.players[p].cities = world.players[p].cities
              /\ ReadU32(image.players[p].troops) = world.players[p].troops
  <2>1. /\ image.players[p].status = StatusByte[world.players[p].status]
        /\ image.players[p].cities = U8(world.players[p].cities)
        /\ image.players[p].troops = U32(world.players[p].troops)
    BY <1>5 DEF Encodes
  <2>2. /\ world.players[p].cities \in 0 .. 255
        /\ world.players[p].troops \in Nat /\ FitsU32(world.players[p].troops)
    <3>1. world.players[p].cities \in Nat /\ world.players[p].troops \in Nat
      BY DEF RecordsCount
    <3>2. world.players[p].cities <= 255 /\ FitsU32(world.players[p].troops)
      BY DEF Encodable
    <3> QED BY <3>1, <3>2
  <2>3. status(StatusByte[world.players[p].status]) = world.players[p].status
    <3>1. world.players[p].status \in {"alive", "eliminated"}
      BY DEF Sound
    <3>2. /\ DOMAIN StatusByte = {"alive", "surrendered", "eliminated"}
          /\ StatusByte["alive"] = 1 /\ StatusByte["surrendered"] = 2 /\ StatusByte["eliminated"] = 3
      BY DEF StatusByte
    <3>3. \A x, y \in DOMAIN StatusByte : StatusByte[x] = StatusByte[y] => x = y
      BY <3>2
    <3>4. world.players[p].status \in DOMAIN StatusByte
      BY <3>1, <3>2
    <3> QED BY <3>3, <3>4
  <2>4. U8(world.players[p].cities) = world.players[p].cities
    BY <2>2 DEF U8
  <2>5. ReadU32(U32(world.players[p].troops)) = world.players[p].troops
    BY <2>2, BytesBack
  <2> QED BY <2>1, <2>3, <2>4, <2>5
<1> HIDE DEF status
<1>16. [i \in DOMAIN image.players |->
          [status |-> status(image.players[i].status),
           cities |-> image.players[i].cities,
           troops |-> ReadU32(image.players[i].troops)]] = world.players
  <2>1. DOMAIN image.players = Bytes(world)
    BY <1>5 DEF Encodes
  <2>2. /\ world.players = [p \in Bytes(world) |-> world.players[p]]
        /\ \A p \in Bytes(world) :
              world.players[p] = [status |-> world.players[p].status,
                                  cities |-> world.players[p].cities,
                                  troops |-> world.players[p].troops]
    BY DEF Sound, WorldShape
  <2> QED BY <1>15, <2>1, <2>2
<1>17. PICK scenario : scenario =
         [ids       |-> ids,
          elevation |-> [c \in Cells |-> cell(c).elevation],
          water     |-> {c \in Cells : cell(c).water = 1},
          cities    |-> [k \in DOMAIN ids |-> {c \in Cells : <<c, k>> \in image.cities}]]
  OBVIOUS
<1>18. scenario = s
  BY <1>3, <1>10, <1>11, <1>12, <1>17
<1>19. PICK state : state =
         [count    |-> [c \in Cells |-> ReadU32(cell(c).count)],
          owner    |-> [c \in Cells |-> cell(c).owner],
          pipes    |-> [c \in Cells |-> PipesIn(cell(c).pipes)],
          reserves |-> [c \in Cells |-> cell(c).reserves],
          city     |-> [c \in Cells |-> cell(c).city]]
  OBVIOUS
<1>20. state = world.state
  <2>1. world.state = [count |-> world.state.count, owner |-> world.state.owner,
                       pipes |-> world.state.pipes, reserves |-> world.state.reserves,
                       city |-> world.state.city]
    BY BoardIs DEF Sound
  <2> QED BY <1>14, <1>19, <2>1
<1>21. PICK players : players =
         [i \in DOMAIN image.players |->
            [status |-> status(image.players[i].status),
             cities |-> image.players[i].cities,
             troops |-> ReadU32(image.players[i].troops)]]
  OBVIOUS
<1>22. Deserialize(image) = [scenario |-> scenario, tick |-> ReadU32(image.tick),
                             state |-> state, players |-> players]
  BY <1>6, <1>9, <1>17, <1>19, <1>21 DEF Deserialize, cell, status
<1>23. world = [scenario |-> world.scenario, tick |-> world.tick,
                state |-> world.state, players |-> world.players]
  BY DEF Sound, WorldShape
<1> QED BY <1>1, <1>4, <1>13, <1>16, <1>18, <1>20, <1>21, <1>22, <1>23

\* A recorded match, played again from its orders alone, ends in the same world, and
\* that world is read from its image as it was written, on every board, for every
\* rule and for whatever was ordered (replayMatch, serializeWorld, deserializeWorld).
THEOREM ReplayKept == RecordSpec => []ReplayMatches
<1>1. LogTells /\ Sound /\ RecordsCount => ReplayMatches
  <2> SUFFICES ASSUME LogTells, Sound, RecordsCount, Recorded, played = world.tick
               PROVE  /\ copy.world = world
                      /\ Encodable(copy.world) => Deserialize(Serialize(copy.world)) = world
    BY DEF ReplayMatches
  <2>1. copy.world = world
    BY ReplayEnds DEF Match
  <2> QED BY <2>1, ImageBack
<1> QED BY <1>1, LogKept, SoundKept, RecordsKept, RecordPlays, PTL

=============================================================================
