------------------------------ MODULE Terrain ------------------------------
(***************************************************************************)
(* The board of a match (packages/terrain): smoothing, water, cities, the  *)
(* turn by half a circle that makes it fair, the validator, and the retry  *)
(* loop around them.  The noise under the elevations is an input, and an   *)
(* accepted board becomes a scenario that Engine plays.                    *)
(*                                                                         *)
(* A ratio of water is a percentage, and a city is [cell, owner] with the  *)
(* placement slot of its owner.                                            *)
(***************************************************************************)
EXTENDS Engine

CONSTANTS
    Safe,           \* the safe range <<least, most>> of each setting
    MinWaterPool,   \* MIN_WATER_POOL_SIZE
    Requests        \* [ids, settings, noise]: noise has a map for each attempt

----------------------------------------------------------------------------
(* Settings *)

ClampInt(v, range) ==
    IF v < range[1] THEN range[1] ELSE IF v > range[2] THEN range[2] ELSE v

ClampSettings(s) == [f \in DOMAIN s |-> ClampInt(s[f], Safe[f])]

\* The middle one of three bands is its own partner: its cities come in pairs.
NormalizeSettings(s, n) ==
    [s EXCEPT !.citiesPerPlayer = IF n = 3 /\ @ % 2 # 0 THEN @ + 1 ELSE @]

\* generateBoard and createWorld refuse any other request; there is noise for
\* every attempt.
ASSUME RequestsAssumption ==
    /\ {"citiesPerPlayer", "maxRegenAttempts"} \subseteq DOMAIN Safe
    /\ \A f \in DOMAIN Safe : Safe[f] \in Nat \X Nat
    /\ \A r \in Requests :
          /\ r.ids \in Seq(Int) /\ Len(r.ids) \in 2 .. 4
          /\ r.settings \in [DOMAIN Safe -> Int]
          /\ r.noise \in Seq([Cells -> Int])
          /\ ClampSettings(r.settings).maxRegenAttempts <= Len(r.noise)

----------------------------------------------------------------------------
(* Elevation and water *)

Rotate(c) == <<Width - 1 - c[1], Width - 1 - c[2]>>

\* The order in which the code walks the cells.
Precedes(a, b) == a[2] < b[2] \/ (a[2] = b[2] /\ a[1] <= b[1])

\* The one of a cell and its partner that is walked first.
FirstOf(c) == IF Precedes(c, Rotate(c)) THEN c ELSE Rotate(c)

\* The mirroring is in place: the cell walked first overwrites its partner.
EnforcePointSymmetry(noise) == [c \in Cells |-> noise[FirstOf(c)]]

SmoothPass(elev) ==
    LET inside(v) == ClampInt(v, <<0, Width - 1>>)
        sum(c) == MapThenSumSet(LAMBDA d : elev[<<inside(c[1] + d[1]), inside(c[2] + d[2])>>],
                                (-1 .. 1) \X (-1 .. 1))
    IN  [c \in Cells |-> (sum(c) + 4) \div 9]

SmoothElevation(elev, passes) ==
    LET after[k \in 0 .. passes] == IF k = 0 THEN elev ELSE SmoothPass(after[k - 1])
    IN  after[passes]

\* The pairs of partners in ascending order of height, ties as they are walked.
LowerPair(elev, a, b) ==
    LET height(c) == -Least(-elev[c], -elev[Rotate(c)])
    IN  height(a) < height(b) \/ (height(a) = height(b) /\ a # b /\ Precedes(a, b))

\* Half as many pairs as cells are asked for, one more when that number is odd.
ExtractWater(elev, percent) ==
    LET asked == (percent * Width * Width) \div 100
        pairs == {c \in Cells : c = FirstOf(c)}
        lower(p) == {q \in pairs : LowerPair(elev, q, p)}
    IN  UNION {{p, Rotate(p)} : p \in {q \in pairs : Cardinality(lower(q)) < (asked + 1) \div 2}}

----------------------------------------------------------------------------
(* Cities *)

\* A band is inclusive on both ends.
Within(c, band) == /\ band.x[1] <= c[1] /\ c[1] <= band.x[2]
                   /\ band.y[1] <= c[2] /\ c[2] <= band.y[2]

GetPlayerBand(slot, n) ==
    LET half == Width \div 2
        third == Width \div 3
        low == <<0, half - 1>>
        high == <<half, Width - 1>>
        all == <<0, Width - 1>>
        layer == CASE slot = 1 -> <<0, third - 1>>
                   [] slot = 3 -> <<Width - third, Width - 1>>
                   [] OTHER    -> <<third, Width - third - 1>>
    IN  CASE n = 2 -> [x |-> all, y |-> IF slot = 1 THEN low ELSE high]
          [] n = 3 -> [x |-> all, y |-> layer]
          [] OTHER -> [x |-> IF slot \in {1, 3} THEN low ELSE high,
                       y |-> IF slot \in {1, 2} THEN low ELSE high]

PartnerPlayerAcross(slot, n) == IF n = 4 THEN ((slot + 1) % 4) + 1 ELSE n + 1 - slot
PartnerPlayer(slot, n) == n + 1 - slot

\* Twice the Chebyshev distance to the centre of the band.
OffCentre(c, band) ==
    -Least(-Abs(2 * c[1] - band.x[1] - band.x[2]), -Abs(2 * c[2] - band.y[1] - band.y[2]))

\* The land of a band from its rim inwards, or all of that in reverse.
Candidates(band, water, mirrorAware) ==
    LET land == {c \in Cells \ water : Within(c, band)}
        further(a, b) == \/ OffCentre(a, band) > OffCentre(b, band)
                         \/ OffCentre(a, band) = OffCentre(b, band) /\ a # b /\ Precedes(a, b)
        before(c) == {d \in land : IF mirrorAware THEN further(c, d) ELSE further(d, c)}
    IN  [k \in 1 .. Cardinality(land) |-> CHOOSE c \in land : 1 + Cardinality(before(c)) = k]

\* Both water distances; the fields of the code are -1 on a board without water.
DryEnough(c, water, s) ==
    /\ water # {}
    /\ \A w \in water : /\ Chebyshev(c, w) >= s.minCityWaterDistance
                        /\ Abs(c[1] - w[1]) + Abs(c[2] - w[2]) > s.minCityWaterDistance

PlaceCitiesInBand(band, water, s, count, existing, mirrorAware) ==
    LET candidates == Candidates(band, water, mirrorAware)
        mirrors(cells) == IF mirrorAware THEN {Rotate(c) : c \in cells} ELSE {}
        spaced(c, others) ==
            \A o \in others : Chebyshev(c, o) >= s.minCityCityDistance
        strict(picked, c) ==
            IF /\ Cardinality(picked) < count
               /\ DryEnough(c, water, s)
               /\ mirrorAware => Rotate(c) # c
               /\ spaced(c, mirrors({c}) \cup picked \cup mirrors(picked) \cup existing)
            THEN picked \cup {c} ELSE picked
        any(picked, c) ==
            IF Cardinality(picked) < count THEN picked \cup {c} ELSE picked
    IN  FoldLeft(any, FoldLeft(strict, {}, candidates), candidates)

EnforceCitySymmetry(placed, n) ==
    placed \cup {[cell |-> Rotate(c.cell), owner |-> PartnerPlayer(c.owner, n)] : c \in placed}

\* Cities of the first slots; the others get theirs by the turn.
PlacedCities(water, s, n) ==
    LET band(slot) == GetPlayerBand(slot, n)
        own == n = 3
        first == PlaceCitiesInBand(band(1), water, s, s.citiesPerPlayer, {}, FALSE)
        second == PlaceCitiesInBand(band(2), water, s,
                    IF own THEN s.citiesPerPlayer \div 2 ELSE s.citiesPerPlayer, first, own)
        of(slot, cells) == {[cell |-> c, owner |-> slot] : c \in cells}
    IN  of(1, first) \cup (IF n = 2 THEN {} ELSE of(2, second))

----------------------------------------------------------------------------
(* The validator *)

\* Breadth-first search along a set of edges.
Reachable(start, edges) ==
    LET grown[k \in 0 .. Width * Width] ==
          IF k = 0 THEN {start}
          ELSE LET near == grown[k - 1]
               IN  near \cup {e[2] : e \in {f \in edges : f[1] \in near}}
    IN  grown[Width * Width]

\* Every step from a cell of the board to a neighbour that is in the set.
StepsInto(cells) ==
    {e \in Cells \X cells : Abs(e[1][1] - e[2][1]) + Abs(e[1][2] - e[2][2]) = 1}

IsFlowViableEdge(from, to) ==
    \/ FlowRateForDelta(to - from, FlowRate) > 0
    \/ FlowRateForDelta(from - to, FlowRate) > 0

FlowSteps(b) ==
    {e \in StepsInto(Cells \ b.water) : IsFlowViableEdge(b.elevation[e[1]], b.elevation[e[2]])}

\* Every city is reached from the first one.
CitiesMeet(cities, edges) ==
    LET first == CHOOSE c \in cities : TRUE
    IN  {c.cell : c \in cities} \subseteq Reachable(first.cell, edges)

WaterInBounds(water) ==
    /\ Cardinality(water) * 100 >= Safe.waterRatio[1] * Width * Width
    /\ Cardinality(water) * 100 <= Safe.waterRatio[2] * Width * Width

\* The checks on cities are skipped for a board that has none.
ValidateBoard(b, s, n) ==
    /\ \A c \in Cells : /\ c \in b.water <=> Rotate(c) \in b.water
                        /\ b.elevation[c] = b.elevation[Rotate(c)]
    /\ b.cities # {} =>
        /\ Cardinality(b.cities) = n * s.citiesPerPlayer
        /\ \A c \in b.cities :
             /\ c.cell \notin b.water
             /\ [cell |-> Rotate(c.cell), owner |-> PartnerPlayer(c.owner, n)] \in b.cities
             /\ \A w \in b.water : Chebyshev(c.cell, w) >= s.minCityWaterDistance
             /\ \A d \in b.cities \ {c} : Chebyshev(c.cell, d.cell) >= s.minCityCityDistance
        /\ CitiesMeet(b.cities, StepsInto(Cells \ b.water))
        /\ CitiesMeet(b.cities, FlowSteps(b))
    /\ WaterInBounds(b.water)
    /\ \E c, d \in Cells : b.elevation[c] # b.elevation[d]
    /\ b.water # {} =>
        \E w \in b.water : Cardinality(Reachable(w, StepsInto(b.water))) >= MinWaterPool

----------------------------------------------------------------------------
(* The generator *)

BuildBoard(noise, s, n) ==
    LET elevation == SmoothElevation(EnforcePointSymmetry(noise), s.terrainSmoothing)
        water == ExtractWater(elevation, s.waterRatio)
    IN  [elevation |-> elevation, water |-> water,
         cities |-> EnforceCitySymmetry(PlacedCities(water, s, n), n)]

\* The boards the attempts of a request yield up to the first that is valid:
\* none when all of them are rejected, and the request fails.
GenerateBoard(r) ==
    LET n == Len(r.ids)
        s == NormalizeSettings(ClampSettings(r.settings), n)
        try(found, noise) ==
            IF found # {} THEN found
            ELSE {b \in {BuildBoard(noise, s, n)} : ValidateBoard(b, s, n)}
    IN  FoldLeft(try, {}, SubSeq(r.noise, 1, s.maxRegenAttempts))

\* The engine gets the cities by slot, and slot k belongs to the k-th player id.
GeneratedMatches ==
    UNION {{[ids |-> r.ids, elevation |-> b.elevation, water |-> b.water,
             cities |-> [k \in DOMAIN r.ids |->
                           {c.cell : c \in {d \in b.cities : d.owner = k}}]] :
              b \in GenerateBoard(r)} : r \in Requests}

----------------------------------------------------------------------------
(* Properties *)

\* The terrain gives every player the same start, and the engine keeps it as
\* long as nobody orders anything: each has as many cities as any other, all
\* of them in the band of the player's own slot, they lie where another
\* player's (or the player's own) cities come to lie when the board is turned
\* by half a circle, and so do the troops.
FairStart ==
    LET ids == world.scenario.ids
        held(k) == {c \in Cells : world.state.city[c] = Dense(ids, ids[k])}
        turned(cells) == {Rotate(c) : c \in cells}
    IN  world.scenario \in GeneratedMatches /\ log = <<>> =>
          /\ \A k \in DOMAIN ids :
               /\ Cardinality(held(k)) = Cardinality(held(1))
               /\ \A c \in held(k) : Within(c, GetPlayerBand(k, Len(ids)))
               /\ \E j \in DOMAIN ids : turned(held(k)) = held(j)
          /\ \A c \in Cells : world.state.count[c] = world.state.count[Rotate(c)]

=============================================================================
