------------------------------ MODULE MCEngine ------------------------------
(***************************************************************************)
(* Matches on boards of sixteen cells with all amounts scaled down: a duel *)
(* on a slope with water, whose slots are not in the order of the ids,     *)
(* three players around a centre that all of them reach, and every match   *)
(* the terrain generates for two, three and four players.                  *)
(***************************************************************************)
EXTENDS Replay, OrderInput, Terrain

Order(kind, player, cell) ==
    [kind |-> kind, player |-> player, cell |-> cell,
     direction |-> "none", target |-> cell, percent |-> 0]

Pipe(kind, player, cell, d) == [Order(kind, player, cell) EXCEPT !.direction = d]
Reserve(player, cell, percent) == [Order("setReserves", player, cell) EXCEPT !.percent = percent]
Shot(kind, player, source, target) == [Order(kind, player, source) EXCEPT !.target = target]

Slope ==
    [ids       |-> <<20, 10>>,
     elevation |-> [c \in Cells |-> c[1]],
     water     |-> {<<0, 0>>},
     cities    |-> <<{<<2, 1>>}, {<<1, 1>>}>>]

SlopeOrders ==
    {Pipe("setPipe", 10, <<1, 1>>, "W"), Pipe("setPipe", 10, <<1, 1>>, "E"),
     Pipe("setPipe", 20, <<2, 1>>, "W"), Pipe("setPipe", 10, <<0, 1>>, "N"),
     Reserve(20, <<2, 1>>, 5),
     Shot("paratroop", 20, <<2, 1>>, <<1, 1>>), Shot("gun", 10, <<1, 1>>, <<2, 1>>),
     Order("surrender", 20, <<0, 0>>)}

Ring ==
    [ids       |-> <<20, 30, 10>>,
     elevation |-> [c \in Cells |-> 0],
     water     |-> {},
     cities    |-> <<{<<0, 1>>}, {<<2, 1>>}, {<<1, 0>>}>>]

RingOrders ==
    {Pipe("setPipe", 10, <<1, 0>>, "S"), Pipe("setPipe", 20, <<0, 1>>, "E"),
     Pipe("setPipesExclusive", 30, <<2, 1>>, "W"), Order("clearAllPipes", 30, <<2, 1>>),
     Shot("paratroop", 20, <<0, 1>>, <<0, 0>>), Shot("paratroop", 10, <<1, 0>>, <<1, 3>>),
     Shot("gun", 99, <<0, 1>>, <<1, 0>>)}

\* Aims of one and two cells to all sides, from points in all quarters of cells
\* at the edge and in the middle of the board, and one off the board.
MCPointers ==
    {<<11, 15>>, <<13, 5>>, <<7, 15>>, <<29, 25>>, <<5, 1>>, <<15, 3>>, <<5, 17>>, <<25, 39>>,
     <<-4, 12>>}

----------------------------------------------------------------------------
(* Generated matches of two, three and four players, played without orders. *)

MCSafe ==
    [waterRatio |-> <<10, 25>>, citiesPerPlayer |-> <<1, 2>>, terrainSmoothing |-> <<0, 1>>,
     minCityWaterDistance |-> <<1, 2>>, minCityCityDistance |-> <<1, 2>>,
     maxRegenAttempts |-> <<1, 2>>]

Setup(ratio, count, apart, smoothing, attempts) ==
    [waterRatio |-> ratio, citiesPerPlayer |-> count, terrainSmoothing |-> smoothing,
     minCityWaterDistance |-> 0, minCityCityDistance |-> apart, maxRegenAttempts |-> attempts]

\* The walk reaches the upper half first; the other half is overwritten.  Two
\* low cells decide where the water is, a cliff gives the smoothing an edge.
UpperHalf == {c \in Cells : c[2] < Width \div 2}
Relief(high) == [c \in Cells |-> IF c \in high THEN 9 ELSE 0]
Basins == {Relief(UpperHalf \ low) : low \in {l \in SUBSET UpperHalf : Cardinality(l) = 2}}
Cliffs == {Relief({c \in UpperHalf : c[1] < x}) : x \in {1, 2}}

Request(ids, settings, attempts) == {[ids |-> ids, settings |-> settings, noise |-> a] : a \in attempts}

\* The validator rejects a plain, so the second attempt must yield the board.
Once == {<<b>> : b \in Basins}
Twice == {<<Relief({}), b>> : b \in Cliffs}

MCRequests ==
    UNION {Request(<<20, 10>>, Setup(90, 2, 2, 0, 0), Once),
           Request(<<20, 10>>, Setup(25, 1, 2, 1, 9), Twice),
           Request(<<20, 30, 10>>, Setup(25, 1, 1, 0, 1), Once),
           Request(<<30, 10, 40, 20>>, Setup(19, 1, 2, 0, 1), Once)}

MCMenu ==
    (Slope :> SlopeOrders) @@ (Ring :> RingOrders) @@ [match \in GeneratedMatches |-> {}]

=============================================================================
