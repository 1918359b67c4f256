---------------------------- MODULE EngineProofs ----------------------------
(***************************************************************************)
(* Proofs about Engine, Fog and OrderInput, for every board, scenario,     *)
(* rule and menu of commands.                                              *)
(*                                                                         *)
(* First what holds whatever the folds of a tick yield: the shape of the   *)
(* world, cities and players, and what players are shown.  From `The folds *)
(* of a tick' on, what the folds keep: the types of the board through      *)
(* every phase, then the troops of each player, what a tick reports, the   *)
(* order of arrival, and the orders of the console.  `Sound' is the        *)
(* inductive invariant behind the latter.                                  *)
(***************************************************************************)
EXTENDS OrderInput, FoldProofs

----------------------------------------------------------------------------
(* The shape of the world *)

\* The world is the record that createWorld builds, with a record per player.
WorldShape ==
    /\ world = [scenario |-> world.scenario, tick |-> world.tick,
                state |-> world.state, players |-> world.players]
    /\ world.tick \in Nat
    /\ world.players = [p \in Bytes(world) |-> world.players[p]]
    /\ \A p \in Bytes(world) :
          world.players[p] = [status |-> world.players[p].status,
                              cities |-> world.players[p].cities,
                              troops |-> world.players[p].troops]

\* The world createWorld makes is well shaped.
LEMMA CreatedShape ==
    ASSUME NEW s, world = CreateWorld(s)
    PROVE  WorldShape
BY DEF WorldShape, CreateWorld, Bytes

\* What a command leaves of the world: all of it, or all but one player's status.
LEMMA Commanded ==
    ASSUME WorldShape, NEW o, NEW w, w = ApplyCommand(world, pending, o).world
    PROVE  \/ w = world
           \/ \E p : w = [world EXCEPT !.players[p].status = "eliminated"]
BY DEF ApplyCommand

\* What a tick makes of a world whose fighting ended in the state f.
Settled(w, f) ==
    [w EXCEPT !.tick = @ + 1, !.state = Decay(Capture(f)),
              !.players = Standing(w, Decay(Capture(f)))]

\* A tick leaves the world as it is, or settles it after a fight on some state
\* and flow: all of the other phases are in that state.
LEMMA Ticked ==
    ASSUME NEW w, w = TickResult(world, pending).world
    PROVE  w = world \/ \E s, flow : w = Settled(world, Combat(world, s, flow))
BY DEF TickResult, Resolved, Settled

\* What a step of the match does to the world, and that the scenario stays.
LEMMA StepShape ==
    ASSUME WorldShape, [Next]_vars
    PROVE  /\ world'.scenario = world.scenario
           /\ \/ world' = world
              \/ \E p : world' = [world EXCEPT !.players[p].status = "eliminated"]
              \/ \E s, flow : world' = Settled(world, Combat(world, s, flow))
<1>1. CASE UNCHANGED vars
  BY <1>1 DEF vars
<1>2. ASSUME NEW o \in Menu[world.scenario], Submit(o)
      PROVE  \/ world' = world
             \/ \E p : world' = [world EXCEPT !.players[p].status = "eliminated"]
  <2>1. PICK w : w = ApplyCommand(world, pending, o).world /\ world' = w
    BY <1>2 DEF Submit
  <2> QED BY <2>1, Commanded
<1>3. ASSUME Advance
      PROVE  world' = world \/ \E s, flow : world' = Settled(world, Combat(world, s, flow))
  <2>1. PICK w : w = TickResult(world, pending).world /\ world' = w
    BY <1>3 DEF Advance
  <2>2. w = world \/ \E s, flow : w = Settled(world, Combat(world, s, flow))
    BY <2>1, Ticked
  <2> QED BY <2>1, <2>2
<1>4. ASSUME \E s, flow : world' = Settled(world, Combat(world, s, flow))
      PROVE  world'.scenario = world.scenario
  BY <1>4 DEF Settled, WorldShape
<1>5. ASSUME \E p : world' = [world EXCEPT !.players[p].status = "eliminated"]
      PROVE  world'.scenario = world.scenario
  <2>1. PICK q : world' = [world EXCEPT !.players = q]
    BY <1>5
  <2> QED BY <2>1 DEF WorldShape
<1> QED BY <1>1, <1>2, <1>3, <1>4, <1>5 DEF Next

\* Settling a fight keeps the shape of the world.
LEMMA SettledShape ==
    ASSUME WorldShape, NEW f, world' = Settled(world, f)
    PROVE  /\ WorldShape'
           /\ world'.tick = world.tick + 1
           /\ world'.state = Decay(Capture(f))
           /\ world'.players = Standing(world, Decay(Capture(f)))
           /\ Bytes(world)' = Bytes(world)
<1> DEFINE g == Decay(Capture(f))
           ps == Standing(world, g)
<1>1. /\ world'.tick = world.tick + 1 /\ world'.state = g /\ world'.players = ps
      /\ world'.scenario = world.scenario
      /\ world' = [scenario |-> world'.scenario, tick |-> world'.tick,
                   state |-> world'.state, players |-> world'.players]
  BY DEF WorldShape, Settled
<1>2. Bytes(world)' = Bytes(world)
  BY <1>1 DEF Bytes
<1>3. /\ ps = [p \in Bytes(world) |-> ps[p]]
      /\ \A p \in Bytes(world) :
            ps[p] = [status |-> ps[p].status, cities |-> ps[p].cities, troops |-> ps[p].troops]
  BY DEF Standing
<1>4. world'.tick \in Nat
  BY <1>1 DEF WorldShape
<1> QED BY <1>1, <1>2, <1>3, <1>4 DEF WorldShape

\* So does striking out a player (markSurrendered).
LEMMA EliminatedShape ==
    ASSUME WorldShape, NEW q, world' = [world EXCEPT !.players[q].status = "eliminated"]
    PROVE  /\ WorldShape'
           /\ world'.tick = world.tick /\ world'.state = world.state
           /\ Bytes(world)' = Bytes(world)
           /\ \A p \in Bytes(world) :
                /\ world'.players[p].cities = world.players[p].cities
                /\ world'.players[p].troops = world.players[p].troops
                /\ world'.players[p].status \in {world.players[p].status, "eliminated"}
<1>1. PICK r : r = [world.players[q] EXCEPT !.status = "eliminated"]
  OBVIOUS
<1>2. PICK ps : ps = [world.players EXCEPT ![q] = r]
  OBVIOUS
<1>3. world' = [world EXCEPT !.players = ps]
  BY <1>1, <1>2
<1>4. /\ world'.tick = world.tick /\ world'.state = world.state /\ world'.players = ps
      /\ world'.scenario = world.scenario
      /\ world' = [scenario |-> world'.scenario, tick |-> world'.tick,
                   state |-> world'.state, players |-> world'.players]
  BY <1>3 DEF WorldShape
<1>5. Bytes(world)' = Bytes(world)
  BY <1>4 DEF Bytes
<1>6. DOMAIN ps = Bytes(world)
  BY <1>2 DEF WorldShape
<1>7. \A p \in Bytes(world) :
        /\ ps[p] = [status |-> ps[p].status, cities |-> ps[p].cities, troops |-> ps[p].troops]
        /\ ps[p].cities = world.players[p].cities
        /\ ps[p].troops = world.players[p].troops
        /\ ps[p].status \in {world.players[p].status, "eliminated"}
  <2> TAKE p \in Bytes(world)
  <2>1. world.players[p] = [status |-> world.players[p].status,
                            cities |-> world.players[p].cities,
                            troops |-> world.players[p].troops]
    BY DEF WorldShape
  <2>2. CASE p = q
    BY <2>1, <2>2, <1>1, <1>2 DEF WorldShape
  <2>3. CASE p # q
    BY <2>1, <2>3, <1>2 DEF WorldShape
  <2> QED BY <2>2, <2>3
<1>8. ps = [p \in Bytes(world) |-> ps[p]]
  BY <1>2, <1>6 DEF WorldShape
<1> QED BY <1>4, <1>5, <1>7, <1>8 DEF WorldShape

\* The world keeps its shape in every match: one record per player of the
\* scenario, and the parts of a state (applyCommand, tick).
THEOREM ShapeKept == Spec => []WorldShape
<1>1. Init => WorldShape
  BY CreatedShape DEF Init
<1>2. WorldShape /\ [Next]_vars => WorldShape'
  <2> SUFFICES ASSUME WorldShape, [Next]_vars PROVE WorldShape'
    OBVIOUS
  <2>1. CASE world' = world
    BY <2>1 DEF WorldShape, Bytes
  <2> QED BY <2>1, StepShape, SettledShape, EliminatedShape
<1> QED BY <1>1, <1>2, PTL DEF Spec

----------------------------------------------------------------------------
(* Cities and players *)

\* Capture leaves nobody in a city of another, and decay only takes owners away.
LEMMA CapturedHeld ==
    ASSUME NEW w, NEW s, NEW flow, NEW f, f = Decay(Capture(Combat(w, s, flow))), NEW c \in Cells
    PROVE  f.city[c] # 0 => f.owner[c] \in {0, f.city[c]}
<1>1. PICK count, owner :
        Combat(w, s, flow) = [count |-> count, owner |-> owner, pipes |-> s.pipes,
                              reserves |-> s.reserves, city |-> s.city]
  BY DEF Combat
<1> DEFINE e == [count |-> count, owner |-> owner, pipes |-> s.pipes,
                 reserves |-> s.reserves, city |-> s.city]
<1> DEFINE city == [d \in Cells |-> IF d \in Captured(e) THEN owner[d] ELSE s.city[d]]
           h == [count |-> count, owner |-> owner, pipes |-> s.pipes,
                 reserves |-> s.reserves, city |-> city]
<1>2. h = Capture(e)
  BY DEF Capture
<1>3. city[c] # 0 => owner[c] \in {0, city[c]}
  BY DEF Captured
<1> HIDE DEF city
<1>4. Decay(h).city = city /\ Decay(h).owner[c] \in {0, owner[c]}
  BY DEF Decay
<1> QED BY <1>1, <1>2, <1>3, <1>4

\* Whoever stands in a city when a tick ends holds it (resolveCapture): true at
\* the start, where nobody stands anywhere, and kept by commands and ticks.
THEOREM CitiesHeldByOccupants == Spec => []CityHeldByOccupant
<1> DEFINE IInv == WorldShape /\ CityHeldByOccupant
<1>1. Init => IInv
  <2> SUFFICES ASSUME Init PROVE IInv
    OBVIOUS
  <2>1. WorldShape
    BY CreatedShape DEF Init
  <2>2. \A c \in Cells : world.state.owner[c] = 0
    BY DEF Init, CreateWorld
  <2> QED BY <2>1, <2>2 DEF CityHeldByOccupant
<1>2. IInv /\ [Next]_vars => IInv'
  <2> SUFFICES ASSUME IInv, [Next]_vars PROVE IInv'
    OBVIOUS
  <2>1. CASE world' = world
    BY <2>1 DEF WorldShape, CityHeldByOccupant, Bytes
  <2>2. ASSUME NEW q, world' = [world EXCEPT !.players[q].status = "eliminated"]
        PROVE  IInv'
    <3>1. WorldShape' /\ world'.state = world.state
      BY <2>2, EliminatedShape
    <3> QED BY <3>1 DEF CityHeldByOccupant
  <2>3. ASSUME NEW s, NEW flow, world' = Settled(world, Combat(world, s, flow))
        PROVE  IInv'
    <3>1. WorldShape' /\ world'.state = Decay(Capture(Combat(world, s, flow)))
      BY <2>3, SettledShape
    <3> QED BY <3>1, CapturedHeld DEF CityHeldByOccupant
  <2> QED BY <2>1, <2>2, <2>3, StepShape
<1> QED BY <1>1, <1>2, PTL DEF Spec

\* The records of the players are counted from the board in every tick, and a
\* surrender changes neither the board nor the counts.
THEOREM AliveHoldsAfterTick == Spec => [](world.tick > 0 => AliveHolds)
<1> DEFINE Kept ==
        world.tick > 0 => \A p \in Bytes(world) :
            /\ world.players[p].troops = Held(world.state, p)
            /\ world.players[p].cities = CityCount(world.state, p)
            /\ world.players[p].status = "alive" =>
                 ~(Held(world.state, p) = 0 /\ CityCount(world.state, p) = 0)
           IInv == WorldShape /\ Kept
<1>1. Init => IInv
  <2> SUFFICES ASSUME Init PROVE IInv
    OBVIOUS
  <2>1. WorldShape
    BY CreatedShape DEF Init
  <2>2. world.tick = 0
    BY DEF Init, CreateWorld
  <2> QED BY <2>1, <2>2
<1>2. IInv /\ [Next]_vars => IInv'
  <2> SUFFICES ASSUME IInv, [Next]_vars PROVE IInv'
    OBVIOUS
  <2>1. CASE world' = world
    BY <2>1 DEF WorldShape, Bytes
  <2>2. ASSUME NEW q, world' = [world EXCEPT !.players[q].status = "eliminated"]
        PROVE  IInv'
    <3>1. /\ WorldShape' /\ world'.state = world.state /\ world'.tick = world.tick
          /\ Bytes(world)' = Bytes(world)
          /\ \A p \in Bytes(world) :
                /\ world'.players[p].cities = world.players[p].cities
                /\ world'.players[p].troops = world.players[p].troops
                /\ world'.players[p].status \in {world.players[p].status, "eliminated"}
      BY <2>2, EliminatedShape
    <3>2. \A p : Held(world.state, p)' = Held(world.state, p)
      BY <3>1
    <3>3. \A p : CityCount(world.state, p)' = CityCount(world.state, p)
      BY <3>1 DEF CityCount
    <3> QED BY <3>1, <3>2, <3>3
  <2>3. ASSUME NEW s, NEW flow, world' = Settled(world, Combat(world, s, flow))
        PROVE  IInv'
    <3>1. PICK f : f = Decay(Capture(Combat(world, s, flow)))
      OBVIOUS
    <3>2. /\ WorldShape' /\ world'.state = f /\ world'.players = Standing(world, f)
          /\ Bytes(world)' = Bytes(world)
      BY <2>3, <3>1, SettledShape
    <3>3. \A p : Held(world.state, p)' = Held(f, p)
      BY <3>2
    <3>4. \A p : CityCount(world.state, p)' = CityCount(f, p)
      BY <3>2 DEF CityCount
    <3>5. \A p \in Bytes(world) :
            /\ world'.players[p].troops = Held(f, p)
            /\ world'.players[p].cities = CityCount(f, p)
            /\ world'.players[p].status = "alive" => ~(Held(f, p) = 0 /\ CityCount(f, p) = 0)
      BY <3>2 DEF Standing
    <3> QED BY <3>2, <3>3, <3>4, <3>5
  <2> QED BY <2>1, <2>2, <2>3, StepShape
<1>3. IInv => (world.tick > 0 => AliveHolds)
  BY DEF AliveHolds
<1> QED BY <1>1, <1>2, <1>3, PTL DEF Spec

----------------------------------------------------------------------------
(* What players are shown *)

\* The scenario is one of those that are played, and stays so.
LEMMA ScenarioKept == Spec => [](WorldShape /\ world.scenario \in Scenarios)
<1> DEFINE IInv == WorldShape /\ world.scenario \in Scenarios
<1>1. Init => IInv
  <2> SUFFICES ASSUME Init PROVE IInv
    OBVIOUS
  <2>1. WorldShape
    BY CreatedShape DEF Init
  <2>2. world.scenario \in Scenarios
    BY DEF Init, CreateWorld
  <2> QED BY <2>1, <2>2
<1>2. IInv /\ [Next]_vars => IInv'
  <2> SUFFICES ASSUME IInv, [Next]_vars PROVE IInv'
    OBVIOUS
  <2>1. world'.scenario \in Scenarios
    BY StepShape
  <2>2. CASE world' = world
    BY <2>1, <2>2 DEF WorldShape, Bytes
  <2> QED BY <2>1, <2>2, StepShape, SettledShape, EliminatedShape
<1> QED BY <1>1, <1>2, PTL DEF Spec

\* Only who is no player of the match has the owner byte of nobody.
LEMMA PlayerHasByte ==
    ASSUME NEW ids \in Seq(Int), NEW id \in ToSet(ids)
    PROVE  Dense(ids, id) # 0
<1> DEFINE upto == {i \in ToSet(ids) : i <= id}
<1>1. IsFiniteSet(ToSet(ids))
  <2>1. ToSet(ids) = {ids[i] : i \in 1 .. Len(ids)}
    BY DEF ToSet
  <2>2. IsFiniteSet(1 .. Len(ids))
    BY FS_Interval
  <2>3. \A x \in ToSet(ids) : \E i \in 1 .. Len(ids) : ids[i] = x
    BY <2>1
  <2>4. ids \in [1 .. Len(ids) -> ToSet(ids)]
    BY <2>1
  <2>5. ids \in Surjection(1 .. Len(ids), ToSet(ids))
    BY <2>3, <2>4 DEF Surjection
  <2> QED BY <2>2, <2>5, FS_Surjection
<1>2. IsFiniteSet(upto)
  BY <1>1, FS_Subset
<1>3. id \in Int
  BY DEF ToSet
<1>4. upto # {}
  BY <1>3
<1>5. Cardinality(upto) # 0
  BY <1>2, <1>4, FS_EmptySet
<1> QED BY <1>5 DEF Dense

\* Sight is mutual: a square around one cell holds the other, or neither does.
LEMMA RangeSymmetric ==
    ASSUME NEW a \in Cells, NEW b \in Cells
    PROVE  a \in CellsInRange(b) <=> b \in CellsInRange(a)
<1>1. /\ a = <<a[1], a[2]>> /\ b = <<b[1], b[2]>>
      /\ a[1] \in 0 .. Width - 1 /\ a[2] \in 0 .. Width - 1
      /\ b[1] \in 0 .. Width - 1 /\ b[2] \in 0 .. Width - 1
  BY DEF Cells
<1>2. \A m, n \in 0 .. Width - 1 : m \in Span(n) <=> n \in Span(m)
  BY RulesAssumption, RadiusAssumption DEF Span, Least
<1>3. a \in CellsInRange(b) <=> a[1] \in Span(b[1]) /\ a[2] \in Span(b[2])
  BY <1>1 DEF CellsInRange
<1>4. b \in CellsInRange(a) <=> b[1] \in Span(a[1]) /\ b[2] \in Span(a[2])
  BY <1>1 DEF CellsInRange
<1> QED BY <1>1, <1>2, <1>3, <1>4

\* What a player of the match is shown of another's stacks.
LEMMA SeesStacks ==
    ASSUME world.scenario.ids \in Seq(Int), NEW id \in ToSet(world.scenario.ids), NEW p, p # 0
    PROVE  Sees(id, p) = Stacks(world, p) \cap VisibleSet(world, Dense(world.scenario.ids, id))
<1> DEFINE d == Dense(world.scenario.ids, id)
<1>1. d # 0
  BY PlayerHasByte
<1>2. VisibleSet(world, d) \subseteq Cells
  BY RulesAssumption, RadiusAssumption
     DEF VisibleSet, Stacks, CellsInRange, Span, Cells, Least
<1>3. PICK cells : /\ ViewOf(id).cells = cells
                   /\ DOMAIN cells = VisibleSet(world, d)
                   /\ \A c \in VisibleSet(world, d) :
                        /\ cells[c].owner = world.state.owner[c]
                        /\ cells[c].count = world.state.count[c]
  <2> HIDE DEF d
  <2>1. ViewOf(id).cells = [c \in VisibleSet(world, d) |->
                        [water |-> c \in world.scenario.water,
                         count |-> world.state.count[c], owner |-> world.state.owner[c],
                         pipes |-> world.state.pipes[c], reserves |-> world.state.reserves[c],
                         city |-> world.state.city[c]]]
    BY <1>1 DEF ViewOf, PlayerView, d
  <2> QED BY <2>1
<1>4. Sees(id, p) = {c \in VisibleSet(world, d) :
                        world.state.owner[c] = p /\ world.state.count[c] > 0}
  BY <1>3 DEF Sees
<1> QED BY <1>2, <1>4 DEF Stacks

\* Sight counts troops on both sides: who is shown an enemy's stack shows him one
\* of his own (NoUnseenWatcher).
THEOREM NobodyWatchedUnseen == Spec => []NoUnseenWatcher
<1>1. WorldShape /\ world.scenario \in Scenarios => NoUnseenWatcher
  <2> SUFFICES ASSUME world.scenario \in Scenarios,
                      NEW a \in ToSet(world.scenario.ids), NEW b \in ToSet(world.scenario.ids),
                      Sees(a, Dense(world.scenario.ids, b)) # {}
               PROVE  Sees(b, Dense(world.scenario.ids, a)) # {}
    BY DEF NoUnseenWatcher
  <2>1. world.scenario.ids \in Seq(Int)
    BY MenuAssumption DEF Scenarios
  <2>2. PICK da, db : /\ da = Dense(world.scenario.ids, a) /\ da # 0
                      /\ db = Dense(world.scenario.ids, b) /\ db # 0
    BY <2>1, PlayerHasByte
  <2>3. PICK c \in Stacks(world, db) : c \in VisibleSet(world, da)
    BY <2>1, <2>2, SeesStacks
  <2>4. PICK e \in Stacks(world, da) : c \in CellsInRange(e)
    BY <2>3 DEF VisibleSet
  <2>5. c \in Cells /\ e \in Cells
    BY <2>3, <2>4 DEF Stacks
  <2>6. e \in CellsInRange(c)
    BY <2>4, <2>5, RangeSymmetric
  <2>7. e \in VisibleSet(world, db)
    BY <2>3, <2>6 DEF VisibleSet
  <2> QED BY <2>1, <2>2, <2>4, <2>7, SeesStacks
<1> QED BY <1>1, ScenarioKept, PTL

----------------------------------------------------------------------------
(* Amounts *)

\* A fight of two leaves no more than the larger side had, and no garrison
\* without an owner (resolveTwoWayAttrition).
THEOREM AttritionKeeps ==
    ASSUME NEW a \in Nat \ {0}, NEW b \in Nat \ {0}, NEW m \in Nat, NEW n \in Nat
    PROVE  LET fight == Attrition(a, m, b, n) IN
           /\ fight.count \in 0 .. CellCapacity
           /\ fight.count <= m \/ fight.count <= n
           /\ fight.count > 0 => fight.owner \in {a, b}
BY RulesAssumption DEF Attrition, Least, Abs

\* The floor of the reserves is part of the garrison, whatever the rounding.
LEMMA FloorBelow ==
    ASSUME NEW n \in Nat, NEW pct \in 0 .. 9
    PROVE  CeilTenth(n, pct) \in 0 .. n
<1>1. n * pct \in Nat /\ n * pct <= n * 9
  <2>1. CASE pct = 0 BY <2>1
  <2>2. CASE pct = 1 BY <2>2
  <2>3. CASE pct = 2 BY <2>3
  <2>4. CASE pct = 3 BY <2>4
  <2>5. CASE pct = 4 BY <2>5
  <2>6. CASE pct = 5 BY <2>6
  <2>7. CASE pct = 6 BY <2>7
  <2>8. CASE pct = 7 BY <2>8
  <2>9. CASE pct = 8 BY <2>9
  <2>10. CASE pct = 9 BY <2>10
  <2> QED BY <2>1, <2>2, <2>3, <2>4, <2>5, <2>6, <2>7, <2>8, <2>9, <2>10
<1>2. PICK m \in Nat : m = n * pct /\ m <= n * 9
  BY <1>1
<1>3. (m + 9) \div 10 \in 0 .. n
  BY <1>2
<1> QED BY <1>2, <1>3 DEF CeilTenth

\* The rate of a pipe is a natural number on any slope (flowRateForDelta).
LEMMA RateNatural ==
    ASSUME NEW delta \in Int, NEW perPipe \in Nat
    PROVE  FlowRateForDelta(delta, perPipe) \in Nat
<1>1. CASE delta < 0
  <2>1. Least(-delta, FlowSlopeDeltaCap) \in Nat
    BY <1>1, RulesAssumption DEF Least
  <2>2. \A k \in Nat : FlowDownhillStep * k \in Nat
    BY RulesAssumption
  <2>3. PICK k \in Nat : k = FlowDownhillStep * Least(-delta, FlowSlopeDeltaCap)
    BY <2>1, <2>2
  <2> QED BY <1>1, <2>3 DEF FlowRateForDelta
<1>2. CASE ~(delta < 0)
  <2>1. PICK k \in Int : k = FlowUphillStep * delta
    BY RulesAssumption
  <2> QED BY <1>2, <2>1 DEF FlowRateForDelta
<1> QED BY <1>1, <1>2

\* What a pipe may take of a garrison is a natural number.
LEMMA BaseNatural ==
    ASSUME NEW pre \in Nat, NEW has \in Nat, NEW pct \in 0 .. 9,
           NEW n \in Nat \ {0}, NEW k \in 1 .. n
    PROVE  Least(FlowRate \div n, (-Least(0, CeilTenth(pre, pct) - has)) \div (n - k + 1)) \in Nat
<1>1. PICK q \in 0 .. pre : q = CeilTenth(pre, pct)
  BY FloorBelow
<1>2. PICK r \in Nat : r = -Least(0, q - has)
  BY DEF Least
<1>3. PICK m \in Nat \ {0} : m = n - k + 1
  OBVIOUS
<1>4. FlowRate \div n \in Nat /\ r \div m \in Nat
  BY RulesAssumption
<1> QED BY <1>1, <1>2, <1>3, <1>4 DEF Least

\* The amounts of one transfer: what may leave its cell,
Committed(moved, has, pct) == Least(moved, has - CeilTenth(has, pct))

\* and what arrives.
Arriving(moved, has, pct, there) == Least(Committed(moved, has, pct), CellCapacity - there)

\* What one transfer makes of the amounts at its two ends.
LEMMA AmountsKept ==
    ASSUME NEW has \in 0 .. CellCapacity, NEW there \in 0 .. CellCapacity,
           NEW pct \in 0 .. 9, NEW moved \in Nat
    PROVE  /\ Arriving(moved, has, pct, there) \in Int
           /\ there + Arriving(moved, has, pct, there) \in 0 .. CellCapacity
           /\ has - Arriving(moved, has, pct, there) \in 0 .. CellCapacity
<1>1. has \in Nat
  BY RulesAssumption
<1>2. PICK r \in 0 .. has : r = CeilTenth(has, pct)
  BY <1>1, FloorBelow
<1>3. PICK c \in 0 .. has : c = Committed(moved, has, pct)
  BY <1>1, <1>2 DEF Least, Committed
<1>4. LET arrives == Least(c, CellCapacity - there)
      IN  /\ arrives \in Int
          /\ there + arrives \in 0 .. CellCapacity
          /\ has - arrives \in 0 .. CellCapacity
  BY <1>1, RulesAssumption DEF Least
<1> QED BY <1>3, <1>4 DEF Arriving

\* One transfer of the flow keeps every count within the capacity of a cell and
\* moves troops without making or losing any, whatever the reserves, the slope,
\* the pipes and the transfers before it (transfer, flow.ts).
THEOREM TransferKeeps ==
    ASSUME NEW w, NEW state, NEW t, NEW counts, NEW owners, NEW forces,
           NEW at, at = [count |-> counts, owner |-> owners, committed |-> forces],
           NEW after, after = Transfer(w, state, at, t),
           w.scenario.elevation \in [Cells -> Int],
           state.count \in [Cells -> 0 .. CellCapacity],
           state.reserves \in [Cells -> 0 .. 9],
           counts \in [Cells -> 0 .. CellCapacity],
           NEW src \in Cells, src = t[1],
           NEW n \in Nat \ {0}, n = Len(PipesOf(state, src)),
           NEW k \in 1 .. n, k = t[2],
           NEW dst, dst = Toward(src, PipesOf(state, src)[k]), dst # src
    PROVE  /\ after.count \in [Cells -> 0 .. CellCapacity]
           /\ \A c \in Cells \ {src, dst} : after.count[c] = counts[c]
           /\ dst \in Cells => after.count[src] + after.count[dst] = counts[src] + counts[dst]
<1> DEFINE has == counts[src]
           there == counts[dst]
           pre == state.count[src]
           pct == state.reserves[src]
           delta == w.scenario.elevation[dst] - w.scenario.elevation[src]
           base == Least(FlowRate \div n, (-Least(0, CeilTenth(pre, pct) - has)) \div (n - k + 1))
           moved == FlowRateForDelta(delta, base)
           arrives == Arriving(moved, has, pct, there)
           count == [counts EXCEPT ![dst] = @ + arrives, ![src] = @ - arrives]
<1>1. at.count = counts /\ at.owner = owners /\ at.committed = forces
  OBVIOUS
<1>2. after.count = counts \/ (dst \in Cells /\ after.count = count)
  <2> DEFINE p == PipesOf(state, t[1])
             d == Toward(t[1], p[t[2]])
             h == at.count[t[1]]
             av == -Least(0, CeilTenth(state.count[t[1]], state.reserves[t[1]]) - h)
             m == FlowRateForDelta(w.scenario.elevation[d] - w.scenario.elevation[t[1]],
                                   Least(FlowRate \div Len(p), av \div (Len(p) - t[2] + 1)))
             a == Least(Least(m, h - CeilTenth(h, state.reserves[t[1]])), CellCapacity - at.count[d])
             x == [at.count EXCEPT ![d] = @ + a, ![t[1]] = @ - a]
             c == Least(m, h - CeilTenth(h, state.reserves[t[1]]))
             o == [at.owner EXCEPT ![d] = IF a = 0 THEN @ ELSE state.owner[t[1]]]
             f == [at.committed EXCEPT ![d][state.owner[t[1]]] = @ + c]
  <2>1. after = IF d \notin Cells \/ d \notin Land(w)
                   \/ h - CeilTenth(h, state.reserves[t[1]]) = 0 \/ m = 0
                THEN at ELSE [count |-> x, owner |-> o, committed |-> f]
    BY DEF Transfer
  <2>2. t[1] = src /\ d = dst
    OBVIOUS
  <2>3. h = has /\ at.count[d] = there /\ av = -Least(0, CeilTenth(pre, pct) - has)
    BY <1>1, <2>2
  <2>4. Len(p) = n /\ t[2] = k /\ state.reserves[t[1]] = pct
    OBVIOUS
  <2>5. m = moved
    <3> HIDE DEF d, h, av, p, has, pct, pre, there
    <3>1. w.scenario.elevation[d] - w.scenario.elevation[t[1]] = delta
      BY <2>2, Zenon
    <3>2. Least(FlowRate \div Len(p), av \div (Len(p) - t[2] + 1)) = base
      BY <2>3, <2>4
    <3> HIDE DEF delta, base
    <3> QED BY <3>1, <3>2, Zenon
  <2>6. a = arrives
    <3> HIDE DEF m, moved, d, h, av, p, has, pct, pre, there
    <3> QED BY <2>3, <2>4, <2>5 DEF Committed, Arriving
  <2>7. x = count
    <3> HIDE DEF a, arrives, d
    <3> QED BY <1>1, <2>2, <2>6
  <2>8. after = at \/ (dst \in Cells /\ after = [count |-> x, owner |-> o, committed |-> f])
    <3> HIDE DEF x, o, f, m, h, d
    <3> QED BY <2>1, <2>2
  <2>9. after.count = at.count \/ (dst \in Cells /\ after.count = x)
    <3> HIDE DEF x, o, f
    <3> QED BY <2>8
  <2> HIDE DEF x, count
  <2> QED BY <1>1, <2>7, <2>9
<1>3. dst \in Cells => /\ arrives \in Int /\ has \in Int /\ there \in Int
                       /\ there + arrives \in 0 .. CellCapacity
                       /\ has - arrives \in 0 .. CellCapacity
  <2> SUFFICES ASSUME dst \in Cells
               PROVE  /\ arrives \in Int /\ has \in Int /\ there \in Int
                      /\ there + arrives \in 0 .. CellCapacity
                      /\ has - arrives \in 0 .. CellCapacity
    OBVIOUS
  <2>1. has \in 0 .. CellCapacity /\ there \in 0 .. CellCapacity
    OBVIOUS
  <2>2. pre \in 0 .. CellCapacity /\ pct \in 0 .. 9
    OBVIOUS
  <2>3. delta \in Int
    <3>1. w.scenario.elevation[dst] \in Int /\ w.scenario.elevation[src] \in Int
      OBVIOUS
    <3> QED BY <3>1
  <2> HIDE DEF has, there, pre, pct, delta
  <2>4. pre \in Nat /\ has \in Nat /\ there \in Nat
    BY <2>1, <2>2, RulesAssumption
  <2>5. base \in Nat
    BY <2>2, <2>4, BaseNatural
  <2> HIDE DEF base
  <2>6. moved \in Nat
    BY <2>3, <2>5, RateNatural
  <2> HIDE DEF moved
  <2>7. /\ Arriving(moved, has, pct, there) \in Int
        /\ there + Arriving(moved, has, pct, there) \in 0 .. CellCapacity
        /\ has - Arriving(moved, has, pct, there) \in 0 .. CellCapacity
    BY <2>1, <2>2, <2>6, AmountsKept
  <2> QED BY <2>4, <2>7
<1> HIDE DEF arrives
<1>4. CASE after.count = counts
  BY <1>4, RulesAssumption
<1>5. CASE dst \in Cells /\ after.count = count
  <2>1. /\ count \in [Cells -> 0 .. CellCapacity]
        /\ count[src] = has - arrives /\ count[dst] = there + arrives
        /\ \A c \in Cells \ {src, dst} : count[c] = counts[c]
    BY <1>3, <1>5
  <2>2. after.count = count
    BY <1>5
  <2> HIDE DEF count, has, there, pre, pct, delta, base, moved
  <2>3. count[src] + count[dst] = has + there
    BY <1>3, <1>5, <2>1
  <2>4. has = counts[src] /\ there = counts[dst]
    BY DEF has, there
  <2> QED BY <2>1, <2>2, <2>3, <2>4
<1> QED BY <1>2, <1>4, <1>5

----------------------------------------------------------------------------
(* The folds of a tick *)

\* The selection of a sequence has its entries in the set, and all of them.
LEMMA AmongKept ==
    ASSUME NEW X, NEW s \in Seq(X), NEW set
    PROVE  /\ Among(s, set) \in Seq(X \cap set)
           /\ \A i \in DOMAIN s : s[i] \in set =>
                \E k \in DOMAIN Among(s, set) : Among(s, set)[k] = s[i]
<1>1. PICK n \in Nat : n = Len(s)
  OBVIOUS
<1>2. DOMAIN s = 1 .. n /\ \A i \in 1 .. n : s[i] \in X
  BY <1>1
<1>3. PICK at : at = {i \in DOMAIN s : s[i] \in set}
  OBVIOUS
<1>4. at \subseteq 1 .. n /\ \A i \in at : s[i] \in X \cap set
  BY <1>2, <1>3
<1>5. IsFiniteSet(at)
  <2>1. IsFiniteSet(1 .. n)
    BY FS_Interval
  <2> QED BY <1>4, <2>1, FS_Subset
<1>6. PICK R : R = {e \in at \X at : e[1] < e[2]}
  OBVIOUS
<1>7. \A i, j \in at : <<i, j>> \in R <=> i < j
  BY <1>6
<1>8. /\ \A i \in at : <<i, i>> \notin R
      /\ \A i, j \in at : i # j => <<i, j>> \in R \/ <<j, i>> \in R
      /\ \A i, j, k \in at : <<i, j>> \in R /\ <<j, k>> \in R => <<i, k>> \in R
  BY <1>4, <1>7
<1> DEFINE place(i) == 1 + Cardinality({j \in at : j < i})
           first(k) == CHOOSE i \in at : place(i) = k
<1>9. \A i \in at : 1 + RankIn(R, at, i) = place(i)
  <2> SUFFICES ASSUME NEW i \in at PROVE 1 + RankIn(R, at, i) = place(i)
    OBVIOUS
  <2>1. {j \in at : <<j, i>> \in R} = {j \in at : j < i}
    BY <1>7
  <2> QED BY <2>1 DEF RankIn
<1>10. PICK m \in Nat : m = Cardinality(at)
  BY <1>5, FS_CardinalityType
<1>11. Among(s, set) = [k \in 1 .. m |-> s[first(k)]]
  BY <1>3, <1>10 DEF Among
<1> HIDE DEF place
<1>12. /\ \A i \in at : 1 + RankIn(R, at, i) \in 1 .. m
       /\ \A k \in 1 .. m : \E i \in at : 1 + RankIn(R, at, i) = k
       /\ \A i, j \in at : RankIn(R, at, i) = RankIn(R, at, j) => i = j
  BY <1>5, <1>8, <1>10, RanksNumberSet
<1>13. \A i \in at : RankIn(R, at, i) \in Nat
  <2> SUFFICES ASSUME NEW i \in at PROVE RankIn(R, at, i) \in Nat
    OBVIOUS
  <2>1. IsFiniteSet({j \in at : <<j, i>> \in R})
    BY <1>5, FS_Subset
  <2> QED BY <2>1, FS_CardinalityType DEF RankIn
<1>14. /\ \A i \in at : place(i) \in 1 .. m
       /\ \A k \in 1 .. m : \E i \in at : place(i) = k
       /\ \A i, j \in at : place(i) = place(j) => i = j
  BY <1>9, <1>12, <1>13
<1>15. /\ \A k \in 1 .. m : first(k) \in at
       /\ \A i \in at : first(place(i)) = i
  BY <1>14
<1> HIDE DEF first
<1>16. Among(s, set) \in [1 .. m -> X \cap set]
  BY <1>4, <1>11, <1>15
<1>17. Among(s, set) \in Seq(X \cap set)
  <2>1. \A f \in [1 .. m -> X \cap set] : f \in Seq(X \cap set)
    OBVIOUS
  <2> QED BY <1>16, <2>1
<1>18. ASSUME NEW i \in DOMAIN s, s[i] \in set
       PROVE  \E k \in DOMAIN Among(s, set) : Among(s, set)[k] = s[i]
  <2>1. i \in at
    BY <1>3, <1>18
  <2>2. place(i) \in 1 .. m /\ first(place(i)) = i
    BY <1>14, <1>15, <2>1
  <2>3. PICK k \in 1 .. m : k = place(i)
    BY <2>2
  <2> QED BY <1>11, <2>2, <2>3
<1> QED BY <1>17, <1>18

\* The staged orders in turn, from the state b.
Staging(b, seq) ==
    FoldLeft(OrderEffect, b, seq)

\* What the effect of each staged order keeps, all of them keep,
LEMMA StagingKept ==
    ASSUME NEW St, NEW b \in St, NEW seq, NEW n \in Nat, DOMAIN seq = 1 .. n,
           \A y \in St, k \in 1 .. n : OrderEffect(y, seq[k]) \in St
    PROVE  Staging(b, seq) \in St
<1> DEFINE Is(g) == g = [s \in SUBSET (DOMAIN seq) |->
                           IF s = {} THEN b
                           ELSE OrderEffect(g[s \ {Max(s)}], seq[Max(s)])]
           F == [z \in St \X (1 .. n) |-> OrderEffect(z[1], seq[z[2]])]
<1>1. PICK g \in [SUBSET (1 .. n) -> St] : IsFold(g, F, b, n)
  <2>1. F \in [St \X (1 .. n) -> St]
    OBVIOUS
  <2> HIDE DEF F
  <2> QED BY <2>1, FoldTyped
<1>2. Is(g)
  <2>1. ASSUME NEW s \in SUBSET (1 .. n), s # {}
        PROVE  g[s] = OrderEffect(g[s \ {Max(s)}], seq[Max(s)])
    <3>1. Max(s) \in 1 .. n
      BY <2>1, GreatestChosen
    <3>2. <<g[s \ {Max(s)}], Max(s)>> \in St \X (1 .. n)
      BY <3>1
    <3> QED BY <1>1, <2>1, <3>2 DEF IsFold
  <2>2. g[{}] = b
    BY <1>1 DEF IsFold
  <2> QED BY <2>1, <2>2
<1>3. PICK it : Is(it) /\ Staging(b, seq) = it[DOMAIN seq]
  BY <1>2 DEF Staging, FoldLeft, MapThenFoldSet
<1>4. it[{}] = b
  BY <1>3
<1>5. ASSUME NEW s \in SUBSET (1 .. n), s # {}, it[s \ {Max(s)}] \in St
      PROVE  it[s] \in St
  <2>1. Max(s) \in 1 .. n
    BY <1>5, GreatestChosen
  <2>2. it[s] = OrderEffect(it[s \ {Max(s)}], seq[Max(s)])
    BY <1>3, <1>5
  <2> QED BY <1>5, <2>1, <2>2
<1> HIDE DEF Is
<1>6. \A s \in SUBSET (1 .. n) : it[s] \in St
  BY <1>4, <1>5, FoldKept
<1> QED BY <1>3, <1>6

\* The paratroops, the guns, the transfers and the settled cells in turn.
Drops(w, orders, b, seq) ==
    FoldLeft(LAMBDA acc, i : Paratroop(w, orders, acc, i), b, seq)

\* so with the paratroops of a tick,
LEMMA DropsKept ==
    ASSUME NEW w, NEW orders, NEW St, NEW b \in St, NEW seq, NEW n \in Nat, DOMAIN seq = 1 .. n,
           \A y \in St, k \in 1 .. n : Paratroop(w, orders, y, seq[k]) \in St
    PROVE  Drops(w, orders, b, seq) \in St
<1> DEFINE Is(g) == g = [s \in SUBSET (DOMAIN seq) |->
                           IF s = {} THEN b
                           ELSE Paratroop(w, orders, g[s \ {Max(s)}], seq[Max(s)])]
           F == [z \in St \X (1 .. n) |-> Paratroop(w, orders, z[1], seq[z[2]])]
<1>1. PICK g \in [SUBSET (1 .. n) -> St] : IsFold(g, F, b, n)
  <2>1. F \in [St \X (1 .. n) -> St]
    OBVIOUS
  <2> HIDE DEF F
  <2> QED BY <2>1, FoldTyped
<1>2. Is(g)
  <2>1. ASSUME NEW s \in SUBSET (1 .. n), s # {}
        PROVE  g[s] = Paratroop(w, orders, g[s \ {Max(s)}], seq[Max(s)])
    <3>1. Max(s) \in 1 .. n
      BY <2>1, GreatestChosen
    <3>2. <<g[s \ {Max(s)}], Max(s)>> \in St \X (1 .. n)
      BY <3>1
    <3> QED BY <1>1, <2>1, <3>2 DEF IsFold
  <2>2. g[{}] = b
    BY <1>1 DEF IsFold
  <2> QED BY <2>1, <2>2
<1>3. PICK it : Is(it) /\ Drops(w, orders, b, seq) = it[DOMAIN seq]
  BY <1>2 DEF Drops, FoldLeft, MapThenFoldSet
<1>4. it[{}] = b
  BY <1>3
<1>5. ASSUME NEW s \in SUBSET (1 .. n), s # {}, it[s \ {Max(s)}] \in St
      PROVE  it[s] \in St
  <2>1. Max(s) \in 1 .. n
    BY <1>5, GreatestChosen
  <2>2. it[s] = Paratroop(w, orders, it[s \ {Max(s)}], seq[Max(s)])
    BY <1>3, <1>5
  <2> QED BY <1>5, <2>1, <2>2
<1> HIDE DEF Is
<1>6. \A s \in SUBSET (1 .. n) : it[s] \in St
  BY <1>4, <1>5, FoldKept
<1> QED BY <1>3, <1>6

\* The shots of a tick, fired one after the other from a given state,
Shots(w, orders, b, seq) ==
    FoldLeft(LAMBDA acc, i : Gun(w, orders, acc, i), b, seq)

\* keep what every shot keeps.
LEMMA ShotsKept ==
    ASSUME NEW w, NEW orders, NEW St, NEW b \in St, NEW seq, NEW n \in Nat, DOMAIN seq = 1 .. n,
           \A y \in St, k \in 1 .. n : Gun(w, orders, y, seq[k]) \in St
    PROVE  Shots(w, orders, b, seq) \in St
<1> DEFINE Is(g) == g = [s \in SUBSET (DOMAIN seq) |->
                           IF s = {} THEN b
                           ELSE Gun(w, orders, g[s \ {Max(s)}], seq[Max(s)])]
           F == [z \in St \X (1 .. n) |-> Gun(w, orders, z[1], seq[z[2]])]
<1>1. PICK g \in [SUBSET (1 .. n) -> St] : IsFold(g, F, b, n)
  <2>1. F \in [St \X (1 .. n) -> St]
    OBVIOUS
  <2> HIDE DEF F
  <2> QED BY <2>1, FoldTyped
<1>2. Is(g)
  <2>1. ASSUME NEW s \in SUBSET (1 .. n), s # {}
        PROVE  g[s] = Gun(w, orders, g[s \ {Max(s)}], seq[Max(s)])
    <3>1. Max(s) \in 1 .. n
      BY <2>1, GreatestChosen
    <3>2. <<g[s \ {Max(s)}], Max(s)>> \in St \X (1 .. n)
      BY <3>1
    <3> QED BY <1>1, <2>1, <3>2 DEF IsFold
  <2>2. g[{}] = b
    BY <1>1 DEF IsFold
  <2> QED BY <2>1, <2>2
<1>3. PICK it : Is(it) /\ Shots(w, orders, b, seq) = it[DOMAIN seq]
  BY <1>2 DEF Shots, FoldLeft, MapThenFoldSet
<1>4. it[{}] = b
  BY <1>3
<1>5. ASSUME NEW s \in SUBSET (1 .. n), s # {}, it[s \ {Max(s)}] \in St
      PROVE  it[s] \in St
  <2>1. Max(s) \in 1 .. n
    BY <1>5, GreatestChosen
  <2>2. it[s] = Gun(w, orders, it[s \ {Max(s)}], seq[Max(s)])
    BY <1>3, <1>5
  <2> QED BY <1>5, <2>1, <2>2
<1> HIDE DEF Is
<1>6. \A s \in SUBSET (1 .. n) : it[s] \in St
  BY <1>4, <1>5, FoldKept
<1> QED BY <1>3, <1>6

\* The transfers of a tick, one after the other from a given board,
Moves(w, state, b, seq) ==
    FoldLeft(LAMBDA at, t : Transfer(w, state, at, t), b, seq)

\* keep what every transfer keeps.
LEMMA TransfersKept ==
    ASSUME NEW w, NEW state, NEW St, NEW b \in St, NEW seq, NEW n \in Nat, DOMAIN seq = 1 .. n,
           \A y \in St, k \in 1 .. n : Transfer(w, state, y, seq[k]) \in St
    PROVE  Moves(w, state, b, seq) \in St
<1> DEFINE Is(g) == g = [s \in SUBSET (DOMAIN seq) |->
                           IF s = {} THEN b
                           ELSE Transfer(w, state, g[s \ {Max(s)}], seq[Max(s)])]
           F == [z \in St \X (1 .. n) |-> Transfer(w, state, z[1], seq[z[2]])]
<1>1. PICK g \in [SUBSET (1 .. n) -> St] : IsFold(g, F, b, n)
  <2>1. F \in [St \X (1 .. n) -> St]
    OBVIOUS
  <2> HIDE DEF F
  <2> QED BY <2>1, FoldTyped
<1>2. Is(g)
  <2>1. ASSUME NEW s \in SUBSET (1 .. n), s # {}
        PROVE  g[s] = Transfer(w, state, g[s \ {Max(s)}], seq[Max(s)])
    <3>1. Max(s) \in 1 .. n
      BY <2>1, GreatestChosen
    <3>2. <<g[s \ {Max(s)}], Max(s)>> \in St \X (1 .. n)
      BY <3>1
    <3> QED BY <1>1, <2>1, <3>2 DEF IsFold
  <2>2. g[{}] = b
    BY <1>1 DEF IsFold
  <2> QED BY <2>1, <2>2
<1>3. PICK it : Is(it) /\ Moves(w, state, b, seq) = it[DOMAIN seq]
  BY <1>2 DEF Moves, FoldLeft, MapThenFoldSet
<1>4. it[{}] = b
  BY <1>3
<1>5. ASSUME NEW s \in SUBSET (1 .. n), s # {}, it[s \ {Max(s)}] \in St
      PROVE  it[s] \in St
  <2>1. Max(s) \in 1 .. n
    BY <1>5, GreatestChosen
  <2>2. it[s] = Transfer(w, state, it[s \ {Max(s)}], seq[Max(s)])
    BY <1>3, <1>5
  <2> QED BY <1>5, <2>1, <2>2
<1> HIDE DEF Is
<1>6. \A s \in SUBSET (1 .. n) : it[s] \in St
  BY <1>4, <1>5, FoldKept
<1> QED BY <1>3, <1>6

\* What the fight at a cell makes of the counts and owners (resolveCombat).
SettledCell(w, state, flow, at, c) ==
    [count |-> [at.count EXCEPT ![c] = Fight(w, state, flow, c).count],
     owner |-> [at.owner EXCEPT ![c] = Fight(w, state, flow, c).owner]]

\* The fights of a tick, settled one cell after the other,
SettledCells(w, state, flow, b, seq) ==
    FoldLeft(LAMBDA at, c : SettledCell(w, state, flow, at, c), b, seq)

\* keep what every settled cell keeps.
LEMMA SettledKept ==
    ASSUME NEW w, NEW state, NEW flow, NEW St, NEW b \in St, NEW seq, NEW n \in Nat, DOMAIN seq = 1 .. n,
           \A y \in St, k \in 1 .. n : SettledCell(w, state, flow, y, seq[k]) \in St
    PROVE  SettledCells(w, state, flow, b, seq) \in St
<1> DEFINE Is(g) == g = [s \in SUBSET (DOMAIN seq) |->
                           IF s = {} THEN b
                           ELSE SettledCell(w, state, flow, g[s \ {Max(s)}], seq[Max(s)])]
           F == [z \in St \X (1 .. n) |-> SettledCell(w, state, flow, z[1], seq[z[2]])]
<1>1. PICK g \in [SUBSET (1 .. n) -> St] : IsFold(g, F, b, n)
  <2>1. F \in [St \X (1 .. n) -> St]
    OBVIOUS
  <2> HIDE DEF F
  <2> QED BY <2>1, FoldTyped
<1>2. Is(g)
  <2>1. ASSUME NEW s \in SUBSET (1 .. n), s # {}
        PROVE  g[s] = SettledCell(w, state, flow, g[s \ {Max(s)}], seq[Max(s)])
    <3>1. Max(s) \in 1 .. n
      BY <2>1, GreatestChosen
    <3>2. <<g[s \ {Max(s)}], Max(s)>> \in St \X (1 .. n)
      BY <3>1
    <3> QED BY <1>1, <2>1, <3>2 DEF IsFold
  <2>2. g[{}] = b
    BY <1>1 DEF IsFold
  <2> QED BY <2>1, <2>2
<1>3. PICK it : Is(it) /\ SettledCells(w, state, flow, b, seq) = it[DOMAIN seq]
  BY <1>2 DEF SettledCells, FoldLeft, MapThenFoldSet
<1>4. it[{}] = b
  BY <1>3
<1>5. ASSUME NEW s \in SUBSET (1 .. n), s # {}, it[s \ {Max(s)}] \in St
      PROVE  it[s] \in St
  <2>1. Max(s) \in 1 .. n
    BY <1>5, GreatestChosen
  <2>2. it[s] = SettledCell(w, state, flow, it[s \ {Max(s)}], seq[Max(s)])
    BY <1>3, <1>5
  <2> QED BY <1>5, <2>1, <2>2
<1> HIDE DEF Is
<1>6. \A s \in SUBSET (1 .. n) : it[s] \in St
  BY <1>4, <1>5, FoldKept
<1> QED BY <1>3, <1>6

\* The fighting of a tick in these terms,
LEMMA CombatSettles ==
    ASSUME NEW w, NEW state, NEW flow, NEW f, f = Combat(w, state, flow)
    PROVE  \E after :
              /\ after = SettledCells(w, state, flow, [count |-> flow.count, owner |-> flow.owner],
                                      Among(RowMajor, Contested(w, state, flow)))
              /\ f = [count |-> after.count, owner |-> after.owner, pipes |-> state.pipes,
                      reserves |-> state.reserves, city |-> state.city]
BY DEF Combat, SettledCell, SettledCells

\* the flow,
LEMMA FlowMoves ==
    ASSUME NEW w, NEW state
    PROVE  Flow(w, state) =
             Moves(w, state,
                   [count |-> state.count, owner |-> state.owner,
                    committed |-> [c \in Cells |-> [p \in Bytes(w) |-> 0]]],
                   Transfers(state))
BY DEF Flow, Moves

\* and what comes before the flow.
LEMMA FiredPhases ==
    ASSUME NEW w, NEW orders
    PROVE  Fired(w, orders) =
             Shots(w, orders,
                   Drops(w, orders,
                         [state |-> Production(Staging(w.state, orders)), combat |-> <<>>,
                          errors |-> <<>>, done |-> {}],
                         OfKind(orders, "paratroop")),
                   OfKind(orders, "gun"))
BY DEF Fired, Staging, Drops, Shots

----------------------------------------------------------------------------
(* The types *)

\* The boards of a match of the scenario s: no cell holds more than it can, troops
\* have an owner, and water has neither owners nor cities.
BoardStates(s) ==
    {st \in [count    : [Cells -> 0 .. CellCapacity],
             owner    : [Cells -> 0 .. Len(s.ids)],
             pipes    : [Cells -> SUBSET DOMAIN Offset],
             reserves : [Cells -> 0 .. 9],
             city     : [Cells -> 0 .. Len(s.ids)]] :
        \A c \in Cells :
            /\ st.count[c] > 0 => st.owner[c] # 0
            /\ st.owner[c] # 0 \/ st.city[c] # 0 => c \notin s.water}

\* The commands that point along a pipe.
PipeKinds == {"setPipe", "clearPipe", "setPipesExclusive"}

\* The orders that may wait for a tick: what validateCommand has seen of them.
Stageable(s) ==
    {o \in Menu[s] :
        /\ o.kind \in DOMAIN KindRank
        /\ Dense(s.ids, o.player) # 0
        /\ o.cell \in Cells
        /\ o.kind \in PipeKinds => o.direction \in DOMAIN Offset
        /\ o.kind = "setReserves" => o.percent \in 0 .. 9
        /\ o.kind = "gun" => o.target \in Cells}

\* A player's byte is a number of his match.
LEMMA ByteInMatch ==
    ASSUME NEW ids \in Seq(Int), NEW id
    PROVE  Dense(ids, id) \in 0 .. Len(ids)
<1>1. CASE id \notin ToSet(ids)
  BY <1>1 DEF Dense
<1>2. CASE id \in ToSet(ids)
  <2>1. ids \in Surjection(1 .. Len(ids), ToSet(ids))
    <3>1. \A x \in ToSet(ids) : \E i \in 1 .. Len(ids) : ids[i] = x
      BY DEF ToSet
    <3>2. ids \in [1 .. Len(ids) -> ToSet(ids)]
      BY DEF ToSet
    <3> QED BY <3>1, <3>2 DEF Surjection
  <2>2. IsFiniteSet(1 .. Len(ids)) /\ Cardinality(1 .. Len(ids)) = Len(ids)
    <3>1. PICK n \in Nat : n = Len(ids)
      OBVIOUS
    <3>2. \A m \in Nat : IsFiniteSet(1 .. m) /\ Cardinality(1 .. m) = m
      BY FS_Interval
    <3> QED BY <3>1, <3>2
  <2>3. IsFiniteSet(ToSet(ids)) /\ Cardinality(ToSet(ids)) <= Len(ids)
    BY <2>1, <2>2, FS_Surjection
  <2> DEFINE upto == {i \in ToSet(ids) : i <= id}
  <2>4. upto \in SUBSET ToSet(ids)
    OBVIOUS
  <2>5. Dense(ids, id) = Cardinality(upto)
    BY <1>2 DEF Dense
  <2> HIDE DEF upto
  <2>6. IsFiniteSet(upto) /\ Cardinality(upto) <= Cardinality(ToSet(ids))
    BY <2>3, <2>4, FS_Subset
  <2>7. Cardinality(upto) \in Nat /\ Cardinality(ToSet(ids)) \in Nat
    BY <2>3, <2>6, FS_CardinalityType
  <2> QED BY <2>3, <2>5, <2>6, <2>7
<1> QED BY <1>1, <1>2

\* A state is its parts, and each has its type.
LEMMA BoardIs ==
    ASSUME NEW s, NEW st \in BoardStates(s)
    PROVE  /\ st = [count |-> st.count, owner |-> st.owner, pipes |-> st.pipes,
                    reserves |-> st.reserves, city |-> st.city]
           /\ st.count \in [Cells -> 0 .. CellCapacity]
           /\ st.owner \in [Cells -> 0 .. Len(s.ids)]
           /\ st.pipes \in [Cells -> SUBSET DOMAIN Offset]
           /\ st.reserves \in [Cells -> 0 .. 9]
           /\ st.city \in [Cells -> 0 .. Len(s.ids)]
           /\ \A c \in Cells :
                 /\ st.count[c] > 0 => st.owner[c] # 0
                 /\ st.owner[c] # 0 \/ st.city[c] # 0 => c \notin s.water
BY DEF BoardStates

\* A staged order keeps the types,
LEMMA OrderTyped ==
    ASSUME NEW s, NEW st \in BoardStates(s), NEW o \in Stageable(s)
    PROVE  OrderEffect(st, o) \in BoardStates(s)
<1> DEFINE count == st.count
           owner == st.owner
           pipes == st.pipes
           reserves == st.reserves
           city == st.city
<1>0. st = [count |-> count, owner |-> owner, pipes |-> pipes, reserves |-> reserves, city |-> city]
  BY BoardIs
<1>1. /\ count \in [Cells -> 0 .. CellCapacity]
      /\ owner \in [Cells -> 0 .. Len(s.ids)]
      /\ pipes \in [Cells -> SUBSET DOMAIN Offset]
      /\ reserves \in [Cells -> 0 .. 9]
      /\ city \in [Cells -> 0 .. Len(s.ids)]
      /\ \A c \in Cells :
            /\ count[c] > 0 => owner[c] # 0
            /\ owner[c] # 0 \/ city[c] # 0 => c \notin s.water
  BY BoardIs
<1> HIDE DEF count, owner, pipes, reserves, city
<1>2. o.cell \in Cells
  BY DEF Stageable
<1>3. \A more \in [Cells -> SUBSET DOMAIN Offset] :
         [st EXCEPT !.pipes = more] \in BoardStates(s)
  <2> TAKE more \in [Cells -> SUBSET DOMAIN Offset]
  <2>1. [st EXCEPT !.pipes = more] = [count |-> count, owner |-> owner, pipes |-> more,
                                      reserves |-> reserves, city |-> city]
    BY <1>0
  <2> QED BY <1>1, <2>1 DEF BoardStates
<1>4. \A q \in SUBSET DOMAIN Offset : [st EXCEPT !.pipes[o.cell] = q] \in BoardStates(s)
  <2> TAKE q \in SUBSET DOMAIN Offset
  <2>1. PICK more : more = [pipes EXCEPT ![o.cell] = q]
    OBVIOUS
  <2>2. more \in [Cells -> SUBSET DOMAIN Offset]
    BY <1>1, <2>1
  <2>3. [st EXCEPT !.pipes[o.cell] = q] = [st EXCEPT !.pipes = more]
    BY <1>0, <2>1
  <2> QED BY <1>3, <2>2, <2>3
<1>5. st.pipes[o.cell] \in SUBSET DOMAIN Offset
  BY <1>0, <1>1, <1>2
<1>6. CASE o.kind = "setPipe"
  <2>1. o.direction \in DOMAIN Offset
    BY <1>6 DEF Stageable, PipeKinds
  <2>2. st.pipes[o.cell] \cup {o.direction} \in SUBSET DOMAIN Offset
    BY <1>5, <2>1
  <2>3. OrderEffect(st, o) = [st EXCEPT !.pipes[o.cell] = @ \cup {o.direction}]
    BY <1>6 DEF OrderEffect
  <2> QED BY <1>4, <2>2, <2>3
<1>7. CASE o.kind = "clearPipe"
  <2>1. st.pipes[o.cell] \ {o.direction} \in SUBSET DOMAIN Offset
    BY <1>5
  <2>2. OrderEffect(st, o) = [st EXCEPT !.pipes[o.cell] = @ \ {o.direction}]
    BY <1>7 DEF OrderEffect
  <2> QED BY <1>4, <2>1, <2>2
<1>8. CASE o.kind = "setPipesExclusive"
  <2>1. o.direction \in DOMAIN Offset
    BY <1>8 DEF Stageable, PipeKinds
  <2>2. OrderEffect(st, o) = [st EXCEPT !.pipes[o.cell] = {o.direction}]
    BY <1>8 DEF OrderEffect
  <2> QED BY <1>4, <2>1, <2>2
<1>9. CASE o.kind = "clearAllPipes"
  <2>1. OrderEffect(st, o) = [st EXCEPT !.pipes[o.cell] = {}]
    BY <1>9 DEF OrderEffect
  <2> QED BY <1>4, <2>1
<1>10. CASE o.kind = "setReserves"
  <2>1. o.percent \in 0 .. 9
    BY <1>10 DEF Stageable
  <2>2. OrderEffect(st, o) = [st EXCEPT !.reserves[o.cell] = o.percent]
    BY <1>10 DEF OrderEffect
  <2>3. PICK more : more = [reserves EXCEPT ![o.cell] = o.percent]
    OBVIOUS
  <2>4. OrderEffect(st, o) = [count |-> count, owner |-> owner, pipes |-> pipes,
                              reserves |-> more, city |-> city]
    BY <1>0, <2>2, <2>3
  <2>5. more \in [Cells -> 0 .. 9]
    BY <1>1, <2>1, <2>3
  <2> QED BY <1>1, <2>4, <2>5 DEF BoardStates
<1>11. CASE o.kind \notin PipeKinds \cup {"clearAllPipes", "setReserves"}
  BY <1>11 DEF OrderEffect, PipeKinds
<1> QED BY <1>6, <1>7, <1>8, <1>9, <1>10, <1>11 DEF PipeKinds

\* production,
LEMMA ProductionTyped ==
    ASSUME NEW s, NEW st \in BoardStates(s)
    PROVE  Production(st) \in BoardStates(s)
<1> DEFINE grows(c) == st.city[c] # 0 /\ st.count[c] < CityCapacity
           count == [c \in Cells |-> IF grows(c)
                                     THEN st.count[c] + Least(ProductionRate, CityCapacity - st.count[c])
                                     ELSE st.count[c]]
           owner == [c \in Cells |-> IF grows(c) THEN st.city[c] ELSE st.owner[c]]
<1>0. /\ st = [count |-> st.count, owner |-> st.owner, pipes |-> st.pipes,
               reserves |-> st.reserves, city |-> st.city]
      /\ st.count \in [Cells -> 0 .. CellCapacity]
      /\ st.owner \in [Cells -> 0 .. Len(s.ids)]
      /\ st.pipes \in [Cells -> SUBSET DOMAIN Offset]
      /\ st.reserves \in [Cells -> 0 .. 9]
      /\ st.city \in [Cells -> 0 .. Len(s.ids)]
      /\ \A c \in Cells :
            /\ st.count[c] > 0 => st.owner[c] # 0
            /\ st.owner[c] # 0 \/ st.city[c] # 0 => c \notin s.water
  BY BoardIs
<1>1. Production(st) = [count |-> count, owner |-> owner, pipes |-> st.pipes,
                        reserves |-> st.reserves, city |-> st.city]
  <2>1. Production(st) = [st EXCEPT !.count = count, !.owner = owner]
    BY DEF Production
  <2> HIDE DEF count, owner
  <2> QED BY <1>0, <2>1
<1>2. ASSUME NEW c \in Cells
      PROVE  /\ count[c] \in 0 .. CellCapacity
             /\ owner[c] \in 0 .. Len(s.ids)
             /\ count[c] > 0 => owner[c] # 0
             /\ owner[c] # 0 \/ st.city[c] # 0 => c \notin s.water
  <2>1. st.count[c] \in 0 .. CellCapacity /\ st.owner[c] \in 0 .. Len(s.ids) /\ st.city[c] \in 0 .. Len(s.ids)
    BY <1>0
  <2>2. CASE grows(c)
    <3>1. count[c] = st.count[c] + Least(ProductionRate, CityCapacity - st.count[c]) /\ owner[c] = st.city[c]
      BY <2>2
    <3>2. count[c] \in 0 .. CellCapacity
      BY <2>1, <2>2, <3>1, RulesAssumption DEF Least
    <3>3. owner[c] # 0 /\ owner[c] \in 0 .. Len(s.ids) /\ c \notin s.water
      BY <1>0, <2>1, <2>2, <3>1
    <3> HIDE DEF count, owner
    <3> QED BY <3>2, <3>3
  <2>3. CASE ~grows(c)
    <3>1. count[c] = st.count[c] /\ owner[c] = st.owner[c]
      BY <2>3
    <3> QED BY <1>0, <2>1, <3>1
  <2> QED BY <2>2, <2>3
<1>3. count \in [Cells -> 0 .. CellCapacity] /\ owner \in [Cells -> 0 .. Len(s.ids)]
  BY <1>2
<1> HIDE DEF count, owner
<1> QED BY <1>0, <1>1, <1>2, <1>3 DEF BoardStates

----------------------------------------------------------------------------
(* The order of the staged orders *)

\* Two keys of five numbers compare at the first place where they differ.
LEMMA BelowFive ==
    ASSUME NEW a, NEW b, DOMAIN a = 1 .. 5
    PROVE  Below(a, b)
           <=> \/ a[1] < b[1]
               \/ a[1] = b[1] /\ a[2] < b[2]
               \/ a[1] = b[1] /\ a[2] = b[2] /\ a[3] < b[3]
               \/ a[1] = b[1] /\ a[2] = b[2] /\ a[3] = b[3] /\ a[4] < b[4]
               \/ a[1] = b[1] /\ a[2] = b[2] /\ a[3] = b[3] /\ a[4] = b[4] /\ a[5] < b[5]
<1>1. DOMAIN a = {1, 2, 3, 4, 5}
  OBVIOUS
<1> DEFINE same(i) == \A j \in 1 .. i - 1 : a[j] = b[j]
<1>3. /\ same(1)
      /\ same(2) <=> a[1] = b[1]
      /\ same(3) <=> a[1] = b[1] /\ a[2] = b[2]
      /\ same(4) <=> a[1] = b[1] /\ a[2] = b[2] /\ a[3] = b[3]
      /\ same(5) <=> a[1] = b[1] /\ a[2] = b[2] /\ a[3] = b[3] /\ a[4] = b[4]
  <2>1. \A i \in 1 .. 0 : FALSE
    OBVIOUS
  <2>2. \A i : i \in 1 .. 1 <=> i = 1
    OBVIOUS
  <2>3. \A i : i \in 1 .. 2 <=> i = 1 \/ i = 2
    OBVIOUS
  <2>4. \A i : i \in 1 .. 3 <=> i = 1 \/ i = 2 \/ i = 3
    OBVIOUS
  <2>5. \A i : i \in 1 .. 4 <=> i = 1 \/ i = 2 \/ i = 3 \/ i = 4
    OBVIOUS
  <2> QED BY <2>1, <2>2, <2>3, <2>4, <2>5
<1>4. Below(a, b) <=> \E i \in {1, 2, 3, 4, 5} : a[i] < b[i] /\ same(i)
  BY <1>1 DEF Below
<1> HIDE DEF same
<1> QED BY <1>3, <1>4

\* Which of two staged orders takes effect first.
SortsBefore(staged, i, j) ==
    \/ Below(SortKey(staged[i]), SortKey(staged[j]))
    \/ ~Below(SortKey(staged[j]), SortKey(staged[i])) /\ i < j

\* The order of precedence of n staged orders, as a relation.
Precedence(staged, n) == {e \in (1 .. n) \X (1 .. n) : SortsBefore(staged, e[1], e[2])}

\* The key of an order that may be staged is made of numbers.
LEMMA KeyParts ==
    ASSUME NEW s \in Scenarios, NEW o \in Stageable(s)
    PROVE  /\ o.player \in Int /\ KindRank[o.kind] \in Int
           /\ o.cell[1] \in Int /\ o.cell[2] \in Int
           /\ DirectionRank[o.direction] \in Int
<1>1. s.ids \in Seq(Int) /\ o \in Menu[s]
  BY MenuAssumption DEF Scenarios, Stageable
<1>2. o.player \in ToSet(s.ids)
  BY DEF Stageable, Dense
<1>3. o.player \in Int
  BY <1>1, <1>2 DEF ToSet
<1>4. o.kind \in DOMAIN KindRank /\ o.cell \in Cells
  BY DEF Stageable
<1>5. KindRank[o.kind] \in Int
  BY <1>4 DEF KindRank
<1>6. o.cell[1] \in Int /\ o.cell[2] \in Int
  BY <1>4 DEF Cells
<1>7. o.direction \in DOMAIN Offset \/ o.direction = "none"
  BY <1>1, MenuAssumption DEF Stageable, PipeKinds, Scenarios
<1>8. DirectionRank[o.direction] \in Int
  BY <1>7 DEF DirectionRank, Offset
<1> QED BY <1>3, <1>5, <1>6, <1>8

\* The staged orders are in a strict total order.
LEMMA PrecedenceTotal ==
    ASSUME NEW s \in Scenarios, NEW n \in Nat, NEW staged \in [1 .. n -> Stageable(s)]
    PROVE  /\ \A i \in 1 .. n : ~SortsBefore(staged, i, i)
           /\ \A i, j \in 1 .. n : i # j => SortsBefore(staged, i, j) \/ SortsBefore(staged, j, i)
           /\ \A i, j, k \in 1 .. n :
                SortsBefore(staged, i, j) /\ SortsBefore(staged, j, k) => SortsBefore(staged, i, k)
<1> DEFINE a(i) == staged[i].player
           b(i) == KindRank[staged[i].kind]
           c(i) == staged[i].cell[1]
           d(i) == staged[i].cell[2]
           e(i) == DirectionRank[staged[i].direction]
           less(i, j) == \/ a(i) < a(j)
                         \/ a(i) = a(j) /\ b(i) < b(j)
                         \/ a(i) = a(j) /\ b(i) = b(j) /\ c(i) < c(j)
                         \/ a(i) = a(j) /\ b(i) = b(j) /\ c(i) = c(j) /\ d(i) < d(j)
                         \/ a(i) = a(j) /\ b(i) = b(j) /\ c(i) = c(j) /\ d(i) = d(j) /\ e(i) < e(j)
<1>1. \A i \in 1 .. n : a(i) \in Int /\ b(i) \in Int /\ c(i) \in Int /\ d(i) \in Int /\ e(i) \in Int
  BY KeyParts
<1>2. \A i \in 1 .. n : SortKey(staged[i]) = <<a(i), b(i), c(i), d(i), e(i)>>
  BY DEF SortKey
<1> HIDE DEF a, b, c, d, e
<1>3. \A i, j \in 1 .. n : Below(SortKey(staged[i]), SortKey(staged[j])) <=> less(i, j)
  <2> TAKE i, j \in 1 .. n
  <2> HIDE DEF less
  <2>1. less(i, j) <=> \/ a(i) < a(j)
                       \/ a(i) = a(j) /\ b(i) < b(j)
                       \/ a(i) = a(j) /\ b(i) = b(j) /\ c(i) < c(j)
                       \/ a(i) = a(j) /\ b(i) = b(j) /\ c(i) = c(j) /\ d(i) < d(j)
                       \/ a(i) = a(j) /\ b(i) = b(j) /\ c(i) = c(j) /\ d(i) = d(j) /\ e(i) < e(j)
    BY DEF less
  <2>2. PICK k : k = SortKey(staged[i])
    OBVIOUS
  <2>3. PICK l : l = SortKey(staged[j])
    OBVIOUS
  <2>4. DOMAIN k = 1 .. 5
    BY <1>2, <2>2
  <2>5. /\ k[1] = a(i) /\ k[2] = b(i) /\ k[3] = c(i) /\ k[4] = d(i) /\ k[5] = e(i)
        /\ l[1] = a(j) /\ l[2] = b(j) /\ l[3] = c(j) /\ l[4] = d(j) /\ l[5] = e(j)
    BY <1>2, <2>2, <2>3
  <2>6. Below(k, l)
         <=> \/ k[1] < l[1]
             \/ k[1] = l[1] /\ k[2] < l[2]
             \/ k[1] = l[1] /\ k[2] = l[2] /\ k[3] < l[3]
             \/ k[1] = l[1] /\ k[2] = l[2] /\ k[3] = l[3] /\ k[4] < l[4]
             \/ k[1] = l[1] /\ k[2] = l[2] /\ k[3] = l[3] /\ k[4] = l[4] /\ k[5] < l[5]
    BY <2>4, BelowFive
  <2> QED BY <2>1, <2>2, <2>3, <2>5, <2>6
<1>4. \A i, j \in 1 .. n : SortsBefore(staged, i, j) <=> less(i, j) \/ (~less(j, i) /\ i < j)
  BY <1>3 DEF SortsBefore
<1>5. \A i \in 1 .. n : ~less(i, i)
  BY <1>1
<1>6. \A i, j, k \in 1 .. n : less(i, j) /\ less(j, k) => less(i, k)
  <2> SUFFICES ASSUME NEW i \in 1 .. n, NEW j \in 1 .. n, NEW k \in 1 .. n,
                      less(i, j), less(j, k)
               PROVE  less(i, k)
    OBVIOUS
  <2>1. /\ a(i) \in Int /\ b(i) \in Int /\ c(i) \in Int /\ d(i) \in Int /\ e(i) \in Int
        /\ a(j) \in Int /\ b(j) \in Int /\ c(j) \in Int /\ d(j) \in Int /\ e(j) \in Int
        /\ a(k) \in Int /\ b(k) \in Int /\ c(k) \in Int /\ d(k) \in Int /\ e(k) \in Int
    BY <1>1
  <2> QED BY <2>1
<1>7. \A i, j, k \in 1 .. n : less(i, j) => less(i, k) \/ less(k, j)
  <2> SUFFICES ASSUME NEW i \in 1 .. n, NEW j \in 1 .. n, NEW k \in 1 .. n,
                      less(i, j), ~less(i, k)
               PROVE  less(k, j)
    OBVIOUS
  <2>1. /\ a(i) \in Int /\ b(i) \in Int /\ c(i) \in Int /\ d(i) \in Int /\ e(i) \in Int
        /\ a(j) \in Int /\ b(j) \in Int /\ c(j) \in Int /\ d(j) \in Int /\ e(j) \in Int
        /\ a(k) \in Int /\ b(k) \in Int /\ c(k) \in Int /\ d(k) \in Int /\ e(k) \in Int
    BY <1>1
  <2> QED BY <2>1, SMTT(60)
<1> HIDE DEF less
<1>8. \A i, j \in 1 .. n : i # j => SortsBefore(staged, i, j) \/ SortsBefore(staged, j, i)
  BY <1>4
<1>9. \A i, j, k \in 1 .. n :
        SortsBefore(staged, i, j) /\ SortsBefore(staged, j, k) => SortsBefore(staged, i, k)
  <2> SUFFICES ASSUME NEW i \in 1 .. n, NEW j \in 1 .. n, NEW k \in 1 .. n,
                      SortsBefore(staged, i, j), SortsBefore(staged, j, k)
               PROVE  less(i, k) \/ (~less(k, i) /\ i < k)
    BY <1>4
  <2>1. less(i, j) \/ (~less(j, i) /\ i < j)
    BY <1>4
  <2>2. less(j, k) \/ (~less(k, j) /\ j < k)
    BY <1>4
  <2> QED BY <2>1, <2>2, <1>6, <1>7
<1> QED BY <1>4, <1>5, <1>8, <1>9

\* Where an order comes to stand among the staged ones.
PlaceOf(staged, n, i) == 1 + Rank(Precedence(staged, n), n, i)

\* The places of the staged orders number them.
LEMMA PlacesNumber ==
    ASSUME NEW s \in Scenarios, NEW n \in Nat, NEW staged \in [1 .. n -> Stageable(s)]
    PROVE  /\ \A k \in 1 .. n : \E i \in 1 .. n : PlaceOf(staged, n, i) = k
           /\ \A i, j \in 1 .. n : PlaceOf(staged, n, i) = PlaceOf(staged, n, j) => i = j
<1> DEFINE R == Precedence(staged, n)
<1>1. \A i, j \in 1 .. n : <<i, j>> \in R <=> SortsBefore(staged, i, j)
  BY DEF Precedence
<1> HIDE DEF R
<1>2. /\ \A i \in 1 .. n : <<i, i>> \notin R
      /\ \A i, j \in 1 .. n : i # j => <<i, j>> \in R \/ <<j, i>> \in R
      /\ \A i, j, k \in 1 .. n : <<i, j>> \in R /\ <<j, k>> \in R => <<i, k>> \in R
  BY <1>1, PrecedenceTotal
<1>3. /\ \A i \in 1 .. n : 1 + Rank(R, n, i) \in 1 .. n
      /\ \A k \in 1 .. n : \E i \in 1 .. n : 1 + Rank(R, n, i) = k
      /\ \A i, j \in 1 .. n : Rank(R, n, i) = Rank(R, n, j) => i = j
  BY <1>2, RanksNumber
<1>4. \A i \in 1 .. n : PlaceOf(staged, n, i) = 1 + Rank(R, n, i)
  BY DEF PlaceOf, R
<1>5. \A i, j \in 1 .. n : 1 + Rank(R, n, i) = 1 + Rank(R, n, j) => i = j
  <2>1. \A i \in 1 .. n : Rank(R, n, i) \in Int
    <3> TAKE i \in 1 .. n
    <3>1. IsFiniteSet(1 .. n)
      BY FS_Interval
    <3>2. PICK u \in SUBSET (1 .. n) : Rank(R, n, i) = Cardinality(u)
      <4>1. {j \in 1 .. n : <<j, i>> \in R} \in SUBSET (1 .. n)
        OBVIOUS
      <4> QED BY <4>1 DEF Rank
    <3>3. IsFiniteSet(u)
      BY <3>1, FS_Subset
    <3>4. Cardinality(u) \in Nat
      BY <3>3, FS_CardinalityType
    <3> QED BY <3>2, <3>4
  <2> SUFFICES ASSUME NEW i \in 1 .. n, NEW j \in 1 .. n, 1 + Rank(R, n, i) = 1 + Rank(R, n, j)
               PROVE  Rank(R, n, i) = Rank(R, n, j)
    BY <1>3
  <2> QED BY <2>1
<1> QED BY <1>3, <1>4, <1>5

\* The order that comes to stand at a place.
AtPlace(staged, n, k) == staged[CHOOSE i \in 1 .. n : PlaceOf(staged, n, i) = k]

\* The sort in terms of the places.
LEMMA SortedByPlace ==
    ASSUME NEW s \in Scenarios, NEW n \in Nat, NEW staged \in [1 .. n -> Stageable(s)]
    PROVE  SortedOrders(staged) = [k \in 1 .. n |-> AtPlace(staged, n, k)]
<1> DEFINE before(i, j) == \/ Below(SortKey(staged[i]), SortKey(staged[j]))
                           \/ ~Below(SortKey(staged[j]), SortKey(staged[i])) /\ i < j
           place(i) == 1 + Cardinality({j \in 1 .. n : before(j, i)})
<1>1. DOMAIN staged = 1 .. n
  OBVIOUS
<1>2. SortedOrders(staged) =
        [k \in 1 .. n |-> staged[CHOOSE i \in 1 .. n : place(i) = k]]
  BY <1>1 DEF SortedOrders
<1>3. ASSUME NEW i \in 1 .. n PROVE place(i) = PlaceOf(staged, n, i)
  <2>1. {j \in 1 .. n : before(j, i)} = {j \in 1 .. n : <<j, i>> \in Precedence(staged, n)}
    BY DEF Precedence, SortsBefore
  <2> QED BY <2>1 DEF PlaceOf, Rank
<1> HIDE DEF place
<1>4. ASSUME NEW k \in 1 .. n
      PROVE  (CHOOSE i \in 1 .. n : place(i) = k) = (CHOOSE i \in 1 .. n : PlaceOf(staged, n, i) = k)
  <2>1. \A i : (i \in 1 .. n /\ place(i) = k) <=> (i \in 1 .. n /\ PlaceOf(staged, n, i) = k)
    BY <1>3
  <2> QED BY <2>1
<1> QED BY <1>2, <1>4 DEF AtPlace

\* Sorting moves the staged orders about.
LEMMA SortedTyped ==
    ASSUME NEW s \in Scenarios, NEW staged \in Seq(Stageable(s))
    PROVE  SortedOrders(staged) \in Seq(Stageable(s))
<1>1. PICK n \in Nat : staged \in [1 .. n -> Stageable(s)]
  OBVIOUS
<1>2. ASSUME NEW k \in 1 .. n
      PROVE  AtPlace(staged, n, k) \in Stageable(s)
  <2>1. \E i \in 1 .. n : PlaceOf(staged, n, i) = k
    BY <1>1, PlacesNumber
  <2> QED BY <1>1, <2>1 DEF AtPlace
<1>3. SortedOrders(staged) \in [1 .. n -> Stageable(s)]
  BY <1>1, <1>2, SortedByPlace
<1> QED BY <1>3

----------------------------------------------------------------------------
(* Paratroops and guns *)

\* Troops and an owner are put on a cell,
Put(st, c, m, p) == [st EXCEPT !.count[c] = m, !.owner[c] = p]

\* which keeps the types when the troops have an owner, and he stands on land.
LEMMA PutTyped ==
    ASSUME NEW s, NEW st \in BoardStates(s), NEW c \in Cells,
           NEW m \in 0 .. CellCapacity, NEW p \in 0 .. Len(s.ids),
           m > 0 => p # 0, p # 0 => c \notin s.water
    PROVE  /\ Put(st, c, m, p) \in BoardStates(s)
           /\ Put(st, c, m, p).count = [st.count EXCEPT ![c] = m]
           /\ Put(st, c, m, p).owner = [st.owner EXCEPT ![c] = p]
           /\ Put(st, c, m, p).pipes = st.pipes
           /\ Put(st, c, m, p).reserves = st.reserves
           /\ Put(st, c, m, p).city = st.city
<1> DEFINE count == [st.count EXCEPT ![c] = m]
           owner == [st.owner EXCEPT ![c] = p]
           after == [count |-> count, owner |-> owner, pipes |-> st.pipes,
                     reserves |-> st.reserves, city |-> st.city]
<1>1. /\ st = [count |-> st.count, owner |-> st.owner, pipes |-> st.pipes,
               reserves |-> st.reserves, city |-> st.city]
      /\ st.count \in [Cells -> 0 .. CellCapacity]
      /\ st.owner \in [Cells -> 0 .. Len(s.ids)]
      /\ st.pipes \in [Cells -> SUBSET DOMAIN Offset]
      /\ st.reserves \in [Cells -> 0 .. 9]
      /\ st.city \in [Cells -> 0 .. Len(s.ids)]
      /\ \A d \in Cells :
            /\ st.count[d] > 0 => st.owner[d] # 0
            /\ st.owner[d] # 0 \/ st.city[d] # 0 => d \notin s.water
  BY BoardIs
<1>2. Put(st, c, m, p) = after
  <2>1. Put(st, c, m, p) = [st EXCEPT !.count = count, !.owner = owner]
    <3>1. PICK x : x = [st EXCEPT !.count = count]
      OBVIOUS
    <3>2. x.owner = st.owner /\ [st EXCEPT !.count[c] = m] = x
      BY <1>1, <3>1
    <3>3. [st EXCEPT !.count[c] = m, !.owner[c] = p] = [x EXCEPT !.owner[c] = p]
      BY <3>2
    <3>4. [x EXCEPT !.owner[c] = p] = [x EXCEPT !.owner = owner]
      BY <3>2
    <3> QED BY <3>1, <3>3, <3>4 DEF Put
  <2>2. st = [count |-> st.count, owner |-> st.owner, pipes |-> st.pipes,
              reserves |-> st.reserves, city |-> st.city]
    BY <1>1
  <2> HIDE DEF count, owner
  <2> QED BY <2>1, <2>2
<1>3. /\ count \in [Cells -> 0 .. CellCapacity] /\ owner \in [Cells -> 0 .. Len(s.ids)]
      /\ count[c] = m /\ owner[c] = p
      /\ \A d \in Cells \ {c} : count[d] = st.count[d] /\ owner[d] = st.owner[d]
  BY <1>1
<1>4. \A d \in Cells :
            /\ count[d] > 0 => owner[d] # 0
            /\ owner[d] # 0 \/ st.city[d] # 0 => d \notin s.water
  <2> HIDE DEF count, owner
  <2> TAKE d \in Cells
  <2>1. CASE d = c
    BY <1>1, <1>3, <2>1
  <2>2. CASE d # c
    BY <1>1, <1>3, <2>2
  <2> QED BY <2>1, <2>2
<1> HIDE DEF count, owner
<1>5. after \in BoardStates(s)
  BY <1>1, <1>3, <1>4 DEF BoardStates
<1> QED BY <1>2, <1>5 DEF count, owner

\* Orders that have been checked spend what stands above the floor, and no more.
LEMMA SpendTyped ==
    ASSUME NEW s \in Scenarios, NEW w, w.scenario = s, NEW st \in BoardStates(s),
           NEW o \in Stageable(s), NEW cost \in Nat, SpendError(w, st, o, cost) = Ok
    PROVE  /\ Spend(st, o.cell, cost) \in BoardStates(s)
           /\ cost <= st.count[o.cell]
           /\ st.owner[o.cell] = Dense(s.ids, o.player)
           /\ Dense(s.ids, o.player) \in 1 .. Len(s.ids)
<1> DEFINE c == o.cell
           n == st.count[c]
           p == Dense(s.ids, o.player)
<1>1. /\ st.count \in [Cells -> 0 .. CellCapacity]
      /\ st.owner \in [Cells -> 0 .. Len(s.ids)]
      /\ st.reserves \in [Cells -> 0 .. 9]
      /\ \A d \in Cells : st.owner[d] # 0 => d \notin s.water
  BY BoardIs
<1>2. c \in Cells /\ p # 0
  BY DEF Stageable
<1>3. st.owner[c] = p /\ AboveFloor(st, n, c) >= cost
  <2>1. Ok # "unknown_player" /\ Ok # "not_owner" /\ Ok # "no_source_troops"
    BY DEF Ok
  <2>2. st.owner[c] = p
    BY <2>1 DEF SpendError
  <2>3. ~(AboveFloor(st, n, c) < cost)
    BY <2>1 DEF SpendError
  <2>4. AboveFloor(st, n, c) \in Int
    <3>1. n \in Nat /\ st.reserves[c] \in 0 .. 9
      BY <1>1, <1>2, RulesAssumption
    <3>2. CeilTenth(n, st.reserves[c]) \in 0 .. n
      BY <3>1, FloorBelow
    <3> HIDE DEF n
    <3> QED BY <3>1, <3>2 DEF AboveFloor, ReservesFloor
  <2> QED BY <2>2, <2>3, <2>4
<1>4. n \in 0 .. CellCapacity /\ st.reserves[c] \in 0 .. 9 /\ p \in 0 .. Len(s.ids)
  BY <1>1, <1>2, <1>3
<1>5. cost <= n
  <2>1. n \in Nat
    BY <1>4, RulesAssumption
  <2>2. CeilTenth(n, st.reserves[c]) \in 0 .. n
    BY <1>4, <2>1, FloorBelow
  <2>3. AboveFloor(st, n, c) <= n
    BY <1>4, <2>1, <2>2 DEF AboveFloor, ReservesFloor
  <2>4. AboveFloor(st, n, c) \in Int
    BY <1>4, <2>1, <2>2 DEF AboveFloor, ReservesFloor
  <2> HIDE DEF n
  <2> QED BY <1>3, <2>1, <2>3, <2>4
<1> DEFINE m == n - cost
           q == IF n = cost THEN 0 ELSE p
<1>6. Spend(st, c, cost) = Put(st, c, m, q)
  <2>1. st.count[c] = n /\ st.owner[c] = p
    BY <1>3
  <2> QED BY <1>1, <1>2, <2>1, BoardIs DEF Spend, Put
<1>7. /\ m \in 0 .. CellCapacity /\ q \in 0 .. Len(s.ids)
      /\ m > 0 => q # 0
      /\ q # 0 => c \notin s.water
  <2> HIDE DEF n, p
  <2> QED BY <1>1, <1>2, <1>3, <1>4, <1>5, RulesAssumption
<1> HIDE DEF n, m, q, c, p
<1>8. Put(st, c, m, q) \in BoardStates(s)
  BY <1>2, <1>7, PutTyped
<1>9. p \in 1 .. Len(s.ids)
  <2>1. Len(s.ids) \in Nat
    BY MenuAssumption DEF Scenarios
  <2> QED BY <1>2, <1>4, <2>1
<1> QED BY <1>3, <1>5, <1>6, <1>8, <1>9 DEF c, n, p

\* What a landing makes of its target,
LEMMA LandedTyped ==
    ASSUME NEW s \in Scenarios, NEW st \in BoardStates(s), NEW p \in 1 .. Len(s.ids),
           NEW t \in Cells, t \notin s.water
    PROVE  Landed(st, p, t) \in BoardStates(s)
<1> DEFINE foe == st.owner[t]
           n == st.count[t]
           fight == Attrition(p, ParatroopCost, foe, n)
           after == IF foe \notin {0, p} THEN fight
                    ELSE [owner |-> p, count |-> Least(n + ParatroopCost, CellCapacity)]
<1>1. Landed(st, p, t) = [st EXCEPT !.count[t] = after.count, !.owner[t] = after.owner, !.pipes[t] = {}]
  BY DEF Landed
<1>0. Len(s.ids) \in Nat
  BY MenuAssumption DEF Scenarios
<1>2. n \in 0 .. CellCapacity /\ foe \in 0 .. Len(s.ids)
  BY BoardIs
<1>3. /\ after.count \in 0 .. CellCapacity /\ after.owner \in 0 .. Len(s.ids)
      /\ after.count > 0 => after.owner # 0
  <2> HIDE DEF foe, n
  <2>1. CASE foe \notin {0, p}
    <3>1. foe \in Nat \ {0} /\ p \in Nat \ {0} /\ ParatroopCost \in Nat /\ n \in Nat
      BY <1>0, <1>2, <2>1, RulesAssumption
    <3>2. fight.count \in 0 .. CellCapacity /\ (fight.count > 0 => fight.owner \in {p, foe})
      BY <3>1, AttritionKeeps
    <3>3. fight.owner \in {p, foe, 0}
      BY DEF Attrition
    <3>4. after = fight
      BY <2>1
    <3> HIDE DEF fight, after
    <3> QED BY <1>0, <1>2, <3>1, <3>2, <3>3, <3>4
  <2>2. CASE foe \in {0, p}
    <3>1. after.owner = p /\ after.count = Least(n + ParatroopCost, CellCapacity)
      BY <2>2
    <3> HIDE DEF after
    <3> QED BY <1>0, <1>2, <3>1, RulesAssumption DEF Least
  <2> QED BY <2>1, <2>2
<1> HIDE DEF after
<1>4. PICK x : x = Put(st, t, after.count, after.owner)
  OBVIOUS
<1>5. x \in BoardStates(s)
  BY <1>3, <1>4, PutTyped
<1>6. Landed(st, p, t) = [x EXCEPT !.pipes[t] = {}]
  BY <1>1, <1>4 DEF Put
<1>7. PICK more : more = [x.pipes EXCEPT ![t] = {}]
  OBVIOUS
<1>8. /\ x = [count |-> x.count, owner |-> x.owner, pipes |-> x.pipes,
              reserves |-> x.reserves, city |-> x.city]
      /\ x.pipes \in [Cells -> SUBSET DOMAIN Offset]
  BY <1>5, BoardIs
<1>9. Landed(st, p, t) = [count |-> x.count, owner |-> x.owner, pipes |-> more,
                          reserves |-> x.reserves, city |-> x.city]
  BY <1>6, <1>7, <1>8
<1>10. more \in [Cells -> SUBSET DOMAIN Offset]
  BY <1>7, <1>8
<1> QED BY <1>5, <1>9, <1>10 DEF BoardStates

\* What the phases of paratroops and guns have done so far: the fights and the
\* refusals they report, and the orders that took effect.
Hits(s) == [cell : Cells, attacker : 0 .. Len(s.ids), defender : 0 .. Len(s.ids),
            winner : 0 .. Len(s.ids)]

\* Why a phase may refuse an order.
Reasons == {"unknown_player", "not_owner", "no_source_troops",
            "out_of_bounds", "water_target", "paratroop_range"}

\* An order that a phase refused, and why.
Refusals(s) == [order : Stageable(s), reason : Reasons]

\* A phase's account: the board, and what it has to report.
Phases(s, n) == [state : BoardStates(s), combat : Seq(Hits(s)), errors : Seq(Refusals(s)),
                 done : SUBSET (1 .. n)]

\* A phase that refuses an order only reports it.
LEMMA RefusalTyped ==
    ASSUME NEW s, NEW n \in Nat, NEW acc \in Phases(s, n), NEW o \in Stageable(s), NEW r \in Reasons
    PROVE  [acc EXCEPT !.errors = Append(@, [order |-> o, reason |-> r])] \in Phases(s, n)
<1>1. acc.errors \in Seq(Refusals(s)) /\ [order |-> o, reason |-> r] \in Refusals(s)
  BY DEF Phases, Refusals
<1>2. Append(acc.errors, [order |-> o, reason |-> r]) \in Seq(Refusals(s))
  BY <1>1
<1> QED BY <1>2 DEF Phases

\* What refuses an order in its phase is one of the reasons.
LEMMA ReasonTyped ==
    ASSUME NEW w, NEW st, NEW o, NEW cost
    PROVE  /\ SpendError(w, st, o, cost) \in Reasons \cup {Ok}
           /\ FirstError(DropError(w, o.cell, o.target), SpendError(w, st, o, cost)) \in Reasons \cup {Ok}
<1>1. SpendError(w, st, o, cost) \in Reasons \cup {Ok}
  BY DEF SpendError, Reasons
<1>2. DropError(w, o.cell, o.target) \in Reasons \cup {Ok}
  BY DEF DropError, Reasons
<1> QED BY <1>1, <1>2 DEF FirstError

\* A paratroop keeps the types,
LEMMA ParatroopTyped ==
    ASSUME NEW s \in Scenarios, NEW w, w.scenario = s, NEW n \in Nat,
           NEW orders \in [1 .. n -> Stageable(s)], NEW acc \in Phases(s, n), NEW i \in 1 .. n
    PROVE  Paratroop(w, orders, acc, i) \in Phases(s, n)
<1> DEFINE o == orders[i]
           p == Dense(s.ids, o.player)
           spent == Spend(acc.state, o.cell, 2 * ParatroopCost)
           foe == spent.owner[o.target]
           error == FirstError(DropError(w, o.cell, o.target), SpendError(w, acc.state, o, 2 * ParatroopCost))
           landed == Landed(spent, p, o.target)
           hit == CombatEvent(o.target, p, foe, landed.owner[o.target])
           combat == IF foe \in {0, p} THEN acc.combat ELSE Append(acc.combat, hit)
<1>1. Paratroop(w, orders, acc, i) =
        IF error # Ok THEN [acc EXCEPT !.errors = Append(@, [order |-> o, reason |-> error])]
        ELSE [acc EXCEPT !.state = landed, !.done = @ \cup {i}, !.combat = combat]
  BY DEF Paratroop
<1>2. o \in Stageable(s) /\ acc.state \in BoardStates(s) /\ acc.combat \in Seq(Hits(s))
      /\ acc.done \in SUBSET (1 .. n)
  BY DEF Phases
<1> HIDE DEF o
<1>3. CASE error # Ok
  <2>1. error \in Reasons
    BY <1>3, ReasonTyped
  <2> HIDE DEF error
  <2> QED BY <1>1, <1>2, <1>3, <2>1, RefusalTyped
<1>4. CASE error = Ok
  <2>1. DropError(w, o.cell, o.target) = Ok /\ SpendError(w, acc.state, o, 2 * ParatroopCost) = Ok
    BY <1>4 DEF FirstError
  <2>2. o.target \in Cells /\ o.target \notin s.water
    <3>1. Ok # "out_of_bounds" /\ Ok # "water_target"
      BY DEF Ok
    <3> QED BY <2>1, <3>1 DEF DropError, Land
  <2>3. 2 * ParatroopCost \in Nat
    BY RulesAssumption
  <2>4. spent \in BoardStates(s) /\ p \in 1 .. Len(s.ids)
    BY <1>2, <2>1, <2>3, SpendTyped
  <2> HIDE DEF spent, p
  <2>5. landed \in BoardStates(s)
    BY <2>2, <2>4, LandedTyped
  <2> HIDE DEF landed
  <2>6. hit \in Hits(s)
    <3>1. foe \in 0 .. Len(s.ids) /\ landed.owner[o.target] \in 0 .. Len(s.ids)
      BY <2>2, <2>4, <2>5, BoardIs
    <3>2. p \in 0 .. Len(s.ids)
      BY <2>4
    <3> HIDE DEF foe
    <3> QED BY <2>2, <3>1, <3>2 DEF CombatEvent, Hits
  <2>7. combat \in Seq(Hits(s))
    <3> HIDE DEF hit, foe
    <3> QED BY <1>2, <2>6
  <2>8. acc.done \cup {i} \in SUBSET (1 .. n)
    BY <1>2
  <2>9. Paratroop(w, orders, acc, i) =
          [acc EXCEPT !.state = landed, !.done = acc.done \cup {i}, !.combat = combat]
    BY <1>1, <1>4 DEF Phases
  <2> HIDE DEF combat
  <2> QED BY <2>5, <2>7, <2>8, <2>9 DEF Phases
<1> QED BY <1>3, <1>4

\* and so does a gun.
LEMMA GunTyped ==
    ASSUME NEW s \in Scenarios, NEW w, w.scenario = s, NEW n \in Nat,
           NEW orders \in [1 .. n -> Stageable(s)], NEW acc \in Phases(s, n), NEW i \in 1 .. n,
           orders[i].kind = "gun"
    PROVE  Gun(w, orders, acc, i) \in Phases(s, n)
<1> DEFINE o == orders[i]
           spent == Spend(acc.state, o.cell, GunCost)
           n0 == spent.count[o.target]
           left == n0 - Least(GunDamage, n0)
           q == IF left = 0 /\ n0 > 0 THEN 0 ELSE spent.owner[o.target]
           hit == Put(spent, o.target, left, q)
           error == SpendError(w, acc.state, o, GunCost)
<1>2. o \in Stageable(s) /\ acc.state \in BoardStates(s) /\ acc.combat \in Seq(Hits(s))
      /\ acc.done \in SUBSET (1 .. n) /\ o.target \in Cells
  BY DEF Phases, Stageable
<1>1. Gun(w, orders, acc, i) =
        IF error # Ok THEN [acc EXCEPT !.errors = Append(@, [order |-> o, reason |-> error])]
        ELSE [acc EXCEPT !.state = [spent EXCEPT !.count[o.target] = left,
                 !.owner[o.target] = IF left = 0 /\ n0 > 0 THEN 0 ELSE @], !.done = @ \cup {i}]
  BY DEF Gun
<1> HIDE DEF o
<1>3. CASE error # Ok
  <2>1. error \in Reasons
    BY <1>3, ReasonTyped
  <2> HIDE DEF error
  <2> QED BY <1>1, <1>2, <1>3, <2>1, RefusalTyped
<1>4. CASE error = Ok
  <2>1. spent \in BoardStates(s)
    BY <1>2, <1>4, RulesAssumption, SpendTyped
  <2> HIDE DEF spent, error
  <2>2. n0 \in 0 .. CellCapacity /\ spent.owner[o.target] \in 0 .. Len(s.ids)
        /\ (n0 > 0 => spent.owner[o.target] # 0)
        /\ (spent.owner[o.target] # 0 => o.target \notin s.water)
    BY <1>2, <2>1, BoardIs
  <2>0. Len(s.ids) \in Nat
    BY MenuAssumption DEF Scenarios
  <2>3. left \in 0 .. CellCapacity /\ q \in 0 .. Len(s.ids) /\ (left > 0 => q # 0)
        /\ (q # 0 => o.target \notin s.water)
    <3> HIDE DEF n0
    <3> QED BY <2>0, <2>2, RulesAssumption DEF Least
  <2>4. hit = [spent EXCEPT !.count[o.target] = left,
                 !.owner[o.target] = IF left = 0 /\ n0 > 0 THEN 0 ELSE @]
    <3>1. /\ spent = [count |-> spent.count, owner |-> spent.owner, pipes |-> spent.pipes,
                      reserves |-> spent.reserves, city |-> spent.city]
          /\ spent.owner \in [Cells -> 0 .. Len(s.ids)]
      BY <2>1, BoardIs
    <3> HIDE DEF left, n0
    <3> QED BY <3>1, <1>2 DEF Put
  <2> HIDE DEF left, q
  <2>5. hit \in BoardStates(s)
    BY <1>2, <2>1, <2>3, PutTyped
  <2>6. acc.done \cup {i} \in SUBSET (1 .. n)
    BY <1>2
  <2>7. Gun(w, orders, acc, i) = [acc EXCEPT !.state = hit, !.done = acc.done \cup {i}]
    BY <1>1, <1>4, <2>4 DEF Phases
  <2> HIDE DEF hit
  <2> QED BY <2>5, <2>6, <2>7 DEF Phases
<1> QED BY <1>3, <1>4

----------------------------------------------------------------------------
(* Flow *)

\* Every point of the board has a place in row-major order.
LEMMA RowMajorCells ==
    /\ RowMajor \in Seq(Cells)
    /\ \A c \in Cells : \E k \in DOMAIN RowMajor : RowMajor[k] = c
<1>1. Width \in Nat \ {0}
  BY RulesAssumption
<1> DEFINE n == Width * Width
<1>2. n \in Nat
  BY <1>1
<1>3. ASSUME NEW k \in 1 .. n
      PROVE  <<(k - 1) % Width, (k - 1) \div Width>> \in Cells
  <2>1. (k - 1) % Width \in 0 .. Width - 1
    BY <1>1
  <2>2. PICK y \in Int : y = (k - 1) \div Width
    BY <1>1
  <2>3. k - 1 = (Width * y) + ((k - 1) % Width)
    BY <1>1, <2>2
  <2>4. y >= 0
    BY <1>1, <2>2
  <2>5. k - 1 < Width * Width
    <3>1. k - 1 < n
      <4> HIDE DEF n
      <4> QED BY <1>2
    <3> QED BY <3>1
  <2>6. y < Width
    BY <1>1, <2>2, <2>5
  <2>7. PICK x \in 0 .. Width - 1 : x = (k - 1) % Width
    BY <2>1
  <2>8. y \in 0 .. Width - 1
    BY <1>1, <2>2, <2>4, <2>6
  <2>9. <<x, y>> \in Cells
    BY <2>7, <2>8 DEF Cells
  <2> QED BY <2>2, <2>7, <2>9, Zenon
<1>4. RowMajor \in [1 .. n -> Cells]
  BY <1>3 DEF RowMajor
<1>5. ASSUME NEW c \in Cells
      PROVE  \E k \in DOMAIN RowMajor : RowMajor[k] = c
  <2>1. PICK x \in 0 .. Width - 1, y \in 0 .. Width - 1 : c = <<x, y>>
    BY DEF Cells
  <2>2. PICK z \in Nat : z = Width * y
    BY <1>1
  <2> DEFINE k == z + x + 1
  <2>3. k \in 1 .. n
    <3>1. z <= Width * (Width - 1)
      BY <1>1, <2>2
    <3>2. Width * (Width - 1) = n - Width
      BY <1>1
    <3> HIDE DEF n
    <3> QED BY <1>1, <1>2, <2>1, <3>1, <3>2
  <2>4. (k - 1) % Width = x /\ (k - 1) \div Width = y
    BY <1>1, <2>1, <2>2
  <2>5. k \in DOMAIN RowMajor
    BY <2>3 DEF RowMajor
  <2>6. RowMajor[k] = <<(k - 1) % Width, (k - 1) \div Width>>
    BY <2>3 DEF RowMajor
  <2> QED BY <2>1, <2>4, <2>5, <2>6
<1> QED BY <1>2, <1>4, <1>5

\* The pipes of a cell are directions.
LEMMA PipesTyped ==
    ASSUME NEW st, NEW c
    PROVE  PipesOf(st, c) \in Seq(DOMAIN Offset)
<1>1. Compass \in Seq(DOMAIN Offset)
  BY DEF Compass, Offset
<1>2. Among(Compass, st.pipes[c]) \in Seq((DOMAIN Offset) \cap st.pipes[c])
  BY <1>1, AmongKept
<1> QED BY <1>2 DEF PipesOf

\* A transfer goes along a pipe of a cell that has troops and an owner.
Transferable(st) ==
    {t \in Cells \X (Nat \ {0}) :
        /\ st.count[t[1]] # 0 /\ st.owner[t[1]] # 0
        /\ t[2] \in DOMAIN PipesOf(st, t[1])}

\* The list of transfers holds nothing else.
LEMMA TransfersTyped ==
    ASSUME NEW s, NEW st \in BoardStates(s)
    PROVE  Transfers(st) \in Seq(Transferable(st))
<1> DEFINE from(k) == IF st.count[RowMajor[k]] = 0 \/ st.owner[RowMajor[k]] = 0 THEN <<>>
                      ELSE [i \in DOMAIN PipesOf(st, RowMajor[k]) |-> <<RowMajor[k], i>>]
           all == [k \in DOMAIN RowMajor |-> from(k)]
<1>1. Transfers(st) = FlattenSeq(all)
  BY DEF Transfers
<1>2. ASSUME NEW k \in DOMAIN RowMajor
      PROVE  from(k) \in Seq(Transferable(st))
  <2>1. PICK c \in Cells : c = RowMajor[k]
    BY RowMajorCells
  <2>2. PICK m \in Nat : DOMAIN PipesOf(st, c) = 1 .. m
    BY PipesTyped
  <2>3. CASE st.count[c] = 0 \/ st.owner[c] = 0
    <3>1. from(k) = <<>>
      BY <2>1, <2>3
    <3> QED BY <3>1
  <2>4. CASE st.count[c] # 0 /\ st.owner[c] # 0
    <3>1. from(k) = [i \in 1 .. m |-> <<c, i>>]
      BY <2>1, <2>2, <2>4
    <3>2. \A i \in 1 .. m : <<c, i>> \in Transferable(st)
      BY <2>2, <2>4 DEF Transferable
    <3> HIDE DEF from
    <3>3. from(k) \in [1 .. m -> Transferable(st)]
      BY <3>1, <3>2
    <3> QED BY <3>3
  <2> QED BY <2>3, <2>4
<1> HIDE DEF from
<1>3. all \in Seq(Seq(Transferable(st)))
  <2>1. PICK n \in Nat : DOMAIN RowMajor = 1 .. n
    BY RowMajorCells
  <2>2. all \in [1 .. n -> Seq(Transferable(st))]
    BY <1>2, <2>1
  <2> QED BY <2>2
<1> HIDE DEF all
<1> QED BY <1>1, <1>3, FlattenKept

\* What the flow has done so far: counts, owners, and what was sent to whom.
Flows(s) ==
    {at \in [count : [Cells -> 0 .. CellCapacity], owner : [Cells -> 0 .. Len(s.ids)],
             committed : [Cells -> [1 .. Len(s.ids) -> Nat]]] :
        \A c \in Cells :
            /\ at.count[c] > 0 => at.owner[c] # 0
            /\ at.owner[c] # 0 => c \notin s.water
            /\ \A p \in 1 .. Len(s.ids) : at.committed[c][p] > 0 => c \notin s.water}

\* The amounts that a transfer sends and that arrive.
Amounts(at, src, dst, sent, arrives) ==
    /\ arrives \in Nat /\ sent \in Nat
    /\ arrives <= sent /\ arrives <= at.count[src]
    /\ at.count[dst] + arrives <= CellCapacity

\* What such amounts make of the board: the troops arrive under their owner.
Carried(state, at, src, dst, sent, arrives) ==
    [count     |-> [at.count EXCEPT ![dst] = @ + arrives, ![src] = @ - arrives],
     owner     |-> [at.owner EXCEPT ![dst] = IF arrives = 0 THEN @ ELSE state.owner[src]],
     committed |-> [at.committed EXCEPT ![dst][state.owner[src]] = @ + sent]]

\* A transfer changes nothing, or moves troops onto a neighbouring cell of land.
LEMMA TransferCarries ==
    ASSUME NEW s \in Scenarios, NEW w, w.scenario = s, NEW state \in BoardStates(s),
           NEW at \in Flows(s), NEW t \in Transferable(state),
           NEW src \in Cells, src = t[1], NEW dst, dst = Toward(src, PipesOf(state, src)[t[2]])
    PROVE  \/ Transfer(w, state, at, t) = at
           \/ /\ dst \in Cells /\ dst \notin s.water
              /\ \E sent, arrives : /\ Amounts(at, src, dst, sent, arrives)
                                    /\ Transfer(w, state, at, t) = Carried(state, at, src, dst, sent, arrives)
<1> DEFINE pipes == PipesOf(state, src)
           k == t[2]
           n == Len(pipes)
           has == at.count[src]
           pct == state.reserves[src]
           spare == has - CeilTenth(has, pct)
           available == -Least(0, CeilTenth(state.count[src], pct) - has)
           base == Least(FlowRate \div n, available \div (n - k + 1))
           moved == FlowRateForDelta(s.elevation[dst] - s.elevation[src], base)
           sent == Least(moved, spare)
           arrives == Least(sent, CellCapacity - at.count[dst])
<1>1. Transfer(w, state, at, t) =
        IF dst \notin Cells \/ dst \notin Land(w) \/ spare = 0 \/ moved = 0 THEN at
        ELSE Carried(state, at, src, dst, sent, arrives)
  BY DEF Transfer, Carried
<1>2. Land(w) = Cells \ s.water
  BY DEF Land
<1> SUFFICES ASSUME dst \in Cells, dst \notin s.water
             PROVE  Amounts(at, src, dst, sent, arrives)
  <2> HIDE DEF sent, arrives, spare, moved
  <2> QED BY <1>1, <1>2
<1>3. pipes \in Seq(DOMAIN Offset)
  BY PipesTyped
<1>4. n \in Nat \ {0} /\ k \in 1 .. n
  <2>1. k \in DOMAIN pipes
    BY DEF Transferable
  <2> HIDE DEF pipes
  <2> QED BY <1>3, <2>1
<1>5. /\ has \in 0 .. CellCapacity /\ at.count[dst] \in 0 .. CellCapacity
      /\ has \in Nat /\ at.count[dst] \in Nat
  BY RulesAssumption DEF Flows
<1>6. state.count[src] \in Nat /\ pct \in 0 .. 9
  BY BoardIs, RulesAssumption
<1>7. s.elevation[dst] - s.elevation[src] \in Int
  <2>1. s.elevation[dst] \in Int /\ s.elevation[src] \in Int
    <3>1. s.elevation \in [Cells -> 0 .. 255]
      BY MenuAssumption DEF Scenarios
    <3> QED BY <3>1
  <2> QED BY <2>1
<1> HIDE DEF pipes, n, k, has, pct
<1>8. base \in Nat
  <2> HIDE DEF available
  <2>1. base = Least(FlowRate \div n, (-Least(0, CeilTenth(state.count[src], pct) - has)) \div (n - k + 1))
    BY DEF available
  <2> HIDE DEF base
  <2> QED BY <1>4, <1>5, <1>6, <2>1, BaseNatural
<1> HIDE DEF base
<1>9. moved \in Nat
  BY <1>7, <1>8, RateNatural
<1> HIDE DEF moved
<1>10. CeilTenth(has, pct) \in 0 .. has
  BY <1>5, <1>6, FloorBelow
<1>11. spare \in 0 .. has
  <2> HIDE DEF spare
  <2>1. PICK r \in 0 .. has : r = CeilTenth(has, pct)
    BY <1>10
  <2> QED BY <1>5, <2>1 DEF spare
<1> HIDE DEF spare
<1>12. sent \in Nat /\ sent <= has
  BY <1>5, <1>9, <1>11 DEF Least
<1> HIDE DEF sent
<1>13. arrives \in Nat /\ arrives <= sent /\ arrives <= has /\ at.count[dst] + arrives <= CellCapacity
  BY <1>5, <1>12, RulesAssumption DEF Least
<1> QED BY <1>12, <1>13 DEF Amounts, has

\* A neighbour is another cell.
LEMMA NeighbourDiffers ==
    ASSUME NEW c \in Cells, NEW d \in DOMAIN Offset
    PROVE  Toward(c, d) # c
<1>1. PICK x \in Int, y \in Int : c = <<x, y>>
  BY DEF Cells
<1>2. d \in {"N", "E", "S", "W"}
  BY DEF Offset
<1>3. Toward(c, d) \in {<<x, y - 1>>, <<x + 1, y>>, <<x, y + 1>>, <<x - 1, y>>}
  BY <1>1, <1>2 DEF Toward, Offset
<1> QED BY <1>1, <1>3

\* Carrying keeps the types.
LEMMA CarriedTyped ==
    ASSUME NEW s \in Scenarios, NEW state \in BoardStates(s), NEW at \in Flows(s),
           NEW src \in Cells, NEW dst \in Cells, dst # src, dst \notin s.water,
           state.owner[src] # 0,
           NEW sent, NEW arrives, Amounts(at, src, dst, sent, arrives)
    PROVE  Carried(state, at, src, dst, sent, arrives) \in Flows(s)
<1> DEFINE p == state.owner[src]
           count == [at.count EXCEPT ![dst] = @ + arrives, ![src] = @ - arrives]
           owner == [at.owner EXCEPT ![dst] = IF arrives = 0 THEN @ ELSE p]
           committed == [at.committed EXCEPT ![dst][p] = @ + sent]
<1>0. Len(s.ids) \in Nat
  BY MenuAssumption DEF Scenarios
<1>1. /\ at.count \in [Cells -> 0 .. CellCapacity]
      /\ at.owner \in [Cells -> 0 .. Len(s.ids)]
      /\ at.committed \in [Cells -> [1 .. Len(s.ids) -> Nat]]
      /\ \A c \in Cells :
            /\ at.count[c] > 0 => at.owner[c] # 0
            /\ at.owner[c] # 0 => c \notin s.water
            /\ \A q \in 1 .. Len(s.ids) : at.committed[c][q] > 0 => c \notin s.water
  BY DEF Flows
<1>2. p \in 1 .. Len(s.ids)
  BY <1>0, BoardIs
<1> HIDE DEF p
<1>3. /\ count \in [Cells -> Int]
      /\ count[dst] = at.count[dst] + arrives /\ count[src] = at.count[src] - arrives
      /\ \A c \in Cells \ {src, dst} : count[c] = at.count[c]
  <2>1. arrives \in Nat /\ \A c \in Cells : at.count[c] \in Nat
    BY <1>1, RulesAssumption DEF Amounts
  <2> QED BY <1>1, <2>1
<1>4. /\ owner \in [Cells -> 0 .. Len(s.ids)]
      /\ owner[dst] = IF arrives = 0 THEN at.owner[dst] ELSE p
      /\ \A c \in Cells \ {dst} : owner[c] = at.owner[c]
  BY <1>0, <1>1, <1>2
<1>5. /\ committed \in [Cells -> [1 .. Len(s.ids) -> Nat]]
      /\ \A c \in Cells \ {dst} : committed[c] = at.committed[c]
  <2>1. sent \in Nat
    BY DEF Amounts
  <2>2. at.committed[dst] \in [1 .. Len(s.ids) -> Nat]
    BY <1>1
  <2>3. PICK row : row = [at.committed[dst] EXCEPT ![p] = @ + sent]
    OBVIOUS
  <2>4. row \in [1 .. Len(s.ids) -> Nat]
    BY <1>2, <2>1, <2>2, <2>3
  <2>5. committed = [at.committed EXCEPT ![dst] = row]
    BY <1>1, <2>3
  <2> HIDE DEF committed
  <2> QED BY <1>1, <2>4, <2>5
<1> HIDE DEF count, owner, committed
<1>6. \A c \in Cells : at.count[c] \in 0 .. CellCapacity /\ at.count[c] \in Nat
  BY <1>1, RulesAssumption
<1>7. ASSUME NEW c \in Cells
      PROVE  /\ count[c] \in 0 .. CellCapacity
             /\ count[c] > 0 => owner[c] # 0
             /\ owner[c] # 0 => c \notin s.water
             /\ \A q \in 1 .. Len(s.ids) : committed[c][q] > 0 => c \notin s.water
  <2>1. CASE c = dst
    <3>1. count[c] \in 0 .. CellCapacity
      BY <1>3, <1>6, <2>1, RulesAssumption DEF Amounts
    <3>2. count[c] > 0 => owner[c] # 0
      BY <1>0, <1>1, <1>2, <1>3, <1>4, <1>6, <2>1 DEF Amounts
    <3> QED BY <2>1, <3>1, <3>2
  <2>2. CASE c = src
    <3>1. count[c] \in 0 .. CellCapacity /\ count[c] <= at.count[c]
      BY <1>3, <1>6, <2>2, RulesAssumption DEF Amounts
    <3>2. owner[c] = at.owner[c] /\ committed[c] = at.committed[c]
      BY <1>4, <1>5, <2>2
    <3>3. at.count[c] \in Nat
      BY <1>6
    <3> QED BY <1>1, <3>1, <3>2, <3>3
  <2>3. CASE c # src /\ c # dst
    <3>1. owner[c] = at.owner[c] /\ committed[c] = at.committed[c] /\ count[c] = at.count[c]
      BY <1>3, <1>4, <1>5, <2>3
    <3> QED BY <1>1, <3>1
  <2> QED BY <2>1, <2>2, <2>3
<1>8. count \in [Cells -> 0 .. CellCapacity]
  BY <1>3, <1>7
<1>9. Carried(state, at, src, dst, sent, arrives) = [count |-> count, owner |-> owner, committed |-> committed]
  BY DEF Carried, count, owner, committed, p
<1> QED BY <1>4, <1>5, <1>7, <1>8, <1>9 DEF Flows

\* So does a transfer, and the flow as a whole.
LEMMA TransferTyped ==
    ASSUME NEW s \in Scenarios, NEW w, w.scenario = s, NEW state \in BoardStates(s),
           NEW at \in Flows(s), NEW t \in Transferable(state)
    PROVE  Transfer(w, state, at, t) \in Flows(s)
<1>source. PICK src \in Cells : src = t[1]
  BY DEF Transferable
<1>1. PICK dst : src = t[1] /\ dst = Toward(src, PipesOf(state, src)[t[2]])
  BY <1>source
<1>2. state.owner[src] # 0 /\ PipesOf(state, src)[t[2]] \in DOMAIN Offset
  BY <1>1, PipesTyped DEF Transferable
<1>3. dst # src
  BY <1>1, <1>2, NeighbourDiffers
<1>4. CASE Transfer(w, state, at, t) = at
  BY <1>4
<1>5. CASE Transfer(w, state, at, t) # at
  <2>1. PICK sent, arrives : /\ dst \in Cells /\ dst \notin s.water
                             /\ Amounts(at, src, dst, sent, arrives)
                             /\ Transfer(w, state, at, t) = Carried(state, at, src, dst, sent, arrives)
    BY <1>1, <1>5, TransferCarries
  <2> QED BY <1>2, <1>3, <2>1, CarriedTyped
<1> QED BY <1>4, <1>5

\* Flow keeps the types (resolveFlow).
LEMMA FlowTyped ==
    ASSUME NEW s \in Scenarios, NEW w, w.scenario = s, NEW state \in BoardStates(s)
    PROVE  Flow(w, state) \in Flows(s)
<1> DEFINE b == [count |-> state.count, owner |-> state.owner,
                 committed |-> [c \in Cells |-> [p \in Bytes(w) |-> 0]]]
           seq == Transfers(state)
<1>1. seq \in Seq(Transferable(state))
  BY TransfersTyped
<1>2. PICK n \in Nat : DOMAIN seq = 1 .. n
  BY <1>1
<1>3. \A y \in Flows(s), k \in 1 .. n : Transfer(w, state, y, seq[k]) \in Flows(s)
  <2> TAKE y \in Flows(s), k \in 1 .. n
  <2>1. PICK t \in Transferable(state) : t = seq[k]
    BY <1>1, <1>2
  <2> QED BY <2>1, TransferTyped
<1>4. b \in Flows(s)
  <2>1. /\ state.count \in [Cells -> 0 .. CellCapacity]
        /\ state.owner \in [Cells -> 0 .. Len(s.ids)]
        /\ \A d \in Cells :
              /\ state.count[d] > 0 => state.owner[d] # 0
              /\ state.owner[d] # 0 => d \notin s.water
    BY BoardIs
  <2>2. Bytes(w) = 1 .. Len(s.ids)
    BY DEF Bytes
  <2> DEFINE none == [c \in Cells |-> [p \in Bytes(w) |-> 0]]
  <2>3. none \in [Cells -> [1 .. Len(s.ids) -> Nat]] /\ \A c \in Cells, p \in 1 .. Len(s.ids) : none[c][p] = 0
    BY <2>2
  <2>4. b = [count |-> state.count, owner |-> state.owner, committed |-> none]
    OBVIOUS
  <2> HIDE DEF none, b
  <2>5. \A c \in Cells, p \in 1 .. Len(s.ids) : ~(none[c][p] > 0)
    BY <2>3
  <2> QED BY <2>1, <2>3, <2>4, <2>5 DEF Flows
<1> HIDE DEF b, seq
<1>5. Moves(w, state, b, seq) \in Flows(s)
  BY <1>2, <1>3, <1>4, TransfersKept
<1> QED BY <1>5, FlowMoves DEF b, seq

----------------------------------------------------------------------------
(* Combat, capture and decay *)

\* Of finitely many sides one is dominant.
LEMMA SomeDominant ==
    ASSUME NEW n \in Nat, NEW force \in [1 .. n -> Nat]
    PROVE  \A T \in SUBSET (1 .. n) : T # {} =>
             \E p \in T : \A q \in T \ {p} :
                force[p] > force[q] \/ (force[p] = force[q] /\ p < q)
<1> DEFINE Best(T, p) == \A q \in T \ {p} : force[p] > force[q] \/ (force[p] = force[q] /\ p < q)
           S == {m \in Nat : m <= n => \A T \in SUBSET (1 .. m) : T # {} => \E p \in T : Best(T, p)}
<1>1. 0 \in S
  <2>1. \A T \in SUBSET (1 .. 0) : T = {}
    OBVIOUS
  <2> QED BY <2>1
<1>2. \A m \in Nat : m \in S => m + 1 \in S
  <2> HIDE DEF Best
  <2> HIDE DEF S
  <2> SUFFICES ASSUME NEW m \in Nat, m \in S PROVE m + 1 \in S
    OBVIOUS
  <2> SUFFICES ASSUME m + 1 <= n, NEW T \in SUBSET (1 .. m + 1), T # {}
               PROVE  \E p \in T : Best(T, p)
    BY DEF S
  <2>0. \A U \in SUBSET (1 .. m) : U # {} => \E p \in U : Best(U, p)
    BY DEF S
  <2> USE DEF Best
  <2>1. CASE m + 1 \notin T
    <3>1. T \in SUBSET (1 .. m)
      BY <2>1
    <3> HIDE DEF Best
    <3> QED BY <2>0, <3>1
  <2>2. CASE T = {m + 1}
    BY <2>2
  <2>3. CASE m + 1 \in T /\ T # {m + 1}
    <3> DEFINE U == T \ {m + 1}
    <3>1. U \in SUBSET (1 .. m) /\ U # {}
      BY <2>3
    <3> HIDE DEF U
    <3>2. PICK p \in U : Best(U, p)
      <4> HIDE DEF Best
      <4> QED BY <2>0, <3>1
    <3>3. p \in 1 .. m /\ p \in 1 .. n /\ m + 1 \in 1 .. n /\ p < m + 1
      BY <3>1
    <3>4. force[p] \in Nat /\ force[m + 1] \in Nat /\ \A q \in U : force[q] \in Nat
      BY <3>1, <3>3
    <3>5. CASE force[m + 1] > force[p]
      <4>1. ASSUME NEW q \in T \ {m + 1} PROVE force[m + 1] > force[q]
        <5>1. q \in U
          BY <4>1 DEF U
        <5>2. q = p \/ force[p] > force[q] \/ force[p] = force[q]
          BY <3>2, <5>1
        <5> QED BY <3>4, <3>5, <5>1, <5>2
      <4>2. Best(T, m + 1)
        BY <4>1
      <4> HIDE DEF Best
      <4> QED BY <2>3, <4>2
    <3>6. CASE ~(force[m + 1] > force[p])
      <4>1. ASSUME NEW q \in T \ {p}
            PROVE  force[p] > force[q] \/ (force[p] = force[q] /\ p < q)
        <5>1. CASE q = m + 1
          BY <3>3, <3>4, <3>6, <5>1
        <5>2. CASE q # m + 1
          <6>1. q \in U \ {p}
            BY <5>2 DEF U
          <6> QED BY <3>2, <6>1
        <5> QED BY <5>1, <5>2
      <4>2. Best(T, p) /\ p \in T
        BY <4>1 DEF U
      <4> HIDE DEF Best
      <4> QED BY <4>2
    <3> QED BY <3>5, <3>6
  <2> QED BY <2>1, <2>2, <2>3
<1> HIDE DEF S
<1>3. Nat \subseteq S
  BY <1>1, <1>2, NatInductionInSet
<1>4. n \in S
  BY <1>3
<1> QED BY <1>4 DEF S

\* The sides of a cell and their forces.
LEMMA SidesTyped ==
    ASSUME NEW s \in Scenarios, NEW w, w.scenario = s, NEW state \in BoardStates(s),
           NEW flow \in Flows(s), NEW c \in Cells
    PROVE  /\ Sides(w, state, flow, c) \in SUBSET (1 .. Len(s.ids))
           /\ \A p \in 1 .. Len(s.ids) : ForceOf(state, flow, c, p) \in Nat
           /\ Sides(w, state, flow, c) # {} =>
                /\ Dominant(w, state, flow, c) \in Sides(w, state, flow, c)
                /\ Min(Sides(w, state, flow, c)) \in Sides(w, state, flow, c)
                /\ Max(Sides(w, state, flow, c)) \in Sides(w, state, flow, c)
                /\ c \notin s.water
<1> DEFINE T == Sides(w, state, flow, c)
           force == [p \in 1 .. Len(s.ids) |-> ForceOf(state, flow, c, p)]
<1>0. Len(s.ids) \in Nat
  BY MenuAssumption DEF Scenarios
<1>1. T \in SUBSET (1 .. Len(s.ids))
  BY DEF Sides, Bytes
<1>2. \A p \in 1 .. Len(s.ids) : ForceOf(state, flow, c, p) \in Nat
  <2> TAKE p \in 1 .. Len(s.ids)
  <2>1. state.count[c] \in Nat
    BY BoardIs, RulesAssumption
  <2>2. flow.committed[c][p] \in Nat
    BY DEF Flows
  <2> QED BY <2>1, <2>2 DEF ForceOf
<1>3. force \in [1 .. Len(s.ids) -> Nat]
  BY <1>2
<1>4. ASSUME T # {}
      PROVE  Dominant(w, state, flow, c) \in T
  <2>1. PICK p \in T : \A q \in T \ {p} : force[p] > force[q] \/ (force[p] = force[q] /\ p < q)
    <3> HIDE DEF T, force
    <3> QED BY <1>0, <1>1, <1>3, <1>4, SomeDominant
  <2>2. \E p1 \in T : \A q \in T \ {p1} :
            \/ ForceOf(state, flow, c, p1) > ForceOf(state, flow, c, q)
            \/ ForceOf(state, flow, c, p1) = ForceOf(state, flow, c, q) /\ p1 < q
    <3> HIDE DEF T
    <3>1. \A q \in T : force[q] = ForceOf(state, flow, c, q)
      BY <1>1
    <3>2. \A q \in T \ {p} :
            \/ ForceOf(state, flow, c, p) > ForceOf(state, flow, c, q)
            \/ ForceOf(state, flow, c, p) = ForceOf(state, flow, c, q) /\ p < q
      BY <2>1, <3>1
    <3> QED BY <3>2
  <2> QED BY <2>2 DEF Dominant
<1>5. ASSUME T # {}
      PROVE  Min(T) \in T /\ Max(T) \in T
  <2> HIDE DEF T
  <2>1. T \subseteq Nat
    BY <1>1
  <2> QED BY <1>0, <1>1, <1>5, <2>1, LeastChosen, GreatestChosen
<1>6. ASSUME T # {}
      PROVE  c \notin s.water
  <2>1. PICK p \in 1 .. Len(s.ids) : flow.committed[c][p] > 0 \/ state.owner[c] = p
    BY <1>6 DEF Sides, Bytes
  <2> QED BY <2>1, BoardIs DEF Flows
<1> QED BY <1>1, <1>2, <1>4, <1>5, <1>6

\* What a fight leaves at a cell.
LEMMA FightTyped ==
    ASSUME NEW s \in Scenarios, NEW w, w.scenario = s, NEW state \in BoardStates(s),
           NEW flow \in Flows(s), NEW c \in Contested(w, state, flow)
    PROVE  /\ c \in Cells /\ c \notin s.water
           /\ Fight(w, state, flow, c).count \in 0 .. CellCapacity
           /\ Fight(w, state, flow, c).owner \in 0 .. Len(s.ids)
           /\ Fight(w, state, flow, c).count > 0 => Fight(w, state, flow, c).owner # 0
<1> DEFINE T == Sides(w, state, flow, c)
           a == Min(T)
           b == Max(T)
           d == Dominant(w, state, flow, c)
           fa == ForceOf(state, flow, c, a)
           fb == ForceOf(state, flow, c, b)
           fd == ForceOf(state, flow, c, d)
<1>0. Len(s.ids) \in Nat
  BY MenuAssumption DEF Scenarios
<1>1. c \in Cells /\ Cardinality(T) >= 2
  BY DEF Contested
<1>2. T # {}
  <2>1. Cardinality({}) = 0
    BY FS_EmptySet
  <2> QED BY <1>1, <2>1
<1>3. /\ a \in 1 .. Len(s.ids) /\ b \in 1 .. Len(s.ids) /\ d \in 1 .. Len(s.ids)
      /\ c \notin s.water
  BY <1>1, <1>2, SidesTyped
<1>4. fa \in Nat /\ fb \in Nat /\ fd \in Nat
  BY <1>1, <1>3, SidesTyped
<1>5. Fight(w, state, flow, c) = IF Cardinality(T) = 2 THEN Attrition(a, fa, b, fb)
                                 ELSE [owner |-> d, count |-> Least(fd, CellCapacity)]
  BY DEF Fight
<1> HIDE DEF T, a, b, d, fa, fb, fd
<1>6. CASE Cardinality(T) = 2
  <2>1. a \in Nat \ {0} /\ b \in Nat \ {0}
    BY <1>0, <1>3
  <2>2. PICK f : f = Attrition(a, fa, b, fb)
    OBVIOUS
  <2>3. f.count \in 0 .. CellCapacity /\ (f.count > 0 => f.owner \in {a, b})
    BY <1>4, <2>1, <2>2, AttritionKeeps
  <2>4. f.owner \in {a, b, 0}
    BY <2>2 DEF Attrition
  <2>5. Fight(w, state, flow, c) = f
    BY <1>5, <1>6, <2>2
  <2> QED BY <1>0, <1>1, <1>3, <2>1, <2>3, <2>4, <2>5
<1>7. CASE Cardinality(T) # 2
  <2>1. Fight(w, state, flow, c) = [owner |-> d, count |-> Least(fd, CellCapacity)]
    BY <1>5, <1>7
  <2>2. Least(fd, CellCapacity) \in 0 .. CellCapacity
    BY <1>4, RulesAssumption DEF Least
  <2> QED BY <1>0, <1>1, <1>3, <2>1, <2>2
<1> QED BY <1>6, <1>7

\* Fighting keeps the types: the cells are settled one by one.
LEMMA CombatTyped ==
    ASSUME NEW s \in Scenarios, NEW w, w.scenario = s, NEW state \in BoardStates(s),
           NEW flow \in Flows(s)
    PROVE  Combat(w, state, flow) \in BoardStates(s)
<1> DEFINE St == {at \in [count : [Cells -> 0 .. CellCapacity], owner : [Cells -> 0 .. Len(s.ids)]] :
                    \A c \in Cells : /\ at.count[c] > 0 => at.owner[c] # 0
                                     /\ at.owner[c] # 0 => c \notin s.water}
           b == [count |-> flow.count, owner |-> flow.owner]
           fought == Contested(w, state, flow)
           seq == Among(RowMajor, fought)
<1>1. seq \in Seq(Cells \cap fought)
  BY RowMajorCells, AmongKept
<1>2. PICK n \in Nat : DOMAIN seq = 1 .. n
  BY <1>1
<1>3. b \in St
  BY DEF Flows
<1>4. ASSUME NEW at \in St, NEW c \in fought
      PROVE  SettledCell(w, state, flow, at, c) \in St
  <2>1. PICK m \in 0 .. CellCapacity, p \in 0 .. Len(s.ids) :
          /\ m = Fight(w, state, flow, c).count /\ p = Fight(w, state, flow, c).owner
          /\ m > 0 => p # 0
          /\ c \in Cells /\ c \notin s.water
    BY FightTyped
  <2>2. SettledCell(w, state, flow, at, c) = [count |-> [at.count EXCEPT ![c] = m],
                                              owner |-> [at.owner EXCEPT ![c] = p]]
    BY <2>1 DEF SettledCell
  <2> DEFINE count == [at.count EXCEPT ![c] = m]
             owner == [at.owner EXCEPT ![c] = p]
  <2>3. /\ count \in [Cells -> 0 .. CellCapacity] /\ owner \in [Cells -> 0 .. Len(s.ids)]
        /\ count[c] = m /\ owner[c] = p
        /\ \A e \in Cells \ {c} : count[e] = at.count[e] /\ owner[e] = at.owner[e]
    BY <2>1
  <2> HIDE DEF count, owner
  <2>4. \A e \in Cells : /\ count[e] > 0 => owner[e] # 0
                         /\ owner[e] # 0 => e \notin s.water
    <3> TAKE e \in Cells
    <3>1. CASE e = c BY <2>1, <2>3, <3>1
    <3>2. CASE e # c BY <2>3, <3>2
    <3> QED BY <3>1, <3>2
  <2>5. [count |-> count, owner |-> owner] \in St
    BY <2>3, <2>4
  <2> QED BY <2>2, <2>5 DEF count, owner
<1> HIDE DEF St
<1>5. \A y \in St, k \in 1 .. n : SettledCell(w, state, flow, y, seq[k]) \in St
  <2> TAKE y \in St, k \in 1 .. n
  <2>1. seq[k] \in fought
    BY <1>1, <1>2
  <2> QED BY <1>4, <2>1
<1>6. PICK after : /\ after = SettledCells(w, state, flow, b, seq)
                   /\ Combat(w, state, flow) = [count |-> after.count, owner |-> after.owner,
                          pipes |-> state.pipes, reserves |-> state.reserves, city |-> state.city]
  BY CombatSettles
<1> HIDE DEF b, seq, fought
<1>7. after \in St
  BY <1>2, <1>3, <1>5, <1>6, SettledKept
<1>8. /\ after.count \in [Cells -> 0 .. CellCapacity] /\ after.owner \in [Cells -> 0 .. Len(s.ids)]
      /\ \A c \in Cells : /\ after.count[c] > 0 => after.owner[c] # 0
                          /\ after.owner[c] # 0 => c \notin s.water
  BY <1>7 DEF St
<1>9. /\ state.pipes \in [Cells -> SUBSET DOMAIN Offset] /\ state.reserves \in [Cells -> 0 .. 9]
      /\ state.city \in [Cells -> 0 .. Len(s.ids)]
      /\ \A c \in Cells : state.city[c] # 0 => c \notin s.water
  BY BoardIs
<1> QED BY <1>6, <1>8, <1>9 DEF BoardStates

\* Capture keeps the types (resolveCapture).
LEMMA CaptureTyped ==
    ASSUME NEW s, NEW st \in BoardStates(s)
    PROVE  Capture(st) \in BoardStates(s)
<1> DEFINE city == [c \in Cells |-> IF c \in Captured(st) THEN st.owner[c] ELSE st.city[c]]
<1>1. /\ st = [count |-> st.count, owner |-> st.owner, pipes |-> st.pipes,
               reserves |-> st.reserves, city |-> st.city]
      /\ st.count \in [Cells -> 0 .. CellCapacity]
      /\ st.owner \in [Cells -> 0 .. Len(s.ids)]
      /\ st.pipes \in [Cells -> SUBSET DOMAIN Offset]
      /\ st.reserves \in [Cells -> 0 .. 9]
      /\ st.city \in [Cells -> 0 .. Len(s.ids)]
      /\ \A d \in Cells :
            /\ st.count[d] > 0 => st.owner[d] # 0
            /\ st.owner[d] # 0 \/ st.city[d] # 0 => d \notin s.water
  BY BoardIs
<1>2. Capture(st) = [st EXCEPT !.city = city]
  BY DEF Capture
<1>3. /\ city \in [Cells -> 0 .. Len(s.ids)]
      /\ \A d \in Cells : city[d] # 0 => d \notin s.water
  BY <1>1
<1> HIDE DEF city
<1>4. Capture(st) = [count |-> st.count, owner |-> st.owner, pipes |-> st.pipes,
                     reserves |-> st.reserves, city |-> city]
  BY <1>1, <1>2
<1> QED BY <1>1, <1>3, <1>4 DEF BoardStates

\* Decay keeps the types, takes no city, and adds no troops (resolveDecay).
LEMMA DecayTyped ==
    ASSUME NEW s \in Scenarios, NEW st \in BoardStates(s)
    PROVE  /\ Decay(st) \in BoardStates(s)
           /\ Decay(st).city = st.city
           /\ \A c \in Cells : /\ Decay(st).count[c] <= st.count[c]
                               /\ Decay(st).owner[c] \in {0, st.owner[c]}
<1> DEFINE floor(c) == CeilTenth(st.count[c], st.reserves[c])
           decays(c) == /\ st.count[c] > 0 /\ st.owner[c] # 0 /\ st.city[c] = 0
                        /\ ~Fed(st, c) /\ st.count[c] > floor(c)
           rest(c) == -Least(-(st.count[c] - DecayPerTick), -floor(c))
           count == [c \in Cells |-> IF decays(c) THEN rest(c) ELSE st.count[c]]
           owner == [c \in Cells |-> IF decays(c) /\ rest(c) = 0 THEN 0 ELSE st.owner[c]]
<1>0. Len(s.ids) \in Nat
  BY MenuAssumption DEF Scenarios
<1>1. /\ st = [count |-> st.count, owner |-> st.owner, pipes |-> st.pipes,
               reserves |-> st.reserves, city |-> st.city]
      /\ st.count \in [Cells -> 0 .. CellCapacity]
      /\ st.owner \in [Cells -> 0 .. Len(s.ids)]
      /\ st.pipes \in [Cells -> SUBSET DOMAIN Offset]
      /\ st.reserves \in [Cells -> 0 .. 9]
      /\ st.city \in [Cells -> 0 .. Len(s.ids)]
      /\ \A d \in Cells :
            /\ st.count[d] > 0 => st.owner[d] # 0
            /\ st.owner[d] # 0 \/ st.city[d] # 0 => d \notin s.water
  BY BoardIs
<1>2. Decay(st) = [st EXCEPT !.count = count, !.owner = owner]
  BY DEF Decay
<1>3. ASSUME NEW c \in Cells
      PROVE  /\ decays(c) => rest(c) \in 0 .. CellCapacity /\ rest(c) <= st.count[c] /\ st.owner[c] # 0
             /\ st.count[c] \in 0 .. CellCapacity /\ st.count[c] \in Nat
  <2>1. st.count[c] \in 0 .. CellCapacity /\ st.count[c] \in Nat /\ st.reserves[c] \in 0 .. 9
    BY <1>1, RulesAssumption
  <2>2. PICK r \in 0 .. st.count[c] : r = floor(c)
    BY <2>1, FloorBelow
  <2>3. DecayPerTick \in {0, 1}
    BY RulesAssumption
  <2> HIDE DEF floor
  <2>4. decays(c) => rest(c) \in 0 .. CellCapacity /\ rest(c) <= st.count[c]
    BY <2>1, <2>2, <2>3, RulesAssumption DEF Least
  <2> QED BY <2>1, <2>4
<1> HIDE DEF floor, decays, rest
<1>4. ASSUME NEW c \in Cells
      PROVE  /\ count[c] \in 0 .. CellCapacity /\ count[c] <= st.count[c]
             /\ owner[c] \in {0, st.owner[c]} /\ owner[c] \in 0 .. Len(s.ids)
             /\ count[c] > 0 => owner[c] # 0
             /\ owner[c] # 0 => c \notin s.water
  <2>1. st.owner[c] \in 0 .. Len(s.ids) /\ (st.count[c] > 0 => st.owner[c] # 0)
        /\ (st.owner[c] # 0 => c \notin s.water)
    BY <1>1
  <2>2. CASE decays(c)
    <3>1. count[c] = rest(c) /\ owner[c] = IF rest(c) = 0 THEN 0 ELSE st.owner[c]
      BY <2>2
    <3>2. rest(c) \in 0 .. CellCapacity /\ rest(c) <= st.count[c] /\ st.owner[c] # 0
      BY <1>3, <2>2
    <3> HIDE DEF count, owner
    <3> QED BY <1>0, <2>1, <3>1, <3>2
  <2>3. CASE ~decays(c)
    <3>1. count[c] = st.count[c] /\ owner[c] = st.owner[c]
      BY <2>3
    <3>2. st.count[c] \in 0 .. CellCapacity /\ st.count[c] \in Nat
      BY <1>3
    <3> HIDE DEF count, owner
    <3> QED BY <2>1, <3>1, <3>2
  <2> QED BY <2>2, <2>3
<1>5. count = [c \in Cells |-> count[c]] /\ owner = [c \in Cells |-> owner[c]]
  OBVIOUS
<1> HIDE DEF count, owner
<1>6. Decay(st) = [count |-> count, owner |-> owner, pipes |-> st.pipes,
                   reserves |-> st.reserves, city |-> st.city]
  BY <1>1, <1>2
<1>7. count \in [Cells -> 0 .. CellCapacity] /\ owner \in [Cells -> 0 .. Len(s.ids)]
  BY <1>4, <1>5
<1>8. Decay(st) \in BoardStates(s)
  BY <1>1, <1>4, <1>6, <1>7 DEF BoardStates
<1> QED BY <1>4, <1>6, <1>8

----------------------------------------------------------------------------
(* The phases of a tick *)

\* The orders of a kind.
LEMMA OfKindTyped ==
    ASSUME NEW X, NEW orders \in Seq(X), NEW kind
    PROVE  OfKind(orders, kind) \in Seq({i \in DOMAIN orders : orders[i].kind = kind})
<1> DEFINE these == {i \in DOMAIN orders : orders[i].kind = kind}
<1>1. Places(orders) \in Seq(DOMAIN orders)
  BY DEF Places
<1>2. Among(Places(orders), these) \in Seq((DOMAIN orders) \cap these)
  BY <1>1, AmongKept
<1>3. (DOMAIN orders) \cap these = these
  OBVIOUS
<1> QED BY <1>2, <1>3 DEF OfKind

\* The phases of the orders keep the types.
LEMMA PhasesTyped ==
    ASSUME NEW s \in Scenarios, NEW w, w.scenario = s, w.state \in BoardStates(s),
           NEW n \in Nat, NEW orders \in [1 .. n -> Stageable(s)]
    PROVE  /\ Staging(w.state, orders) \in BoardStates(s)
           /\ LET start == [state |-> Production(Staging(w.state, orders)), combat |-> <<>>,
                            errors |-> <<>>, done |-> {}]
                  dropped == Drops(w, orders, start, OfKind(orders, "paratroop"))
              IN  /\ start \in Phases(s, n)
                  /\ dropped \in Phases(s, n)
                  /\ Shots(w, orders, dropped, OfKind(orders, "gun")) \in Phases(s, n)
<1>0. orders \in Seq(Stageable(s)) /\ DOMAIN orders = 1 .. n
  OBVIOUS
<1>1. Staging(w.state, orders) \in BoardStates(s)
  <2>1. \A y \in BoardStates(s), k \in 1 .. n : OrderEffect(y, orders[k]) \in BoardStates(s)
    BY OrderTyped
  <2> QED BY <1>0, <2>1, StagingKept
<1> DEFINE start == [state |-> Production(Staging(w.state, orders)), combat |-> <<>>,
                     errors |-> <<>>, done |-> {}]
           drops == OfKind(orders, "paratroop")
           dropped == Drops(w, orders, start, drops)
           guns == OfKind(orders, "gun")
<1>2. start \in Phases(s, n)
  <2>1. Production(Staging(w.state, orders)) \in BoardStates(s)
    BY <1>1, ProductionTyped
  <2>2. <<>> \in Seq(Hits(s)) /\ <<>> \in Seq(Refusals(s)) /\ {} \in SUBSET (1 .. n)
    OBVIOUS
  <2> QED BY <2>1, <2>2 DEF Phases
<1>3. /\ drops \in Seq({i \in 1 .. n : orders[i].kind = "paratroop"})
      /\ guns \in Seq({i \in 1 .. n : orders[i].kind = "gun"})
  BY <1>0, OfKindTyped
<1> HIDE DEF start, drops, guns
<1>4. dropped \in Phases(s, n)
  <2>1. PICK m \in Nat : DOMAIN drops = 1 .. m
    BY <1>3
  <2>2. \A y \in Phases(s, n), k \in 1 .. m : Paratroop(w, orders, y, drops[k]) \in Phases(s, n)
    <3> TAKE y \in Phases(s, n), k \in 1 .. m
    <3>1. PICK i \in 1 .. n : i = drops[k]
      BY <1>3, <2>1
    <3> QED BY <3>1, ParatroopTyped
  <2> QED BY <1>2, <2>1, <2>2, DropsKept
<1> HIDE DEF dropped
<1>5. Shots(w, orders, dropped, guns) \in Phases(s, n)
  <2>1. PICK m \in Nat : DOMAIN guns = 1 .. m
    BY <1>3
  <2>2. \A y \in Phases(s, n), k \in 1 .. m : Gun(w, orders, y, guns[k]) \in Phases(s, n)
    <3> TAKE y \in Phases(s, n), k \in 1 .. m
    <3>1. PICK i \in 1 .. n : i = guns[k] /\ orders[i].kind = "gun"
      BY <1>3, <2>1
    <3> QED BY <3>1, GunTyped
  <2> QED BY <1>4, <2>1, <2>2, ShotsKept
<1> QED BY <1>1, <1>2, <1>4, <1>5 DEF start, drops, dropped, guns

----------------------------------------------------------------------------
(* Type correctness *)

\* What every step of a match keeps: TypeOK, with what it leaves out about water
\* and owners, and what the staged orders are known to satisfy.
Sound ==
    /\ WorldShape
    /\ world.scenario \in Scenarios
    /\ world.tick <= MaxTick
    /\ world.state \in BoardStates(world.scenario)
    /\ \A p \in Bytes(world) : world.players[p].status \in {"alive", "eliminated"}
    /\ pending \in Seq(Stageable(world.scenario))

\* What validateCommand lets through may be staged.
LEMMA ValidatedStageable ==
    ASSUME NEW o \in Menu[world.scenario], ValidateCommand(world, o) = Ok, o.kind # "surrender"
    PROVE  o \in Stageable(world.scenario)
<1> DEFINE own == SourceError(world, o.cell, o.player)
<1>0. Ok \notin Reasons \cup {"invalid_direction", "invalid_percent", "unknown_order"}
  BY DEF Ok, Reasons
<1>1. own = Ok => o.cell \in Cells /\ Dense(world.scenario.ids, o.player) # 0
  BY <1>0 DEF SourceError, Reasons
<1> HIDE DEF own
<1>2. CASE o.kind = "setPipe"
  <2>1. o.direction \in DOMAIN Offset
    BY <1>0, <1>2 DEF ValidateCommand
  <2>2. own = Ok
    BY <1>0, <1>2, <2>1 DEF ValidateCommand, own
  <2>3. o.kind \in DOMAIN KindRank
    BY <1>2 DEF KindRank
  <2> QED BY <1>1, <1>2, <2>1, <2>2, <2>3 DEF Stageable
<1>3. CASE o.kind \in {"clearPipe", "setPipesExclusive"}
  <2>1. o.direction \in DOMAIN Offset
    BY <1>0, <1>3 DEF ValidateCommand
  <2>2. own = Ok
    BY <1>0, <1>3, <2>1 DEF ValidateCommand, own
  <2>3. o.kind \in DOMAIN KindRank
    BY <1>3 DEF KindRank
  <2> QED BY <1>1, <1>3, <2>1, <2>2, <2>3 DEF Stageable
<1>4. CASE o.kind = "clearAllPipes"
  <2>1. own = Ok
    BY <1>0, <1>4 DEF ValidateCommand, own
  <2>2. o.kind \in DOMAIN KindRank /\ o.kind \notin PipeKinds
    BY <1>4 DEF KindRank, PipeKinds
  <2> QED BY <1>1, <1>4, <2>1, <2>2 DEF Stageable
<1>5. CASE o.kind = "setReserves"
  <2>1. o.percent \in 0 .. 9 /\ own = Ok
    BY <1>0, <1>5 DEF ValidateCommand, own
  <2>2. o.kind \in DOMAIN KindRank /\ o.kind \notin PipeKinds
    BY <1>5 DEF KindRank, PipeKinds
  <2> QED BY <1>1, <1>5, <2>1, <2>2 DEF Stageable
<1>6. CASE o.kind = "paratroop"
  <2>1. own = Ok
    BY <1>0, <1>6 DEF ValidateCommand, own
  <2>2. o.kind \in DOMAIN KindRank /\ o.kind \notin PipeKinds
    BY <1>6 DEF KindRank, PipeKinds
  <2> QED BY <1>1, <1>6, <2>1, <2>2 DEF Stageable
<1>7. CASE o.kind = "gun"
  <2>1. own = Ok /\ o.target \in Cells
    BY <1>0, <1>7 DEF ValidateCommand, own, Reasons
  <2>2. o.kind \in DOMAIN KindRank /\ o.kind \notin PipeKinds
    BY <1>7 DEF KindRank, PipeKinds
  <2> QED BY <1>1, <1>7, <2>1, <2>2 DEF Stageable
<1>8. CASE o.kind \notin {"setPipe", "clearPipe", "setPipesExclusive", "clearAllPipes",
                          "setReserves", "paratroop", "gun"}
  BY <1>0, <1>8 DEF ValidateCommand
<1> QED BY <1>2, <1>3, <1>4, <1>5, <1>6, <1>7, <1>8

\* The world createWorld makes is sound.
LEMMA CreatedSound == ASSUME Init PROVE Sound
<1>1. PICK s \in Scenarios : world = CreateWorld(s)
  BY DEF Init
<1> DEFINE in(c) == \E k \in DOMAIN s.ids : c \in s.cities[k]
           owner(c) == IF in(c) THEN Dense(s.ids, s.ids[CHOOSE k \in DOMAIN s.ids : c \in s.cities[k]])
                       ELSE 0
           city == [c \in Cells |-> owner(c)]
           none == [c \in Cells |-> 0]
           open == [c \in Cells |-> {}]
<1>2. s.ids \in Seq(Int) /\ Len(s.ids) \in Nat /\ s.cities \in [DOMAIN s.ids -> SUBSET (Cells \ s.water)]
  BY MenuAssumption DEF Scenarios
<1>3. WorldShape
  BY <1>1, CreatedShape
<1>4. /\ world.scenario = s /\ world.tick = 0
      /\ world.state = [count |-> none, owner |-> none, pipes |-> open, reserves |-> none, city |-> city]
      /\ \A p \in DOMAIN s.ids : world.players[p].status = "alive"
  BY <1>1 DEF CreateWorld
<1>5. ASSUME NEW c \in Cells
      PROVE  city[c] \in 0 .. Len(s.ids) /\ (city[c] # 0 => c \notin s.water)
  <2>1. CASE in(c)
    <3>1. city[c] \in 0 .. Len(s.ids)
      BY <1>2, <2>1, ByteInMatch
    <3>2. c \notin s.water
      BY <1>2, <2>1
    <3> QED BY <3>1, <3>2
  <2>2. CASE ~in(c)
    BY <1>2, <2>2
  <2> QED BY <2>1, <2>2
<1>6. city \in [Cells -> 0 .. Len(s.ids)]
  BY <1>5
<1> HIDE DEF city
<1>7. world.state \in BoardStates(s)
  <2>1. /\ none \in [Cells -> 0 .. CellCapacity] /\ none \in [Cells -> 0 .. Len(s.ids)]
        /\ none \in [Cells -> 0 .. 9] /\ open \in [Cells -> SUBSET DOMAIN Offset]
        /\ \A c \in Cells : none[c] = 0
    BY <1>2, RulesAssumption
  <2> HIDE DEF none, open
  <2> QED BY <1>4, <1>5, <1>6, <2>1 DEF BoardStates
<1>8. \A p \in Bytes(world) : world.players[p].status \in {"alive", "eliminated"}
  <2>1. Bytes(world) = DOMAIN s.ids
    BY <1>2, <1>4 DEF Bytes
  <2> QED BY <1>4, <2>1
<1>9. pending \in Seq(Stageable(world.scenario))
  BY DEF Init
<1>10. world.tick <= MaxTick
  BY <1>4, RulesAssumption
<1> QED BY <1>3, <1>4, <1>7, <1>8, <1>9, <1>10 DEF Sound

\* A command keeps the match sound,
LEMMA SubmitSound ==
    ASSUME Sound, NEW o \in Menu[world.scenario], Submit(o)
    PROVE  Sound'
<1>1. /\ world' = ApplyCommand(world, pending, o).world
      /\ pending' = ApplyCommand(world, pending, o).pending
  BY DEF Submit
<1>2. CASE ValidateCommand(world, o) # Ok
  <2>1. world' = world /\ pending' = pending
    BY <1>1, <1>2 DEF ApplyCommand
  <2> QED BY <2>1 DEF Sound, WorldShape, Bytes
<1>3. CASE ValidateCommand(world, o) = Ok /\ o.kind = "surrender"
  <2>1. /\ world' = [world EXCEPT !.players[Dense(world.scenario.ids, o.player)].status = "eliminated"]
        /\ pending' = pending
    BY <1>1, <1>3 DEF ApplyCommand
  <2>2. /\ WorldShape' /\ world'.tick = world.tick /\ world'.state = world.state
        /\ Bytes(world)' = Bytes(world)
        /\ \A p \in Bytes(world) : world'.players[p].status \in {world.players[p].status, "eliminated"}
    BY <2>1, EliminatedShape DEF Sound
  <2>3. world'.scenario = world.scenario
    <3>1. PICK ps : ps = [world.players EXCEPT ![Dense(world.scenario.ids, o.player)].status = "eliminated"]
      OBVIOUS
    <3>2. world' = [world EXCEPT !.players = ps]
      BY <2>1, <3>1 DEF Sound, WorldShape
    <3> QED BY <3>2 DEF Sound, WorldShape
  <2> QED BY <2>1, <2>2, <2>3 DEF Sound
<1>4. CASE ValidateCommand(world, o) = Ok /\ o.kind # "surrender"
  <2>1. world' = world /\ pending' = Append(pending, o)
    BY <1>1, <1>4 DEF ApplyCommand
  <2>2. o \in Stageable(world.scenario)
    BY <1>4, ValidatedStageable
  <2>3. Append(pending, o) \in Seq(Stageable(world.scenario))
    BY <2>2 DEF Sound
  <2> QED BY <2>1, <2>3 DEF Sound, WorldShape, Bytes
<1> QED BY <1>2, <1>3, <1>4

\* The flow of a tick,
FlowOf(w, orders) == Flow(w, Fired(w, orders).state)

\* and the fights after it.
Fought(w, orders) == Combat(w, Fired(w, orders).state, FlowOf(w, orders))

\* A finished match stands still.
LEMMA TickStands ==
    ASSUME NEW w, NEW staged, IsTerminal(w)
    PROVE  TickResult(w, staged) = [world |-> w, pending |-> staged, events |-> Quiet]
BY DEF TickResult

\* A tick of a match that goes on, in these terms.
LEMMA TickOf ==
    ASSUME NEW w, NEW staged, ~IsTerminal(w), NEW orders, orders = SortedOrders(staged)
    PROVE  /\ TickResult(w, staged).world = Settled(w, Fought(w, orders))
           /\ TickResult(w, staged).pending = <<>>
           /\ TickResult(w, staged).events =
                [combat |-> Fired(w, orders).combat
                              \o CombatEvents(w, Fired(w, orders).state, FlowOf(w, orders)),
                 captures |-> CaptureEvents(Fought(w, orders)),
                 eliminations |-> Eliminations(w, Decay(Capture(Fought(w, orders)))),
                 applied |-> Applied(orders, Fired(w, orders).done),
                 errors |-> Fired(w, orders).errors]
<1>1. PICK final : final = Decay(Capture(Fought(w, orders)))
  OBVIOUS
<1>2. TickResult(w, staged) =
        [world |-> [w EXCEPT !.tick = @ + 1, !.state = final, !.players = Standing(w, final)],
         pending |-> <<>>,
         events |-> [combat |-> Fired(w, orders).combat
                              \o CombatEvents(w, Fired(w, orders).state, FlowOf(w, orders)),
                     captures |-> CaptureEvents(Fought(w, orders)),
                     eliminations |-> Eliminations(w, final),
                     applied |-> Applied(orders, Fired(w, orders).done),
                     errors |-> Fired(w, orders).errors]]
  BY <1>1 DEF TickResult, Resolved, FlowOf, Fought
<1> QED BY <1>1, <1>2 DEF Settled

\* What the phases of a tick make of a sound match is typed, phase by phase.
LEMMA TickSound ==
    ASSUME Sound, NEW orders, orders = SortedOrders(pending), NEW s, s = world.scenario
    PROVE  /\ orders \in Seq(Stageable(s))
           /\ Fired(world, orders) \in Phases(s, Len(orders))
           /\ FlowOf(world, orders) \in Flows(s)
           /\ Fought(world, orders) \in BoardStates(s)
           /\ Decay(Capture(Fought(world, orders))) \in BoardStates(s)
<1>1. /\ s \in Scenarios /\ world.state \in BoardStates(s) /\ pending \in Seq(Stageable(s))
  BY DEF Sound
<1>2. orders \in Seq(Stageable(s))
  BY <1>1, SortedTyped
<1>3. Len(orders) \in Nat /\ orders \in [1 .. Len(orders) -> Stageable(s)]
  BY <1>2
<1>4. Fired(world, orders) \in Phases(s, Len(orders))
  BY <1>1, <1>3, PhasesTyped, FiredPhases
<1>5. Fired(world, orders).state \in BoardStates(s)
  BY <1>4 DEF Phases
<1>6. FlowOf(world, orders) \in Flows(s)
  BY <1>1, <1>5, FlowTyped DEF FlowOf
<1>7. Fought(world, orders) \in BoardStates(s)
  BY <1>1, <1>5, <1>6, CombatTyped DEF Fought
<1>8. Decay(Capture(Fought(world, orders))) \in BoardStates(s)
  BY <1>1, <1>7, CaptureTyped, DecayTyped
<1> QED BY <1>2, <1>4, <1>6, <1>7, <1>8

\* A tick keeps the match sound.
LEMMA AdvanceSound ==
    ASSUME Sound, Advance
    PROVE  Sound'
<1>1. /\ world' = TickResult(world, pending).world
      /\ pending' = TickResult(world, pending).pending
      /\ world.tick < MaxTick
  BY DEF Advance
<1>2. CASE IsTerminal(world)
  <2>1. world' = world /\ pending' = pending
    BY <1>1, <1>2, TickStands
  <2> QED BY <2>1 DEF Sound, WorldShape, Bytes
<1>3. CASE ~IsTerminal(world)
  <2> DEFINE fought == Fought(world, SortedOrders(pending))
             final == Decay(Capture(fought))
  <2>1. final \in BoardStates(world.scenario)
    BY TickSound
  <2>2. world' = Settled(world, fought) /\ pending' = <<>>
    BY <1>1, <1>3, TickOf
  <2> HIDE DEF fought
  <2>3. /\ WorldShape' /\ world'.tick = world.tick + 1 /\ world'.state = final
        /\ world'.players = Standing(world, final) /\ Bytes(world)' = Bytes(world)
    BY <2>2, SettledShape DEF Sound
  <2>4. world'.scenario = world.scenario
    BY <2>2 DEF Settled, Sound, WorldShape
  <2>5. world'.tick <= MaxTick
    <3>1. world.tick \in Nat
      BY DEF Sound, WorldShape
    <3> QED BY <1>1, <2>3, <3>1, RulesAssumption
  <2>6. \A p \in Bytes(world) : Standing(world, final)[p].status \in {"alive", "eliminated"}
    BY DEF Standing, Sound
  <2>7. pending' \in Seq(Stageable(world'.scenario))
    BY <2>2
  <2> HIDE DEF final
  <2>8. world'.scenario \in Scenarios /\ world'.state \in BoardStates(world'.scenario)
    BY <2>1, <2>3, <2>4 DEF Sound
  <2>9. \A p \in Bytes(world)' : world'.players[p].status \in {"alive", "eliminated"}
    BY <2>3, <2>6
  <2> QED BY <2>3, <2>5, <2>7, <2>8, <2>9 DEF Sound
<1> QED BY <1>2, <1>3

\* Every step of a match keeps it sound.
LEMMA SoundKept == Spec => []Sound
<1>1. Init => Sound
  BY CreatedSound
<1>2. Sound /\ [Next]_vars => Sound'
  <2> SUFFICES ASSUME Sound, [Next]_vars PROVE Sound'
    OBVIOUS
  <2>1. CASE UNCHANGED vars
    BY <2>1 DEF vars, Sound, WorldShape, Bytes
  <2>2. CASE Next
    BY <2>2, SubmitSound, AdvanceSound DEF Next
  <2> QED BY <2>1, <2>2
<1> QED BY <1>1, <1>2, PTL DEF Spec

\* The world is well formed after every command and every tick, on every board and
\* for every rule: no cell holds more than it can, troops have an owner, and
\* water holds nothing (World, tick.ts 118-384).
THEOREM WorldTyped == Spec => []TypeOK
<1>1. Sound => TypeOK
  <2> SUFFICES ASSUME Sound PROVE TypeOK
    OBVIOUS
  <2>1. /\ world.state.count \in [Cells -> 0 .. CellCapacity]
        /\ world.state.owner \in [Cells -> 0 .. Len(world.scenario.ids)]
        /\ world.state.pipes \in [Cells -> SUBSET DOMAIN Offset]
        /\ world.state.reserves \in [Cells -> 0 .. 9]
        /\ world.state.city \in [Cells -> 0 .. Len(world.scenario.ids)]
        /\ \A d \in Cells :
              /\ world.state.count[d] > 0 => world.state.owner[d] # 0
              /\ world.state.owner[d] # 0 => d \notin world.scenario.water
    BY BoardIs DEF Sound
  <2>2. world.tick \in 0 .. MaxTick
    BY RulesAssumption DEF Sound, WorldShape
  <2>3. DOMAIN world.players = Bytes(world)
    BY DEF Sound, WorldShape
  <2>4. Land(world) = Cells \ world.scenario.water
    BY DEF Land
  <2> QED BY <2>1, <2>2, <2>3, <2>4 DEF TypeOK, Sound
<1> QED BY <1>1, SoundKept, PTL

----------------------------------------------------------------------------
(* Counting troops *)

\* What a player has on a cell.
Mine(x, p, c) == IF x.owner[c] = p THEN x.count[c] ELSE 0

\* The board has finitely many cells.
LEMMA CellsFinite == IsFiniteSet(Cells)
<1>1. Width \in Nat /\ 0 \in Int /\ Width - 1 \in Int
  BY RulesAssumption
<1>2. IsFiniteSet(0 .. Width - 1)
  BY <1>1, FS_Interval
<1> QED BY <1>2, FS_Product DEF Cells

\* What a player holds is the sum of what he has on the cells of the board.
LEMMA HeldTotal ==
    ASSUME NEW x, x.count \in [Cells -> Nat], NEW p,
           NEW m, m = [c \in Cells |-> Mine(x, p, c)]
    PROVE  m \in [Cells -> Nat] /\ Held(x, p) = Total(m, Cells)
<1> DEFINE P == {c \in Cells : x.owner[c] = p}
<1>1. Held(x, p) = Total(x.count, P)
  BY DEF Held, Total
<1>2. m = [c \in Cells |-> IF c \in P THEN x.count[c] ELSE 0]
  BY DEF Mine
<1>3. P \in SUBSET Cells /\ x.count \in [Cells -> Int]
  OBVIOUS
<1>4. m \in [Cells -> Nat]
  BY DEF Mine
<1> HIDE DEF P
<1>5. Total(x.count, P) = Total(m, Cells)
  BY <1>2, <1>3, CellsFinite, TotalOfPart
<1> QED BY <1>1, <1>4, <1>5

\* What is not more on any cell, but for k on those of D, is not more by k times D.
LEMMA HeldBelow ==
    ASSUME NEW x, x.count \in [Cells -> Nat], NEW y, y.count \in [Cells -> Nat], NEW p,
           NEW D \in SUBSET Cells, NEW k \in Nat,
           \A c \in Cells : Mine(y, p, c) <= Mine(x, p, c) + (IF c \in D THEN k ELSE 0)
    PROVE  Held(y, p) <= Held(x, p) + k * Cardinality(D)
<1>1. PICK a : a = [c \in Cells |-> Mine(x, p, c)]
  OBVIOUS
<1>2. PICK b : b = [c \in Cells |-> Mine(y, p, c)]
  OBVIOUS
<1>3. a \in [Cells -> Nat] /\ b \in [Cells -> Nat]
      /\ Held(x, p) = Total(a, Cells) /\ Held(y, p) = Total(b, Cells)
  BY <1>1, <1>2, HeldTotal
<1>4. a \in [Cells -> Int] /\ b \in [Cells -> Int]
      /\ \A c \in Cells : b[c] <= a[c] + (IF c \in D THEN k ELSE 0)
  BY <1>1, <1>2, <1>3
<1>5. Cells \in SUBSET Cells /\ Cells \cap D = D
  OBVIOUS
<1>6. Total(b, Cells) <= Total(a, Cells) + k * Cardinality(Cells \cap D)
  BY <1>4, <1>5, CellsFinite, TotalBelow
<1> QED BY <1>3, <1>5, <1>6

\* Of two boards, what a player has differs on one cell at most.
ChangesAt(x, y, p, c) ==
    /\ x.count \in [Cells -> Nat] /\ y.count \in [Cells -> Nat]
    /\ \A d \in Cells : d # c => Mine(y, p, d) = Mine(x, p, d)

\* What changes on one cell changes as much in all.
LEMMA HeldChanges ==
    ASSUME NEW x, NEW y, NEW p, NEW c \in Cells, ChangesAt(x, y, p, c)
    PROVE  /\ Held(y, p) = Held(x, p) - Mine(x, p, c) + Mine(y, p, c)
           /\ Held(x, p) \in Int /\ Held(y, p) \in Int
           /\ Mine(x, p, c) \in Nat /\ Mine(y, p, c) \in Nat
<1>0. /\ x.count \in [Cells -> Nat] /\ y.count \in [Cells -> Nat]
      /\ \A d \in Cells : d # c => Mine(y, p, d) = Mine(x, p, d)
  BY DEF ChangesAt
<1>1. PICK a : a = [d \in Cells |-> Mine(x, p, d)]
  OBVIOUS
<1>2. PICK b : b = [d \in Cells |-> Mine(y, p, d)]
  OBVIOUS
<1>3. a \in [Cells -> Nat] /\ b \in [Cells -> Nat]
      /\ Held(x, p) = Total(a, Cells) /\ Held(y, p) = Total(b, Cells)
  BY <1>0, <1>1, <1>2, HeldTotal
<1>4. a \in [Cells -> Int] /\ b \in [Cells -> Int]
      /\ \A d \in Cells \ {c} : b[d] = a[d]
  BY <1>0, <1>1, <1>2, <1>3
<1>5. Total(b, Cells) = Total(a, Cells) - a[c] + b[c]
  BY <1>4, CellsFinite, TotalChanges
<1>6. Total(a, Cells) \in Int /\ Total(b, Cells) \in Int
  BY <1>4, CellsFinite, TotalTakes
<1>7. a[c] = Mine(x, p, c) /\ b[c] = Mine(y, p, c)
  BY <1>1, <1>2
<1> QED BY <1>3, <1>5, <1>6, <1>7

\* What a player holds is a number.
LEMMA HeldTyped ==
    ASSUME NEW x, x.count \in [Cells -> Nat], NEW p
    PROVE  Held(x, p) \in Int
<1>1. PICK a : a = [d \in Cells |-> Mine(x, p, d)]
  OBVIOUS
<1>2. a \in [Cells -> Nat] /\ Held(x, p) = Total(a, Cells)
  BY <1>1, HeldTotal
<1>3. a \in [Cells -> Int] /\ Cells \in SUBSET Cells
  BY <1>2
<1> QED BY <1>2, <1>3, CellsFinite, TotalTakes

\* The boards of a match have natural numbers on their cells.
LEMMA BoardCounts ==
    ASSUME NEW s, NEW x, x \in BoardStates(s) \/ x \in Flows(s)
    PROVE  x.count \in [Cells -> Nat]
<1>1. x.count \in [Cells -> 0 .. CellCapacity]
  BY DEF BoardStates, Flows
<1>2. 0 .. CellCapacity \subseteq Nat
  BY RulesAssumption
<1> QED BY <1>1, <1>2

\* The staged orders move no troops and change no city.
LEMMA StagingMovesNothing ==
    ASSUME NEW s, NEW st \in BoardStates(s), NEW orders \in Seq(Stageable(s))
    PROVE  /\ Staging(st, orders) \in BoardStates(s)
           /\ Staging(st, orders).count = st.count
           /\ Staging(st, orders).owner = st.owner
           /\ Staging(st, orders).city = st.city
<1> DEFINE St == {x \in BoardStates(s) : x.count = st.count /\ x.owner = st.owner /\ x.city = st.city}
<1>1. ASSUME NEW x \in St, NEW o \in Stageable(s) PROVE OrderEffect(x, o) \in St
  <2>1. OrderEffect(x, o) \in BoardStates(s)
    BY OrderTyped
  <2>2. x = [count |-> x.count, owner |-> x.owner, pipes |-> x.pipes,
             reserves |-> x.reserves, city |-> x.city]
    BY BoardIs
  <2>3. /\ OrderEffect(x, o).count = x.count
        /\ OrderEffect(x, o).owner = x.owner
        /\ OrderEffect(x, o).city = x.city
    BY <2>2 DEF OrderEffect
  <2> QED BY <2>1, <2>3
<1>2. PICK n \in Nat : DOMAIN orders = 1 .. n /\ \A k \in 1 .. n : orders[k] \in Stageable(s)
  OBVIOUS
<1>3. st \in St
  OBVIOUS
<1>4. \A x \in St, k \in 1 .. n : OrderEffect(x, orders[k]) \in St
  BY <1>1, <1>2
<1>5. Staging(st, orders) \in St
  <2> HIDE DEF St
  <2> QED BY <1>2, <1>3, <1>4, StagingKept
<1> QED BY <1>5

\* Production gives nobody more than its rate for each of his cities.
LEMMA ProductionBounded ==
    ASSUME NEW s, NEW st \in BoardStates(s), NEW p \in Nat \ {0},
           \A c \in Cells : st.city[c] # 0 => st.owner[c] \in {0, st.city[c]}
    PROVE  Held(Production(st), p) <= Held(st, p) + ProductionRate * CityCount(st, p)
<1> DEFINE D == {c \in Cells : st.city[c] = p}
           y == Production(st)
<1>1. /\ st.count \in [Cells -> Nat]
      /\ \A c \in Cells : st.count[c] > 0 => st.owner[c] # 0
  BY BoardIs, BoardCounts
<1>2. y.count \in [Cells -> Nat]
  BY ProductionTyped, BoardCounts
<1>3. ASSUME NEW c \in Cells
      PROVE  Mine(y, p, c) <= Mine(st, p, c) + (IF c \in D THEN ProductionRate ELSE 0)
  <2>0. /\ st = [count |-> st.count, owner |-> st.owner, pipes |-> st.pipes,
                 reserves |-> st.reserves, city |-> st.city]
        /\ st.count[c] \in Nat /\ ProductionRate \in Nat /\ CityCapacity \in Nat
    BY <1>1, BoardIs, RulesAssumption
  <2> DEFINE grows == st.city[c] # 0 /\ st.count[c] < CityCapacity
             more == st.count[c] + Least(ProductionRate, CityCapacity - st.count[c])
  <2>1. /\ y.count[c] = IF grows THEN more ELSE st.count[c]
        /\ y.owner[c] = IF grows THEN st.city[c] ELSE st.owner[c]
    BY <2>0 DEF Production
  <2>2. grows => more \in Nat /\ more <= st.count[c] + ProductionRate
    BY <2>0 DEF Least
  <2> HIDE DEF y, more
  <2>3. CASE ~grows
    <3>1. Mine(y, p, c) = Mine(st, p, c) /\ Mine(st, p, c) \in Nat
      BY <2>0, <2>1, <2>3 DEF Mine
    <3> QED BY <2>0, <3>1
  <2>4. CASE grows /\ st.city[c] # p
    <3>1. Mine(y, p, c) = 0 /\ Mine(st, p, c) \in Nat
      BY <2>0, <2>1, <2>4 DEF Mine
    <3> QED BY <2>0, <3>1
  <2>5. CASE grows /\ st.city[c] = p
    <3>1. Mine(y, p, c) = more /\ c \in D
      BY <2>1, <2>5 DEF Mine
    <3>2. Mine(st, p, c) = st.count[c]
      BY <1>1, <2>0, <2>5 DEF Mine
    <3> QED BY <2>0, <2>2, <2>5, <3>1, <3>2
  <2> QED BY <2>3, <2>4, <2>5
<1>4. CityCount(st, p) = Cardinality(D) /\ D \in SUBSET Cells /\ ProductionRate \in Nat
  BY RulesAssumption DEF CityCount
<1> HIDE DEF D, y
<1>5. Held(y, p) <= Held(st, p) + ProductionRate * Cardinality(D)
  BY <1>1, <1>2, <1>3, <1>4, HeldBelow
<1> QED BY <1>4, <1>5 DEF y

\* Spending takes its cost from whoever spends, and nothing from others.
LEMMA SpendHeld ==
    ASSUME NEW s \in Scenarios, NEW w, w.scenario = s, NEW st \in BoardStates(s),
           NEW o \in Stageable(s), NEW cost \in Nat, SpendError(w, st, o, cost) = Ok,
           NEW r \in Nat \ {0}
    PROVE  /\ Held(Spend(st, o.cell, cost), r) =
                Held(st, r) - (IF r = Dense(s.ids, o.player) THEN cost ELSE 0)
           /\ Held(st, r) \in Int
<1>1. PICK c \in Cells : c = o.cell
  BY DEF Stageable
<1>2. PICK y : y = Spend(st, c, cost)
  OBVIOUS
<1>3. /\ y \in BoardStates(s)
      /\ cost <= st.count[c]
      /\ st.owner[c] = Dense(s.ids, o.player)
  BY <1>1, <1>2, SpendTyped
<1>4. /\ st.count \in [Cells -> Nat] /\ y.count \in [Cells -> Nat]
      /\ st = [count |-> st.count, owner |-> st.owner, pipes |-> st.pipes,
               reserves |-> st.reserves, city |-> st.city]
      /\ st.owner \in [Cells -> 0 .. Len(s.ids)]
  BY <1>3, BoardCounts, BoardIs
<1>5. /\ y.count = [st.count EXCEPT ![c] = @ - cost]
      /\ y.owner = [st.owner EXCEPT ![c] = IF st.count[c] = cost THEN 0 ELSE @]
  BY <1>2, <1>4 DEF Spend
<1>6. \A d \in Cells : d # c => Mine(y, r, d) = Mine(st, r, d)
  BY <1>4, <1>5 DEF Mine
<1>7. /\ Held(y, r) = Held(st, r) - Mine(st, r, c) + Mine(y, r, c)
      /\ Held(st, r) \in Int /\ Mine(st, r, c) \in Nat
  <2>1. ChangesAt(st, y, r, c)
    BY <1>4, <1>6 DEF ChangesAt
  <2> QED BY <2>1, HeldChanges
<1>8. Mine(y, r, c) = Mine(st, r, c) - (IF r = Dense(s.ids, o.player) THEN cost ELSE 0)
  BY <1>3, <1>4, <1>5 DEF Mine
<1> QED BY <1>1, <1>2, <1>7, <1>8

\* A landing among one's own troops, or on nobody's cell, adds no more than half
\* of what it cost.
LEMMA LandedHeld ==
    ASSUME NEW s \in Scenarios, NEW st \in BoardStates(s), NEW p \in 1 .. Len(s.ids),
           NEW t \in Cells, t \notin s.water, st.owner[t] \in {0, p}, NEW r \in Nat \ {0}
    PROVE  Held(Landed(st, p, t), r) <= Held(st, r) + (IF r = p THEN ParatroopCost ELSE 0)
<1>1. PICK y : y = Landed(st, p, t)
  OBVIOUS
<1>2. y \in BoardStates(s)
  BY <1>1, LandedTyped
<1>3. /\ st.count \in [Cells -> Nat] /\ y.count \in [Cells -> Nat]
      /\ st = [count |-> st.count, owner |-> st.owner, pipes |-> st.pipes,
               reserves |-> st.reserves, city |-> st.city]
      /\ st.owner \in [Cells -> 0 .. Len(s.ids)]
      /\ st.count[t] > 0 => st.owner[t] # 0
  BY <1>2, BoardCounts, BoardIs
<1>4. PICK m : m = Least(st.count[t] + ParatroopCost, CellCapacity)
  OBVIOUS
<1>5. m \in Int /\ m <= st.count[t] + ParatroopCost /\ ParatroopCost \in Nat
  <2>1. st.count[t] \in Nat
    BY <1>3
  <2> QED BY <1>4, <2>1, RulesAssumption DEF Least
<1>6. y = [st EXCEPT !.count[t] = m, !.owner[t] = p, !.pipes[t] = {}]
  BY <1>1, <1>4 DEF Landed
<1>7. y.count = [st.count EXCEPT ![t] = m] /\ y.owner = [st.owner EXCEPT ![t] = p]
  BY <1>3, <1>6
<1>9. /\ Held(y, r) = Held(st, r) - Mine(st, r, t) + Mine(y, r, t)
      /\ Held(st, r) \in Int /\ Mine(st, r, t) \in Nat /\ Mine(y, r, t) \in Nat
  <2>1. st.count \in [Cells -> Nat] /\ y.count \in [Cells -> Nat]
    BY <1>3
  <2>2. \A d \in Cells : d # t => Mine(y, r, d) = Mine(st, r, d)
    BY <1>3, <1>7 DEF Mine
  <2>3. ChangesAt(st, y, r, t)
    BY <2>1, <2>2 DEF ChangesAt
  <2> QED BY <2>3, HeldChanges
<1>10. y.count[t] = m /\ y.owner[t] = p /\ st.count[t] \in Nat
  BY <1>3, <1>7
<1>11. CASE r = p
  <2>1. Mine(y, r, t) = m /\ Mine(st, r, t) = st.count[t]
    BY <1>3, <1>10, <1>11 DEF Mine
  <2> QED BY <1>1, <1>5, <1>9, <1>10, <1>11, <2>1
<1>12. CASE r # p
  <2>1. Mine(y, r, t) = 0
    BY <1>10, <1>12 DEF Mine
  <2> QED BY <1>1, <1>9, <1>12, <2>1
<1> QED BY <1>11, <1>12

\* The states of the phases in which nobody holds more than in the state b, or
\* somebody has fought.
NotMore(s, n, b) ==
    {x \in Phases(s, n) :
        x.combat = <<>> => \A r \in 1 .. Len(s.ids) : Held(x.state, r) <= Held(b, r)}

\* A paratroop costs more than what lands.
LEMMA ParatroopNotMore ==
    ASSUME NEW s \in Scenarios, NEW w, w.scenario = s, NEW n \in Nat,
           NEW orders \in [1 .. n -> Stageable(s)], NEW b \in BoardStates(s),
           NEW acc \in NotMore(s, n, b), NEW i \in 1 .. n
    PROVE  Paratroop(w, orders, acc, i) \in NotMore(s, n, b)
<1> DEFINE o == orders[i]
           p == Dense(s.ids, o.player)
           spent == Spend(acc.state, o.cell, 2 * ParatroopCost)
           foe == spent.owner[o.target]
           error == FirstError(DropError(w, o.cell, o.target), SpendError(w, acc.state, o, 2 * ParatroopCost))
           landed == Landed(spent, p, o.target)
           hit == CombatEvent(o.target, p, foe, landed.owner[o.target])
           combat == IF foe \in {0, p} THEN acc.combat ELSE Append(acc.combat, hit)
           after == Paratroop(w, orders, acc, i)
<1>0. acc \in Phases(s, n) /\ after \in Phases(s, n)
  BY ParatroopTyped DEF NotMore
<1>1. after =
        IF error # Ok THEN [acc EXCEPT !.errors = Append(@, [order |-> o, reason |-> error])]
        ELSE [acc EXCEPT !.state = landed, !.done = @ \cup {i}, !.combat = combat]
  BY DEF Paratroop
<1>2. o \in Stageable(s) /\ acc.state \in BoardStates(s) /\ acc.combat \in Seq(Hits(s))
  BY <1>0 DEF Phases
<1> HIDE DEF o, after
<1>3. CASE error # Ok
  <2>1. after.state = acc.state /\ after.combat = acc.combat
    BY <1>0, <1>1, <1>3 DEF Phases
  <2> QED BY <1>0, <2>1 DEF NotMore, after
<1>4. CASE error = Ok
  <2>1. DropError(w, o.cell, o.target) = Ok /\ SpendError(w, acc.state, o, 2 * ParatroopCost) = Ok
    BY <1>4 DEF FirstError
  <2>2. o.target \in Cells /\ o.target \notin s.water
    <3>1. Ok \notin {"out_of_bounds", "water_target", "paratroop_range"}
      BY DEF Ok
    <3> QED BY <2>1, <3>1 DEF DropError, Land
  <2>3. 2 * ParatroopCost \in Nat /\ ParatroopCost \in Nat
    BY RulesAssumption
  <2>4. spent \in BoardStates(s) /\ p \in 1 .. Len(s.ids)
    BY <1>2, <2>1, <2>3, SpendTyped
  <2>5. after.state = landed /\ after.combat = combat
    BY <1>0, <1>1, <1>4 DEF Phases
  <2>6. CASE foe \notin {0, p}
    <3>1. combat # <<>>
      BY <1>2, <2>6
    <3> QED BY <1>0, <2>5, <3>1 DEF NotMore, after
  <2>7. CASE foe \in {0, p}
    <3>1. ASSUME acc.combat = <<>>, NEW r \in 1 .. Len(s.ids)
          PROVE  Held(landed, r) <= Held(b, r)
      <4>1. r \in Nat \ {0}
        OBVIOUS
      <4>2. /\ Held(spent, r) = Held(acc.state, r) - (IF r = p THEN 2 * ParatroopCost ELSE 0)
            /\ Held(acc.state, r) \in Int
        BY <1>2, <2>1, <2>3, <4>1, SpendHeld
      <4> HIDE DEF spent, p
      <4>3. Held(landed, r) <= Held(spent, r) + (IF r = p THEN ParatroopCost ELSE 0)
        BY <2>2, <2>4, <2>7, <4>1, LandedHeld
      <4>4. Held(acc.state, r) <= Held(b, r)
        BY <3>1 DEF NotMore
      <4>5. Held(b, r) \in Int /\ Held(landed, r) \in Int
        <5>1. landed \in BoardStates(s)
          BY <2>2, <2>4, LandedTyped
        <5> QED BY <5>1, BoardCounts, HeldTyped
      <4> HIDE DEF landed
      <4> QED BY <2>3, <4>2, <4>3, <4>4, <4>5
    <3>2. combat = acc.combat
      BY <2>7
    <3> QED BY <1>0, <2>5, <3>1, <3>2 DEF NotMore, after
  <2> QED BY <2>6, <2>7
<1> QED BY <1>3, <1>4 DEF after

\* A gun costs troops and takes troops.
LEMMA GunNotMore ==
    ASSUME NEW s \in Scenarios, NEW w, w.scenario = s, NEW n \in Nat,
           NEW orders \in [1 .. n -> Stageable(s)], NEW b \in BoardStates(s),
           NEW acc \in NotMore(s, n, b), NEW i \in 1 .. n, orders[i].kind = "gun"
    PROVE  Gun(w, orders, acc, i) \in NotMore(s, n, b)
<1> DEFINE o == orders[i]
           spent == Spend(acc.state, o.cell, GunCost)
           n0 == spent.count[o.target]
           left == n0 - Least(GunDamage, n0)
           hit == [spent EXCEPT !.count[o.target] = left,
                 !.owner[o.target] = IF left = 0 /\ n0 > 0 THEN 0 ELSE @]
           error == SpendError(w, acc.state, o, GunCost)
           after == Gun(w, orders, acc, i)
<1>0. acc \in Phases(s, n) /\ after \in Phases(s, n)
  BY GunTyped DEF NotMore
<1>1. after =
        IF error # Ok THEN [acc EXCEPT !.errors = Append(@, [order |-> o, reason |-> error])]
        ELSE [acc EXCEPT !.state = hit, !.done = @ \cup {i}]
  BY DEF Gun
<1>2. o \in Stageable(s) /\ acc.state \in BoardStates(s) /\ o.target \in Cells
  BY <1>0 DEF Phases, Stageable
<1> HIDE DEF o, after
<1>3. CASE error # Ok
  <2>1. after.state = acc.state /\ after.combat = acc.combat
    BY <1>0, <1>1, <1>3 DEF Phases
  <2> QED BY <1>0, <2>1 DEF NotMore, after
<1>4. CASE error = Ok
  <2>1. GunCost \in Nat /\ GunDamage \in Nat
    BY RulesAssumption
  <2>2. spent \in BoardStates(s)
    BY <1>2, <1>4, <2>1, SpendTyped
  <2>3. after.state = hit /\ after.combat = acc.combat
    BY <1>0, <1>1, <1>4 DEF Phases
  <2>4. hit \in BoardStates(s)
    BY <1>0, <2>3 DEF Phases
  <2>5. ASSUME acc.combat = <<>>, NEW r \in 1 .. Len(s.ids)
        PROVE  Held(hit, r) <= Held(b, r)
    <3>1. r \in Nat \ {0}
      OBVIOUS
    <3>2. /\ Held(spent, r) <= Held(acc.state, r)
          /\ Held(acc.state, r) \in Int
      <4>1. /\ Held(spent, r) = Held(acc.state, r) - (IF r = Dense(s.ids, o.player) THEN GunCost ELSE 0)
            /\ Held(acc.state, r) \in Int
        BY <1>2, <1>4, <2>1, <3>1, SpendHeld
      <4> QED BY <2>1, <4>1
    <3>3. Held(acc.state, r) <= Held(b, r)
      BY <2>5 DEF NotMore
    <3> HIDE DEF spent
    <3>4. /\ spent.count \in [Cells -> Nat]
          /\ spent = [count |-> spent.count, owner |-> spent.owner, pipes |-> spent.pipes,
                      reserves |-> spent.reserves, city |-> spent.city]
          /\ spent.owner \in [Cells -> 0 .. Len(s.ids)]
      BY <2>2, BoardCounts, BoardIs
    <3>5. /\ hit.count = [spent.count EXCEPT ![o.target] = left]
          /\ hit.owner = [spent.owner EXCEPT ![o.target] = IF left = 0 /\ n0 > 0 THEN 0 ELSE @]
      BY <3>4
    <3>6. hit.count \in [Cells -> Nat]
      BY <2>4, BoardCounts
    <3>7. left \in Int /\ left <= n0 /\ n0 \in Nat
      BY <1>2, <2>1, <3>4 DEF Least
    <3> HIDE DEF hit, left
    <3>8. \A d \in Cells : d # o.target => Mine(hit, r, d) = Mine(spent, r, d)
      BY <3>4, <3>5 DEF Mine
    <3>9. /\ Held(hit, r) = Held(spent, r) - Mine(spent, r, o.target) + Mine(hit, r, o.target)
          /\ Held(spent, r) \in Int /\ Held(hit, r) \in Int
          /\ Mine(spent, r, o.target) \in Nat /\ Mine(hit, r, o.target) \in Nat
      <4>1. spent.count \in [Cells -> Nat] /\ hit.count \in [Cells -> Nat] /\ o.target \in Cells
        BY <1>2, <3>4, <3>6
      <4>2. ChangesAt(spent, hit, r, o.target)
        BY <3>8, <4>1 DEF ChangesAt
      <4> QED BY <4>1, <4>2, HeldChanges
    <3>10. Mine(hit, r, o.target) <= Mine(spent, r, o.target)
      <4>1. hit.count[o.target] = left /\ hit.owner[o.target] \in {0, spent.owner[o.target]}
        BY <1>2, <3>4, <3>5
      <4>2. CASE spent.owner[o.target] = r
        <5>1. Mine(spent, r, o.target) = n0 /\ Mine(hit, r, o.target) \in {left, 0}
          BY <4>1, <4>2 DEF Mine
        <5> QED BY <3>7, <5>1
      <4>3. CASE spent.owner[o.target] # r
        <5>1. Mine(hit, r, o.target) = 0
          BY <3>1, <4>1, <4>3 DEF Mine
        <5> QED BY <3>9, <5>1
      <4> QED BY <4>2, <4>3
    <3>11. Held(b, r) \in Int
      BY BoardCounts, HeldTyped
    <3> QED BY <3>2, <3>3, <3>9, <3>10, <3>11
  <2> HIDE DEF hit
  <2> QED BY <1>0, <2>3, <2>5 DEF NotMore, after
<1> QED BY <1>3, <1>4 DEF after

\* When nothing has been fought over, nobody holds more after the paratroops and
\* the guns than after production.
LEMMA FiredNotMore ==
    ASSUME NEW s \in Scenarios, NEW w, w.scenario = s, w.state \in BoardStates(s),
           NEW orders \in Seq(Stageable(s)),
           NEW b, b = Production(Staging(w.state, orders))
    PROVE  Fired(w, orders) \in NotMore(s, Len(orders), b)
<1>1. PICK n \in Nat : n = Len(orders) /\ orders \in [1 .. n -> Stageable(s)]
  OBVIOUS
<1> DEFINE start == [state |-> b, combat |-> <<>>, errors |-> <<>>, done |-> {}]
           drops == OfKind(orders, "paratroop")
           dropped == Drops(w, orders, start, drops)
           guns == OfKind(orders, "gun")
<1>2. b \in BoardStates(s) /\ start \in Phases(s, n)
  BY <1>1, StagingMovesNothing, ProductionTyped, PhasesTyped
<1>3. start \in NotMore(s, n, b)
  <2>1. \A r \in 1 .. Len(s.ids) : Held(b, r) <= Held(b, r)
    <3> TAKE r \in 1 .. Len(s.ids)
    <3>1. Held(b, r) \in Int
      BY <1>2, BoardCounts, HeldTyped
    <3> QED BY <3>1
  <2> QED BY <1>2, <2>1 DEF NotMore
<1>4. /\ drops \in Seq({i \in 1 .. n : orders[i].kind = "paratroop"})
      /\ guns \in Seq({i \in 1 .. n : orders[i].kind = "gun"})
  BY <1>1, OfKindTyped
<1>5. Fired(w, orders) = Shots(w, orders, dropped, guns)
  BY FiredPhases
<1> HIDE DEF start, drops, guns
<1>6. dropped \in NotMore(s, n, b)
  <2>1. PICK m \in Nat : DOMAIN drops = 1 .. m
    BY <1>4
  <2>2. \A y \in NotMore(s, n, b), k \in 1 .. m : Paratroop(w, orders, y, drops[k]) \in NotMore(s, n, b)
    <3> TAKE y \in NotMore(s, n, b), k \in 1 .. m
    <3>1. PICK i \in 1 .. n : i = drops[k]
      BY <1>4, <2>1
    <3> QED BY <1>1, <1>2, <3>1, ParatroopNotMore
  <2> QED BY <1>3, <2>1, <2>2, DropsKept
<1> HIDE DEF dropped
<1>7. Shots(w, orders, dropped, guns) \in NotMore(s, n, b)
  <2>1. PICK m \in Nat : DOMAIN guns = 1 .. m
    BY <1>4
  <2>2. \A y \in NotMore(s, n, b), k \in 1 .. m : Gun(w, orders, y, guns[k]) \in NotMore(s, n, b)
    <3> TAKE y \in NotMore(s, n, b), k \in 1 .. m
    <3>1. PICK i \in 1 .. n : i = guns[k] /\ orders[i].kind = "gun"
      BY <1>4, <2>1
    <3> QED BY <1>1, <1>2, <3>1, GunNotMore
  <2> QED BY <1>6, <2>1, <2>2, ShotsKept
<1> QED BY <1>1, <1>5, <1>7

\* At no cell do two players meet.
Peaceful(w, state, flow) ==
    \A c \in Cells : \A p, q \in Sides(w, state, flow, c) : p = q

\* What carrying changes, cell by cell.
LEMMA CarriedParts ==
    ASSUME NEW s \in Scenarios, NEW state \in BoardStates(s), NEW at \in Flows(s),
           NEW src \in Cells, NEW dst \in Cells, dst # src,
           NEW sent, NEW arrives, Amounts(at, src, dst, sent, arrives),
           NEW p, p = state.owner[src], p # 0,
           NEW y, y = Carried(state, at, src, dst, sent, arrives)
    PROVE  /\ y.count[dst] = at.count[dst] + arrives
           /\ y.count[src] = at.count[src] - arrives
           /\ \A c \in Cells : c # src /\ c # dst => y.count[c] = at.count[c]
           /\ y.owner[dst] = IF arrives = 0 THEN at.owner[dst] ELSE p
           /\ \A c \in Cells : c # dst => y.owner[c] = at.owner[c]
           /\ y.committed[dst][p] = at.committed[dst][p] + sent
           /\ \A c \in Cells : \A q \in 1 .. Len(s.ids) :
                c # dst \/ q # p => y.committed[c][q] = at.committed[c][q]
<1>1. /\ at.count \in [Cells -> 0 .. CellCapacity] /\ at.owner \in [Cells -> 0 .. Len(s.ids)]
      /\ at.committed \in [Cells -> [1 .. Len(s.ids) -> Nat]]
  BY DEF Flows
<1>2. p \in 1 .. Len(s.ids)
  <2>1. p \in 0 .. Len(s.ids) /\ Len(s.ids) \in Nat
    BY BoardIs, MenuAssumption DEF Scenarios
  <2> QED BY <2>1
<1>3. /\ y.count = [at.count EXCEPT ![dst] = @ + arrives, ![src] = @ - arrives]
      /\ y.owner = [at.owner EXCEPT ![dst] = IF arrives = 0 THEN @ ELSE p]
      /\ y.committed = [at.committed EXCEPT ![dst][p] = @ + sent]
  BY DEF Carried
<1>4. /\ y.count[dst] = at.count[dst] + arrives
      /\ y.count[src] = at.count[src] - arrives
      /\ \A c \in Cells : c # src /\ c # dst => y.count[c] = at.count[c]
  BY <1>1, <1>3
<1>5. /\ y.owner[dst] = IF arrives = 0 THEN at.owner[dst] ELSE p
      /\ \A c \in Cells : c # dst => y.owner[c] = at.owner[c]
  BY <1>1, <1>3
<1>6. /\ y.committed[dst][p] = at.committed[dst][p] + sent
      /\ \A c \in Cells : \A q \in 1 .. Len(s.ids) :
                c # dst \/ q # p => y.committed[c][q] = at.committed[c][q]
  BY <1>1, <1>2, <1>3
<1> QED BY <1>4, <1>5, <1>6

\* The flows so far in which whoever stands on a cell was there or was sent there,
\* and in which, where nobody met, everybody has as many troops as before.
Conserved(s, w, state) ==
    {at \in Flows(s) :
        /\ \A c \in Cells : at.owner[c] # 0 => at.owner[c] \in Sides(w, state, at, c)
        /\ Peaceful(w, state, at) =>
             \A r \in 1 .. Len(s.ids) : Held(at, r) = Held(state, r)}

\* Carrying takes from one cell of a player what it gives to another.
LEMMA CarriedHeld ==
    ASSUME NEW s \in Scenarios, NEW state \in BoardStates(s), NEW at \in Flows(s),
           NEW src \in Cells, NEW dst \in Cells, dst # src, dst \notin s.water,
           NEW sent, NEW arrives, Amounts(at, src, dst, sent, arrives),
           NEW p, p = state.owner[src], p # 0,
           arrives # 0 => at.owner[dst] \in {0, p} /\ at.owner[src] = p,
           NEW y, y = Carried(state, at, src, dst, sent, arrives), NEW r \in 1 .. Len(s.ids)
    PROVE  Held(y, r) = Held(at, r)
<1>1. /\ y.count[dst] = at.count[dst] + arrives
      /\ y.count[src] = at.count[src] - arrives
      /\ \A c \in Cells : c # src /\ c # dst => y.count[c] = at.count[c]
      /\ y.owner[dst] = IF arrives = 0 THEN at.owner[dst] ELSE p
      /\ \A c \in Cells : c # dst => y.owner[c] = at.owner[c]
  BY CarriedParts
<1>2. y \in Flows(s)
  BY CarriedTyped
<1>3. /\ at.count \in [Cells -> Nat] /\ y.count \in [Cells -> Nat]
      /\ \A c \in Cells : at.count[c] > 0 => at.owner[c] # 0
  BY <1>2, BoardCounts DEF Flows
<1>4. arrives \in Nat
  BY DEF Amounts
<1>5. PICK mid : mid = [count |-> [c \in Cells |-> IF c = src THEN at.count[c] ELSE y.count[c]],
                        owner |-> y.owner]
  OBVIOUS
<1>6. /\ mid.count \in [Cells -> Nat] /\ mid.owner = y.owner
      /\ mid.count[src] = at.count[src]
      /\ \A c \in Cells : c # src => mid.count[c] = y.count[c]
  BY <1>3, <1>5
<1>7. /\ \A c \in Cells : c # dst => Mine(mid, r, c) = Mine(at, r, c)
      /\ \A c \in Cells : c # src => Mine(y, r, c) = Mine(mid, r, c)
  BY <1>1, <1>6 DEF Mine
<1>8. /\ Held(mid, r) = Held(at, r) - Mine(at, r, dst) + Mine(mid, r, dst)
      /\ Held(at, r) \in Int /\ Held(mid, r) \in Int
  <2>1. ChangesAt(at, mid, r, dst)
    BY <1>3, <1>6, <1>7 DEF ChangesAt
  <2> QED BY <2>1, HeldChanges
<1>9. /\ Held(y, r) = Held(mid, r) - Mine(mid, r, src) + Mine(y, r, src)
      /\ Held(y, r) \in Int
  <2>1. ChangesAt(mid, y, r, src)
    BY <1>3, <1>6, <1>7 DEF ChangesAt
  <2> QED BY <2>1, HeldChanges
<1>10. CASE arrives = 0
  <2>1. Mine(mid, r, dst) = Mine(at, r, dst) /\ Mine(y, r, src) = Mine(mid, r, src)
        /\ Mine(at, r, dst) \in Int /\ Mine(mid, r, src) \in Int
    BY <1>1, <1>3, <1>6, <1>10 DEF Mine
  <2> QED BY <1>8, <1>9, <2>1
<1>11. CASE arrives # 0 /\ r = p
  <2>1. Mine(at, r, dst) = at.count[dst]
    BY <1>3, <1>11 DEF Mine
  <2>2. Mine(mid, r, dst) = at.count[dst] + arrives
    BY <1>1, <1>6, <1>11 DEF Mine
  <2>3. Mine(mid, r, src) = at.count[src] /\ Mine(y, r, src) = at.count[src] - arrives
    BY <1>1, <1>6, <1>11 DEF Mine
  <2>4. at.count[dst] \in Nat /\ at.count[src] \in Nat
    BY <1>3
  <2>5. Held(mid, r) = Held(at, r) + arrives
    BY <1>4, <1>8, <2>1, <2>2, <2>4
  <2>6. Held(y, r) = Held(mid, r) - arrives
    BY <1>4, <1>8, <1>9, <2>3, <2>4
  <2> QED BY <1>4, <1>8, <2>5, <2>6
<1>12. CASE arrives # 0 /\ r # p
  <2>1. Mine(at, r, dst) = 0
    BY <1>12 DEF Mine
  <2>2. Mine(mid, r, dst) = 0
    BY <1>1, <1>6, <1>12 DEF Mine
  <2>3. Mine(mid, r, src) = 0 /\ Mine(y, r, src) = 0
    BY <1>1, <1>6, <1>12 DEF Mine
  <2> QED BY <1>8, <1>9, <2>1, <2>2, <2>3
<1> QED BY <1>10, <1>11, <1>12

\* A transfer keeps what is conserved.
LEMMA TransferConserves ==
    ASSUME NEW s \in Scenarios, NEW w, w.scenario = s, NEW state \in BoardStates(s),
           NEW at \in Conserved(s, w, state), NEW t \in Transferable(state)
    PROVE  Transfer(w, state, at, t) \in Conserved(s, w, state)
<1>0. at \in Flows(s) /\ Bytes(w) = 1 .. Len(s.ids)
  BY DEF Conserved, Bytes
<1>source. PICK src \in Cells : src = t[1]
  BY DEF Transferable
<1>1. PICK dst : src = t[1] /\ dst = Toward(src, PipesOf(state, src)[t[2]])
  BY <1>source
<1>2. state.owner[src] # 0 /\ PipesOf(state, src)[t[2]] \in DOMAIN Offset
  BY <1>1, PipesTyped DEF Transferable
<1>3. dst # src
  BY <1>1, <1>2, NeighbourDiffers
<1>4. CASE Transfer(w, state, at, t) = at
  BY <1>4
<1>5. CASE Transfer(w, state, at, t) # at
  <2>1. PICK sent, arrives : /\ dst \in Cells /\ dst \notin s.water
                             /\ Amounts(at, src, dst, sent, arrives)
                             /\ Transfer(w, state, at, t) = Carried(state, at, src, dst, sent, arrives)
    BY <1>0, <1>1, <1>5, TransferCarries
  <2>2. PICK p : p = state.owner[src]
    OBVIOUS
  <2>3. PICK y : y = Carried(state, at, src, dst, sent, arrives)
    OBVIOUS
  <2>4. y \in Flows(s)
    BY <1>0, <1>2, <1>3, <2>1, <2>3, CarriedTyped
  <2>5. /\ y.owner[dst] = IF arrives = 0 THEN at.owner[dst] ELSE p
        /\ \A c \in Cells : c # dst => y.owner[c] = at.owner[c]
        /\ y.committed[dst][p] = at.committed[dst][p] + sent
        /\ \A c \in Cells : \A q \in 1 .. Len(s.ids) :
                c # dst \/ q # p => y.committed[c][q] = at.committed[c][q]
    BY <1>0, <1>2, <1>3, <2>1, <2>2, <2>3, CarriedParts
  <2>6. p \in 1 .. Len(s.ids) /\ sent \in Nat /\ arrives \in Nat /\ arrives <= sent
        /\ arrives <= at.count[src]
        /\ at.committed[dst][p] \in Nat
    <3>1. p \in 0 .. Len(s.ids) /\ Len(s.ids) \in Nat
      BY <2>2, BoardIs, MenuAssumption DEF Scenarios
    <3>2. p \in 1 .. Len(s.ids)
      BY <1>2, <2>2, <3>1
    <3>3. at.committed[dst][p] \in Nat
      BY <1>0, <2>1, <3>2 DEF Flows
    <3> QED BY <2>1, <3>2, <3>3 DEF Amounts
  <2>7. ASSUME NEW c \in Cells, NEW q \in Sides(w, state, at, c)
        PROVE  q \in Sides(w, state, y, c)
    <3>1. q \in 1 .. Len(s.ids) /\ (at.committed[c][q] > 0 \/ state.owner[c] = q)
      BY <1>0 DEF Sides
    <3>2. CASE c = dst /\ q = p
      BY <1>0, <2>5, <2>6, <3>1, <3>2 DEF Sides
    <3>3. CASE c # dst \/ q # p
      BY <1>0, <2>5, <3>1, <3>3 DEF Sides
    <3> QED BY <3>2, <3>3
  <2>8. arrives # 0 => p \in Sides(w, state, y, dst)
    BY <1>0, <2>5, <2>6 DEF Sides
  <2>9. \A c \in Cells : at.owner[c] # 0 => at.owner[c] \in Sides(w, state, at, c)
    BY DEF Conserved
  <2>10. ASSUME NEW c \in Cells, y.owner[c] # 0 PROVE y.owner[c] \in Sides(w, state, y, c)
    <3>1. CASE c = dst /\ arrives # 0
      BY <2>5, <2>8, <3>1
    <3>2. CASE c # dst \/ arrives = 0
      <4>1. y.owner[c] = at.owner[c]
        BY <2>5, <3>2
      <4> QED BY <2>7, <2>9, <2>10, <4>1
    <3> QED BY <3>1, <3>2
  <2>11. ASSUME Peaceful(w, state, y), NEW r \in 1 .. Len(s.ids)
         PROVE  Held(y, r) = Held(state, r)
    <3>1. Peaceful(w, state, at)
      BY <2>7, <2>11 DEF Peaceful
    <3>2. Held(at, r) = Held(state, r)
      BY <3>1 DEF Conserved
    <3>3. ASSUME arrives # 0 PROVE at.owner[dst] \in {0, p} /\ at.owner[src] = p
      <4>1. at.owner[dst] # 0 => at.owner[dst] = p
        BY <2>1, <2>7, <2>8, <2>9, <2>11, <3>3 DEF Peaceful
      <4>2. at.count[src] > 0
        <5>1. at.count[src] \in Nat
          BY <1>0, BoardCounts
        <5> QED BY <2>6, <3>3, <5>1
      <4>3. at.owner[src] # 0
        BY <1>0, <4>2 DEF Flows
      <4>4. p \in Sides(w, state, at, src)
        BY <1>0, <2>2, <2>6 DEF Sides
      <4>5. at.owner[src] = p
        BY <2>9, <3>1, <4>3, <4>4 DEF Peaceful
      <4> QED BY <4>1, <4>5
    <3>4. Held(y, r) = Held(at, r)
      BY <1>0, <1>2, <1>3, <2>1, <2>2, <2>3, <3>3, CarriedHeld, SMTT(60)
    <3> QED BY <3>2, <3>4
  <2>12. y \in Conserved(s, w, state)
    BY <2>4, <2>10, <2>11 DEF Conserved
  <2> QED BY <2>1, <2>3, <2>12
<1> QED BY <1>4, <1>5

\* So does the flow as a whole.
LEMMA FlowConserves ==
    ASSUME NEW s \in Scenarios, NEW w, w.scenario = s, NEW state \in BoardStates(s)
    PROVE  Flow(w, state) \in Conserved(s, w, state)
<1> DEFINE none == [c \in Cells |-> [p \in Bytes(w) |-> 0]]
           b == [count |-> state.count, owner |-> state.owner, committed |-> none]
           seq == Transfers(state)
<1>0. Bytes(w) = 1 .. Len(s.ids)
  BY DEF Bytes
<1>1. seq \in Seq(Transferable(state))
  BY TransfersTyped
<1>2. PICK n \in Nat : DOMAIN seq = 1 .. n
  BY <1>1
<1>3. \A y \in Conserved(s, w, state), k \in 1 .. n : Transfer(w, state, y, seq[k]) \in Conserved(s, w, state)
  <2> TAKE y \in Conserved(s, w, state), k \in 1 .. n
  <2>1. PICK t \in Transferable(state) : t = seq[k]
    BY <1>1, <1>2
  <2> QED BY <2>1, TransferConserves
<1>4. b \in Conserved(s, w, state)
  <2>1. /\ state.count \in [Cells -> 0 .. CellCapacity]
        /\ state.owner \in [Cells -> 0 .. Len(s.ids)]
        /\ \A d \in Cells :
              /\ state.count[d] > 0 => state.owner[d] # 0
              /\ state.owner[d] # 0 => d \notin s.water
    BY BoardIs
  <2>2. none \in [Cells -> [1 .. Len(s.ids) -> Nat]] /\ \A c \in Cells, p \in 1 .. Len(s.ids) : none[c][p] = 0
    BY <1>0
  <2>3. b.count = state.count /\ b.owner = state.owner
    OBVIOUS
  <2> HIDE DEF none
  <2>4. \A c \in Cells, p \in 1 .. Len(s.ids) : ~(none[c][p] > 0)
    BY <2>2
  <2>5. b \in Flows(s)
    BY <2>1, <2>2, <2>4 DEF Flows
  <2> HIDE DEF b
  <2>6. \A c \in Cells : b.owner[c] # 0 => b.owner[c] \in Sides(w, state, b, c)
    <3> TAKE c \in Cells
    <3> HAVE b.owner[c] # 0
    <3>1. b.owner[c] = state.owner[c] /\ state.owner[c] \in 0 .. Len(s.ids) /\ Len(s.ids) \in Nat
      BY <2>1, <2>3, MenuAssumption DEF Scenarios
    <3>2. b.owner[c] \in 1 .. Len(s.ids)
      BY <3>1
    <3> QED BY <1>0, <3>1, <3>2 DEF Sides
  <2>7. ASSUME NEW r \in 1 .. Len(s.ids) PROVE Held(b, r) = Held(state, r)
    <3>1. b.count \in [Cells -> Nat] /\ state.count \in [Cells -> Nat]
      BY <2>5, BoardCounts
    <3>2. PICK m : m = [c \in Cells |-> Mine(state, r, c)]
      OBVIOUS
    <3>3. m = [c \in Cells |-> Mine(b, r, c)]
      BY <2>3, <3>2 DEF Mine
    <3> QED BY <3>1, <3>2, <3>3, HeldTotal
  <2> QED BY <2>5, <2>6, <2>7 DEF Conserved
<1> HIDE DEF b, seq
<1>5. Moves(w, state, b, seq) \in Conserved(s, w, state)
  BY <1>2, <1>3, <1>4, TransfersKept
<1> QED BY <1>5, FlowMoves DEF b, seq

\* Whoever is contested by two has two different sides, and the other way round.
LEMMA ContestedMeets ==
    ASSUME NEW s \in Scenarios, NEW w, w.scenario = s, NEW state \in BoardStates(s),
           NEW flow \in Flows(s), NEW c \in Cells
    PROVE  /\ c \in Contested(w, state, flow) <=>
                \E p, q \in Sides(w, state, flow, c) : p # q
           /\ c \in Contested(w, state, flow) =>
                \E q \in Sides(w, state, flow, c) : q # Dominant(w, state, flow, c)
<1> DEFINE T == Sides(w, state, flow, c)
<1>1. IsFiniteSet(T)
  <2>1. 1 \in Int /\ Len(s.ids) \in Int
    BY MenuAssumption DEF Scenarios
  <2>2. IsFiniteSet(1 .. Len(s.ids))
    BY <2>1, FS_Interval
  <2> QED BY <2>2, SidesTyped, FS_Subset
<1>2. c \in Contested(w, state, flow) <=> Cardinality(T) >= 2
  BY DEF Contested
<1>3. Cardinality(T) \in Nat
  BY <1>1, FS_CardinalityType
<1>4. ASSUME NEW p \in T, NEW q \in T, p # q PROVE Cardinality(T) >= 2
  <2>1. Cardinality({p}) = 1 /\ IsFiniteSet({p})
    BY FS_Singleton
  <2>2. Cardinality({p} \cup {q}) = 2
    <3>1. q \notin {p}
      BY <1>4
    <3>2. PICK one : one = {p}
      OBVIOUS
    <3>3. Cardinality(one \cup {q}) = Cardinality(one) + 1
      BY <2>1, <3>1, <3>2, FS_AddElement
    <3> QED BY <2>1, <3>2, <3>3
  <2>3. {p} \cup {q} \in SUBSET T
    OBVIOUS
  <2> QED BY <1>1, <1>3, <2>2, <2>3, FS_Subset
<1>5. ASSUME Cardinality(T) >= 2
      PROVE  \E p \in T : p # Dominant(w, state, flow, c) /\ Dominant(w, state, flow, c) \in T
  <2>1. T # {}
    BY <1>5, FS_EmptySet
  <2>2. Dominant(w, state, flow, c) \in T
    BY <2>1, SidesTyped
  <2>3. T # {Dominant(w, state, flow, c)}
    <3>1. Cardinality({Dominant(w, state, flow, c)}) = 1
      BY FS_Singleton
    <3> QED BY <1>5, <3>1
  <2> QED BY <2>2, <2>3
<1> QED BY <1>2, <1>4, <1>5

\* Where a fight is not reported, there was none.
LEMMA EventsOfAll ==
    ASSUME NEW s \in Scenarios, NEW w, w.scenario = s, NEW state \in BoardStates(s),
           NEW flow \in Flows(s)
    PROVE  /\ CombatEvents(w, state, flow) \in Seq(Hits(s))
           /\ CombatEvents(w, state, flow) = <<>> => Contested(w, state, flow) = {}
<1> DEFINE sides(c) == Sides(w, state, flow, c)
           first(c) == Dominant(w, state, flow, c)
           loser(c) == Among([p \in Bytes(w) |-> p], Sides(w, state, flow, c) \ {Dominant(w, state, flow, c)})
           of(c) == IF Cardinality(Sides(w, state, flow, c)) = 2
                    THEN <<CombatEvent(c, Min(Sides(w, state, flow, c)), Max(Sides(w, state, flow, c)),
                                       Fight(w, state, flow, c).owner)>>
                    ELSE [i \in DOMAIN loser(c) |->
                           CombatEvent(c, Dominant(w, state, flow, c), loser(c)[i],
                                       Dominant(w, state, flow, c))]
           all == [k \in DOMAIN RowMajor |->
                     IF RowMajor[k] \in Contested(w, state, flow) THEN of(RowMajor[k]) ELSE <<>>]
<1>0. Bytes(w) = 1 .. Len(s.ids) /\ Len(s.ids) \in Nat
  BY MenuAssumption DEF Bytes, Scenarios
<1>1. CombatEvents(w, state, flow) = FlattenSeq(all)
  BY DEF CombatEvents
<1>2. ASSUME NEW c \in Contested(w, state, flow)
      PROVE  of(c) \in Seq(Hits(s)) /\ of(c) # <<>>
  <2>1. /\ c \in Cells /\ sides(c) \in SUBSET (1 .. Len(s.ids)) /\ sides(c) # {}
        /\ \E q \in sides(c) : q # first(c)
    <3>1. c \in Cells
      BY DEF Contested
    <3>2. \E p, q \in sides(c) : p # q
      BY <3>1, ContestedMeets
    <3> QED BY <3>1, <3>2, ContestedMeets, SidesTyped
  <2>2. first(c) \in sides(c) /\ Min(sides(c)) \in sides(c) /\ Max(sides(c)) \in sides(c)
    BY <2>1, SidesTyped
  <2>3. Fight(w, state, flow, c).owner \in 0 .. Len(s.ids)
    BY FightTyped
  <2>4. \A p \in sides(c) : p \in 0 .. Len(s.ids)
    BY <1>0, <2>1
  <2>5. loser(c) \in Seq((1 .. Len(s.ids)) \cap (sides(c) \ {first(c)})) /\ loser(c) # <<>>
    <3>1. [p \in Bytes(w) |-> p] \in Seq(1 .. Len(s.ids)) /\ DOMAIN [p \in Bytes(w) |-> p] = 1 .. Len(s.ids)
      BY <1>0
    <3>2. PICK numbers : numbers = [p \in Bytes(w) |-> p]
      OBVIOUS
    <3>3. /\ Among(numbers, sides(c) \ {first(c)}) \in Seq((1 .. Len(s.ids)) \cap (sides(c) \ {first(c)}))
          /\ \A i \in DOMAIN numbers : numbers[i] \in sides(c) \ {first(c)} =>
                \E k \in DOMAIN Among(numbers, sides(c) \ {first(c)}) :
                   Among(numbers, sides(c) \ {first(c)})[k] = numbers[i]
      <4>1. PICK rest : rest = sides(c) \ {first(c)}
        OBVIOUS
      <4>2. /\ Among(numbers, rest) \in Seq((1 .. Len(s.ids)) \cap rest)
            /\ \A i \in DOMAIN numbers : numbers[i] \in rest =>
                  \E k \in DOMAIN Among(numbers, rest) : Among(numbers, rest)[k] = numbers[i]
        <5>1. PICK bytes : bytes = 1 .. Len(s.ids)
          OBVIOUS
        <5>2. numbers \in Seq(bytes)
          BY <3>1, <3>2, <5>1
        <5> HIDE DEF sides, first
        <5>3. /\ Among(numbers, rest) \in Seq(bytes \cap rest)
              /\ \A i \in DOMAIN numbers : numbers[i] \in rest =>
                    \E k \in DOMAIN Among(numbers, rest) : Among(numbers, rest)[k] = numbers[i]
          BY <5>2, AmongKept
        <5> QED BY <5>1, <5>3
      <4> HIDE DEF sides, first
      <4> QED BY <4>1, <4>2
    <3>4. PICK q \in sides(c) : q # first(c)
      BY <2>1
    <3>5. q \in DOMAIN numbers /\ numbers[q] = q
      BY <1>0, <2>1, <3>2, <3>4
    <3>6. \E k \in DOMAIN Among(numbers, sides(c) \ {first(c)}) : TRUE
      BY <3>3, <3>4, <3>5
    <3> HIDE DEF sides, first
    <3>7. Among(numbers, sides(c) \ {first(c)}) # <<>>
      BY <3>6
    <3> QED BY <3>2, <3>3, <3>7 DEF sides, first
  <2>6. CASE Cardinality(sides(c)) = 2
    <3>1. PICK e : e = CombatEvent(c, Min(sides(c)), Max(sides(c)), Fight(w, state, flow, c).owner)
      OBVIOUS
    <3>2. e \in Hits(s)
      <4> HIDE DEF sides
      <4> QED BY <2>1, <2>2, <2>3, <2>4, <3>1 DEF CombatEvent, Hits
    <3>3. of(c) = <<e>>
      BY <2>6, <3>1
    <3> HIDE DEF of
    <3> QED BY <3>2, <3>3
  <2>7. CASE Cardinality(sides(c)) # 2
    <3>1. of(c) = [i \in DOMAIN loser(c) |-> CombatEvent(c, first(c), loser(c)[i], first(c))]
      BY <2>7
    <3>2. PICK l : l = loser(c)
      OBVIOUS
    <3>3. PICK n \in Nat : DOMAIN l = 1 .. n /\ n # 0 /\ \A i \in 1 .. n : l[i] \in 1 .. Len(s.ids)
      <4> HIDE DEF loser, sides, first
      <4>1. l \in Seq(1 .. Len(s.ids)) /\ l # <<>>
        BY <2>5, <3>2
      <4> QED BY <4>1
    <3>4. \A i \in 1 .. n : CombatEvent(c, first(c), l[i], first(c)) \in Hits(s)
      <4> HIDE DEF sides, first
      <4>1. first(c) \in 0 .. Len(s.ids) /\ \A i \in 1 .. n : l[i] \in 0 .. Len(s.ids)
        BY <1>0, <2>2, <2>4, <3>3
      <4> QED BY <2>1, <4>1 DEF CombatEvent, Hits
    <3>5. of(c) = [i \in 1 .. n |-> CombatEvent(c, first(c), l[i], first(c))]
      BY <3>1, <3>2, <3>3
    <3> HIDE DEF of, first
    <3>6. of(c) \in Seq(Hits(s)) /\ DOMAIN of(c) = 1 .. n /\ 1 \in 1 .. n
      BY <3>3, <3>4, <3>5
    <3> QED BY <3>6
  <2> QED BY <2>6, <2>7
<1> HIDE DEF of
<1>3. all \in Seq(Seq(Hits(s)))
  <2>1. RowMajor \in Seq(Cells) /\ <<>> \in Seq(Hits(s))
    BY RowMajorCells
  <2>2. PICK n \in Nat : DOMAIN RowMajor = 1 .. n
    BY <2>1
  <2> QED BY <1>2, <2>1, <2>2
<1>4. /\ FlattenSeq(all) \in Seq(Hits(s))
      /\ FlattenSeq(all) = <<>> => \A k \in DOMAIN all : all[k] = <<>>
  BY <1>3, FlattenKept
<1>5. ASSUME FlattenSeq(all) = <<>>, NEW c \in Contested(w, state, flow) PROVE FALSE
  <2>1. c \in Cells
    BY DEF Contested
  <2>2. PICK k \in DOMAIN RowMajor : RowMajor[k] = c
    BY <2>1, RowMajorCells
  <2>3. all[k] = of(c)
    BY <2>2
  <2> QED BY <1>2, <1>4, <1>5, <2>2, <2>3
<1> QED BY <1>1, <1>4, <1>5

\* Without a fight, the board after the fighting is the flow.
LEMMA NothingSettled ==
    ASSUME NEW s \in Scenarios, NEW w, w.scenario = s, NEW state \in BoardStates(s),
           NEW flow \in Flows(s)
    PROVE  Contested(w, state, flow) = {} =>
             /\ Combat(w, state, flow).count = flow.count
             /\ Combat(w, state, flow).owner = flow.owner
             /\ Peaceful(w, state, flow)
<1> DEFINE b == [count |-> flow.count, owner |-> flow.owner]
           fought == Contested(w, state, flow)
           seq == Among(RowMajor, fought)
<1>1. PICK after : /\ after = SettledCells(w, state, flow, b, seq)
                   /\ Combat(w, state, flow) = [count |-> after.count, owner |-> after.owner,
                          pipes |-> state.pipes, reserves |-> state.reserves, city |-> state.city]
  BY CombatSettles
<1>2. seq \in Seq(Cells \cap fought)
  BY RowMajorCells, AmongKept
<1>3. \A c \in Cells : ~(\E p, q \in Sides(w, state, flow, c) : p # q) \/ c \in fought
  BY ContestedMeets
<1> HIDE DEF b, seq, fought
<1>4. ASSUME fought = {} PROVE after = b /\ Peaceful(w, state, flow)
  <2>1. Cells \cap fought = {}
    BY <1>4
  <2>2. seq \in Seq({})
    BY <1>2, <2>1
  <2>3. seq = <<>>
    BY <2>2
  <2>4. DOMAIN seq = 1 .. 0
    BY <2>3
  <2>5. \A y \in {b}, k \in 1 .. 0 : SettledCell(w, state, flow, y, seq[k]) \in {b}
    OBVIOUS
  <2>6. b \in {b} /\ 0 \in Nat
    OBVIOUS
  <2>7. SettledCells(w, state, flow, b, seq) \in {b}
    BY <2>4, <2>5, <2>6, SettledKept
  <2>8. Peaceful(w, state, flow)
    BY <1>3, <1>4 DEF Peaceful
  <2> QED BY <1>1, <2>7, <2>8
<1>5. fought = {} => /\ Combat(w, state, flow).count = flow.count
                     /\ Combat(w, state, flow).owner = flow.owner
                     /\ Peaceful(w, state, flow)
  BY <1>1, <1>4 DEF b
<1> QED BY <1>5 DEF fought

\* What a player holds depends on the counts and the owners alone.
LEMMA HeldSame ==
    ASSUME NEW x, x.count \in [Cells -> Nat], NEW y, y.count = x.count, y.owner = x.owner, NEW r
    PROVE  Held(y, r) = Held(x, r)
<1>1. PICK m : m = [c \in Cells |-> Mine(x, r, c)]
  OBVIOUS
<1>2. m = [c \in Cells |-> Mine(y, r, c)]
  BY <1>1 DEF Mine
<1> QED BY <1>1, <1>2, HeldTotal

\* Capture and decay give nobody troops.
LEMMA EndNotMore ==
    ASSUME NEW s \in Scenarios, NEW st \in BoardStates(s), NEW r \in Nat \ {0}
    PROVE  Held(Decay(Capture(st)), r) <= Held(st, r)
<1>1. PICK x : x = Capture(st)
  OBVIOUS
<1>2. PICK y : y = Decay(x)
  OBVIOUS
<1>3. /\ x \in BoardStates(s) /\ y \in BoardStates(s)
      /\ \A c \in Cells : y.count[c] <= x.count[c] /\ y.owner[c] \in {0, x.owner[c]}
  BY <1>1, <1>2, CaptureTyped, DecayTyped
<1>4. x.count = st.count /\ x.owner = st.owner
  <2>1. st = [count |-> st.count, owner |-> st.owner, pipes |-> st.pipes,
              reserves |-> st.reserves, city |-> st.city]
    BY BoardIs
  <2> QED BY <1>1, <2>1 DEF Capture
<1>5. st.count \in [Cells -> Nat] /\ x.count \in [Cells -> Nat] /\ y.count \in [Cells -> Nat]
  BY <1>3, BoardCounts
<1>6. Held(x, r) = Held(st, r) /\ Held(x, r) \in Int /\ Held(y, r) \in Int
  BY <1>4, <1>5, HeldSame, HeldTyped
<1>7. \A c \in Cells : Mine(y, r, c) <= Mine(x, r, c) + (IF c \in {} THEN 0 ELSE 0)
  <2> TAKE c \in Cells
  <2>1. y.count[c] \in Nat /\ x.count[c] \in Nat
    BY <1>5
  <2> QED BY <1>3, <2>1 DEF Mine
<1>8. Held(y, r) <= Held(x, r) + 0 * Cardinality({})
  <2>1. {} \in SUBSET Cells /\ 0 \in Nat
    OBVIOUS
  <2> QED BY <1>5, <1>7, <2>1, HeldBelow
<1>9. Held(y, r) <= Held(x, r)
  BY <1>6, <1>8, FS_EmptySet
<1> QED BY <1>1, <1>2, <1>6, <1>9

\* A tick without a fight gives nobody more than his cities made.
LEMMA TickNotMore ==
    ASSUME Sound, CityHeldByOccupant, NEW orders, orders = SortedOrders(pending),
           Fired(world, orders).combat
             \o CombatEvents(world, Fired(world, orders).state, FlowOf(world, orders)) = <<>>,
           NEW r \in Bytes(world)
    PROVE  Held(Decay(Capture(Fought(world, orders))), r) <=
             Held(world.state, r) + ProductionRate * CityCount(world.state, r)
<1>1. PICK s \in Scenarios : s = world.scenario
  BY DEF Sound
<1>2. PICK st : st = Fired(world, orders).state
  OBVIOUS
<1>3. PICK flow : flow = FlowOf(world, orders)
  OBVIOUS
<1>4. PICK fought : fought = Fought(world, orders)
  OBVIOUS
<1>5. /\ world.state \in BoardStates(s) /\ orders \in Seq(Stageable(s))
      /\ Fired(world, orders) \in Phases(s, Len(orders))
      /\ flow \in Flows(s) /\ fought \in BoardStates(s)
  BY <1>1, <1>3, <1>4, TickSound DEF Sound
<1>6. st \in BoardStates(s) /\ Fired(world, orders).combat \in Seq(Hits(s))
  BY <1>2, <1>5 DEF Phases
<1>7. r \in 1 .. Len(s.ids) /\ r \in Nat \ {0}
  BY <1>1 DEF Bytes
<1>8. Fired(world, orders).combat = <<>> /\ Contested(world, st, flow) = {}
  <2>1. CombatEvents(world, st, flow) \in Seq(Hits(s))
    BY <1>1, <1>5, <1>6, EventsOfAll
  <2>2. Fired(world, orders).combat = <<>> /\ CombatEvents(world, st, flow) = <<>>
    BY <1>2, <1>3, <1>6, <2>1, EmptyConcat
  <2> QED BY <1>1, <1>5, <1>6, <2>2, EventsOfAll
<1>9. PICK staged : staged = Staging(world.state, orders)
  OBVIOUS
<1>10. PICK made : made = Production(staged)
  OBVIOUS
<1>11. /\ staged \in BoardStates(s) /\ made \in BoardStates(s)
       /\ staged.count = world.state.count /\ staged.owner = world.state.owner
       /\ staged.city = world.state.city
  BY <1>5, <1>9, <1>10, StagingMovesNothing, ProductionTyped
<1>12. /\ staged.count \in [Cells -> Nat] /\ made.count \in [Cells -> Nat] /\ st.count \in [Cells -> Nat]
       /\ flow.count \in [Cells -> Nat] /\ fought.count \in [Cells -> Nat]
       /\ world.state.count \in [Cells -> Nat]
  BY <1>5, <1>6, <1>11, BoardCounts
<1>13. Held(staged, r) = Held(world.state, r) /\ CityCount(staged, r) = CityCount(world.state, r)
  <2>1. Held(staged, r) = Held(world.state, r)
    BY <1>11, <1>12, HeldSame
  <2>2. CityCount(staged, r) = CityCount(world.state, r)
    BY <1>11 DEF CityCount
  <2> QED BY <2>1, <2>2
<1>14. Held(made, r) <= Held(staged, r) + ProductionRate * CityCount(staged, r)
  <2>1. \A c \in Cells : staged.city[c] # 0 => staged.owner[c] \in {0, staged.city[c]}
    BY <1>11 DEF CityHeldByOccupant
  <2> QED BY <1>7, <1>10, <1>11, <2>1, ProductionBounded
<1>15. Held(st, r) <= Held(made, r)
  <2>1. Fired(world, orders) \in NotMore(s, Len(orders), made)
    BY <1>1, <1>5, <1>9, <1>10, FiredNotMore
  <2> QED BY <1>2, <1>7, <1>8, <2>1 DEF NotMore
<1>16. /\ fought = Combat(world, st, flow) /\ flow = Flow(world, st)
  BY <1>2, <1>3, <1>4 DEF Fought, FlowOf
<1>17. /\ fought.count = flow.count /\ fought.owner = flow.owner
       /\ Peaceful(world, st, flow)
  BY <1>1, <1>5, <1>6, <1>8, <1>16, NothingSettled
<1>18. Held(flow, r) = Held(st, r)
  <2>1. flow \in Conserved(s, world, st)
    BY <1>1, <1>6, <1>16, FlowConserves
  <2> QED BY <1>7, <1>17, <2>1 DEF Conserved
<1>19. Held(fought, r) = Held(flow, r)
  BY <1>12, <1>17, HeldSame
<1>20. PICK end : end = Decay(Capture(fought))
  OBVIOUS
<1>21. Held(end, r) <= Held(fought, r)
  BY <1>5, <1>7, <1>20, EndNotMore
<1>22. /\ Held(end, r) \in Int /\ Held(fought, r) \in Int /\ Held(st, r) \in Int /\ Held(made, r) \in Int
       /\ Held(staged, r) \in Int
  <2>1. end.count \in [Cells -> Nat]
    BY <1>5, <1>20, CaptureTyped, DecayTyped, BoardCounts
  <2> QED BY <1>12, <2>1, HeldTyped
<1>23. ProductionRate * CityCount(staged, r) \in Int
  <2>1. CityCount(staged, r) \in Nat
    BY CellsFinite, FS_Subset, FS_CardinalityType DEF CityCount
  <2> QED BY <2>1, RulesAssumption
<1>24. Held(end, r) <= Held(staged, r) + ProductionRate * CityCount(staged, r)
  BY <1>14, <1>15, <1>18, <1>19, <1>21, <1>22, <1>23
<1> QED BY <1>4, <1>13, <1>20, <1>24

\* Nobody gains troops but from his cities, on every board and for every menu of
\* commands: in a tick without a fight, what a player holds grows by at most the
\* production of the cities he had (resolveProduction, resolveFlow).
THEOREM TroopsOnlyFromCities == Spec => NoTroopsFromNothing
<1> DEFINE Grown == world'.tick > world.tick /\ events'.combat = <<>> =>
                      \A p \in Bytes(world) :
                        Held(world'.state, p) <=
                          Held(world.state, p) + ProductionRate * CityCount(world.state, p)
<1>1. Sound /\ CityHeldByOccupant /\ [Next]_vars => [Grown]_vars
  <2> SUFFICES ASSUME Sound, CityHeldByOccupant, Next, world'.tick > world.tick,
                      events'.combat = <<>>, NEW p \in Bytes(world)
               PROVE  Held(world'.state, p) <=
                        Held(world.state, p) + ProductionRate * CityCount(world.state, p)
    OBVIOUS
  <2>0. world.tick \in Nat
    BY DEF Sound, WorldShape
  <2>1. ASSUME NEW o \in Menu[world.scenario], Submit(o) PROVE FALSE
    <3>1. PICK w : w = ApplyCommand(world, pending, o).world
      OBVIOUS
    <3>2. w = world \/ \E q : w = [world EXCEPT !.players[q].status = "eliminated"]
      <4>1. WorldShape
        BY DEF Sound
      <4> QED BY <3>1, <4>1, Commanded
    <3>3. world' = w
      BY <2>1, <3>1 DEF Submit
    <3>4. CASE w = world
      BY <2>0, <3>3, <3>4
    <3>5. ASSUME NEW q, w = [world EXCEPT !.players[q].status = "eliminated"]
          PROVE  FALSE
      <4>1. world'.tick = world.tick
        BY <3>3, <3>5, EliminatedShape DEF Sound
      <4> QED BY <2>0, <4>1
    <3> QED BY <3>2, <3>4, <3>5
  <2>2. ASSUME Advance
        PROVE  Held(world'.state, p) <=
                 Held(world.state, p) + ProductionRate * CityCount(world.state, p)
    <3>1. /\ world' = TickResult(world, pending).world
          /\ events' = TickResult(world, pending).events
      BY <2>2 DEF Advance
    <3>2. ~IsTerminal(world)
      <4>1. IsTerminal(world) => world' = world
        BY <3>1, TickStands
      <4> QED BY <2>0, <4>1
    <3>3. PICK orders : orders = SortedOrders(pending)
      OBVIOUS
    <3>4. /\ world' = Settled(world, Fought(world, orders))
          /\ events'.combat = Fired(world, orders).combat
                   \o CombatEvents(world, Fired(world, orders).state, FlowOf(world, orders))
      <4>1. PICK hits : hits = Fired(world, orders).combat
                       \o CombatEvents(world, Fired(world, orders).state, FlowOf(world, orders))
        OBVIOUS
      <4>2. TickResult(world, pending).world = Settled(world, Fought(world, orders))
        BY <3>2, <3>3, TickOf
      <4>3. TickResult(world, pending).events =
                [combat |-> hits,
                 captures |-> CaptureEvents(Fought(world, orders)),
                 eliminations |-> Eliminations(world, Decay(Capture(Fought(world, orders)))),
                 applied |-> Applied(orders, Fired(world, orders).done),
                 errors |-> Fired(world, orders).errors]
        BY <3>2, <3>3, <4>1, TickOf
      <4>4. events'.combat = hits
        BY <3>1, <4>3
      <4> QED BY <3>1, <4>1, <4>2, <4>4
    <3>5. world'.state = Decay(Capture(Fought(world, orders)))
      BY <3>4, SettledShape DEF Sound
    <3> QED BY <3>3, <3>4, <3>5, TickNotMore
  <2> QED BY <2>1, <2>2 DEF Next
<1> QED BY <1>1, SoundKept, CitiesHeldByOccupants, PTL DEF Spec, NoTroopsFromNothing

----------------------------------------------------------------------------
(* What a tick reports *)

\* A capture, as CaptureEvents tells it.
Takings(st) == {[cell |-> c, from |-> st.city[c], to |-> st.owner[c]] : c \in Cells}

\* A report has its five lists, and they are lists.
Reported(e) ==
    /\ e = [combat |-> e.combat, captures |-> e.captures, eliminations |-> e.eliminations,
            applied |-> e.applied, errors |-> e.errors]
    /\ \E X : e.combat \in Seq(X)
    /\ \E X : e.captures \in Seq(X)
    /\ \E X : e.applied \in Seq(X)
    /\ \E X : e.errors \in Seq(X)

\* The captures of a tick are a list of cells of the board with their owners.
LEMMA CapturesListed ==
    ASSUME NEW st
    PROVE  CaptureEvents(st) \in Seq(Takings(st))
<1> DEFINE taken(c) == IF c \in Captured(st)
                       THEN <<[cell |-> c, from |-> st.city[c], to |-> st.owner[c]]>>
                       ELSE <<>>
           all == [k \in DOMAIN RowMajor |-> taken(RowMajor[k])]
<1>1. \A c \in Cells : taken(c) \in Seq(Takings(st))
  BY DEF Takings
<1>2. CaptureEvents(st) = FlattenSeq(all)
  BY DEF CaptureEvents
<1> HIDE DEF taken
<1>3. RowMajor \in Seq(Cells)
  BY RowMajorCells
<1>4. all \in Seq(Seq(Takings(st)))
  <2>1. PICK n \in Nat : DOMAIN RowMajor = 1 .. n
    BY <1>3
  <2> QED BY <1>1, <1>3, <2>1
<1> HIDE DEF all
<1> QED BY <1>2, <1>4, FlattenKept

\* The orders reported as applied are a list of the tick's orders.
LEMMA AppliedListed ==
    ASSUME NEW X, NEW orders \in Seq(X), NEW done
    PROVE  Applied(orders, done) \in Seq(X)
<1> DEFINE took == {i \in DOMAIN orders : orders[i].kind \notin {"paratroop", "gun"} \/ i \in done}
           at == Among(Places(orders), took)
<1>1. Places(orders) \in Seq(DOMAIN orders)
  BY DEF Places
<1>2. at \in Seq(DOMAIN orders \cap took)
  <2> HIDE DEF took
  <2> QED BY <1>1, AmongKept
<1>3. Applied(orders, done) = [k \in DOMAIN at |-> orders[at[k]]]
  BY DEF Applied
<1> HIDE DEF at, took
<1> QED BY <1>2, <1>3

\* Every step of a match reports lists.
LEMMA ReportsListed == Spec => []Reported(events)
<1>1. ASSUME Init PROVE Reported(events)
  <2>1. \E X : <<>> \in Seq(X)
    <3>1. <<>> \in Seq({})
      OBVIOUS
    <3> QED BY <3>1
  <2>2. events = Quiet
    BY <1>1 DEF Init
  <2>3. PICK none : none = <<>>
    OBVIOUS
  <2>4. events = [combat |-> none, captures |-> none, eliminations |-> none,
                  applied |-> none, errors |-> none]
    BY <2>2, <2>3 DEF Quiet
  <2> QED BY <2>1, <2>3, <2>4 DEF Reported
<1>2. ASSUME Sound, Reported(events), [Next]_vars PROVE Reported(events')
  <2>1. CASE events' = events
    BY <1>2, <2>1
  <2>2. CASE Advance
    <3>1. events' = TickResult(world, pending).events
      BY <2>2 DEF Advance
    <3>2. CASE IsTerminal(world)
      <4>1. events' = Quiet
        BY <3>1, <3>2, TickStands
      <4>2. <<>> \in Seq({})
        OBVIOUS
      <4> QED BY <4>1, <4>2 DEF Quiet, Reported
    <3>3. CASE ~IsTerminal(world)
      <4>1. PICK orders : orders = SortedOrders(pending)
        OBVIOUS
      <4>2. PICK s : s = world.scenario
        OBVIOUS
      <4>3. /\ s \in Scenarios /\ orders \in Seq(Stageable(s))
            /\ Fired(world, orders) \in Phases(s, Len(orders))
            /\ FlowOf(world, orders) \in Flows(s)
        BY <1>2, <4>1, <4>2, TickSound DEF Sound
      <4>4. PICK hits : hits = Fired(world, orders).combat
                         \o CombatEvents(world, Fired(world, orders).state, FlowOf(world, orders))
        OBVIOUS
      <4>5. PICK takes : takes = CaptureEvents(Fought(world, orders))
        OBVIOUS
      <4>6. PICK out : out = Eliminations(world, Decay(Capture(Fought(world, orders))))
        OBVIOUS
      <4>7. PICK did : did = Applied(orders, Fired(world, orders).done)
        OBVIOUS
      <4>8. PICK failed : failed = Fired(world, orders).errors
        OBVIOUS
      <4>9. events' = [combat |-> hits, captures |-> takes, eliminations |-> out,
                       applied |-> did, errors |-> failed]
        BY <3>1, <3>3, <4>1, <4>4, <4>5, <4>6, <4>7, <4>8, TickOf
      <4>10. hits \in Seq(Hits(s))
        <5>1. /\ Fired(world, orders).combat \in Seq(Hits(s))
              /\ Fired(world, orders).state \in BoardStates(s)
          BY <4>3 DEF Phases
        <5>2. CombatEvents(world, Fired(world, orders).state, FlowOf(world, orders)) \in Seq(Hits(s))
          BY <4>2, <4>3, <5>1, EventsOfAll
        <5> QED BY <4>4, <5>1, <5>2
      <4>11. takes \in Seq(Takings(Fought(world, orders)))
        BY <4>5, CapturesListed
      <4>12. did \in Seq(Stageable(s))
        BY <4>3, <4>7, AppliedListed
      <4>13. failed \in Seq(Refusals(s))
        BY <4>3, <4>8 DEF Phases
      <4> QED BY <4>9, <4>10, <4>11, <4>12, <4>13 DEF Reported
    <3> QED BY <3>2, <3>3
  <2> QED BY <1>2, <2>1, <2>2 DEF Next, Submit, vars
<1>3. Sound /\ Reported(events) /\ [Next]_vars => Reported(events)'
  BY <1>2
<1> QED BY <1>1, <1>3, SoundKept, PTL DEF Spec

\* What is selected from a list is in the set it is selected by.
LEMMA AmongWithin ==
    ASSUME NEW s, \E X : s \in Seq(X), NEW set
    PROVE  \A i \in DOMAIN Among(s, set) : Among(s, set)[i] \in set
<1>1. PICK X : s \in Seq(X)
  OBVIOUS
<1>2. Among(s, set) \in Seq(X \cap set)
  BY <1>1, AmongKept
<1> QED BY <1>2

\* What a player is told happened names only cells that he is shown, on every
\* board and for every menu of commands: after the tick has moved, killed and
\* spent the stacks that see (filterTickEvents).
THEOREM ToldWithinSight == Spec => []EventsWithinSight
<1>1. Reported(events) => EventsWithinSight
  <2> SUFFICES ASSUME Reported(events), NEW id \in ToSet(world.scenario.ids),
                      NEW told, told = ViewOf(id).events,
                      NEW shown, shown = DOMAIN ViewOf(id).cells
               PROVE  /\ \A i \in DOMAIN told.combat : told.combat[i].cell \in shown
                      /\ \A i \in DOMAIN told.captures : told.captures[i].cell \in shown
                      /\ \A i \in DOMAIN told.applied : OrderCoords(told.applied[i]) \subseteq shown
                      /\ \A i \in DOMAIN told.errors : OrderCoords(told.errors[i].order) \subseteq shown
    BY DEF EventsWithinSight
  <2>1. PICK p : p = Dense(world.scenario.ids, id)
    OBVIOUS
  <2>2. CASE p = 0
    <3>1. told = Quiet
      BY <2>1, <2>2 DEF ViewOf, PlayerView
    <3> QED BY <3>1 DEF Quiet
  <2>3. CASE p # 0
    <3>1. /\ shown = VisibleSet(world, p)
          /\ told = FilterTickEvents(world, p, shown, events)
      BY <2>1, <2>3 DEF ViewOf, PlayerView
    <3>2. PICK seen : seen = {e \in ToSet(events.combat) : e.cell \in shown}
      OBVIOUS
    <3>3. PICK taken : taken = {e \in ToSet(events.captures) : e.cell \in shown}
      OBVIOUS
    <3>4. PICK done : done = {o \in ToSet(events.applied) :
                                Dense(world.scenario.ids, o.player) = p /\ AllVisible(OrderCoords(o), shown)}
      OBVIOUS
    <3>5. PICK failed : failed = {e \in ToSet(events.errors) :
                                    AllVisible(OrderCoords(e.order) \cup ReasonCoords(e), shown)}
      OBVIOUS
    <3>6. FilterTickEvents(world, p, shown, events) =
            [events EXCEPT !.combat = Among(@, seen), !.captures = Among(@, taken),
                           !.applied = Among(@, done), !.errors = Among(@, failed)]
      BY <3>2, <3>3, <3>4, <3>5 DEF FilterTickEvents
    <3>7. /\ told.combat = Among(events.combat, seen)
          /\ told.captures = Among(events.captures, taken)
          /\ told.applied = Among(events.applied, done)
          /\ told.errors = Among(events.errors, failed)
      BY <3>1, <3>6 DEF Reported
    <3>8. /\ \A i \in DOMAIN told.combat : told.combat[i] \in seen
          /\ \A i \in DOMAIN told.captures : told.captures[i] \in taken
          /\ \A i \in DOMAIN told.applied : told.applied[i] \in done
          /\ \A i \in DOMAIN told.errors : told.errors[i] \in failed
      BY <3>7, AmongWithin DEF Reported
    <3> QED BY <3>2, <3>3, <3>4, <3>5, <3>8 DEF AllVisible
  <2> QED BY <2>2, <2>3
<1> QED BY <1>1, ReportsListed, PTL

----------------------------------------------------------------------------
(* The order of arrival *)

\* Two neighbours change places.
Exchange(i, k) == IF k = i THEN i + 1 ELSE IF k = i + 1 THEN i ELSE k

\* Orders of two players compare by the players.
LEMMA PlayersCompare ==
    ASSUME NEW s \in Scenarios, NEW a \in Stageable(s), NEW b \in Stageable(s),
           a.player # b.player
    PROVE  Below(SortKey(a), SortKey(b)) \/ Below(SortKey(b), SortKey(a))
<1>1. a.player \in Int /\ b.player \in Int
  BY KeyParts
<1>2. PICK k : k = SortKey(a)
  OBVIOUS
<1>3. PICK l : l = SortKey(b)
  OBVIOUS
<1>4. DOMAIN k = 1 .. 5 /\ DOMAIN l = 1 .. 5 /\ k[1] = a.player /\ l[1] = b.player
  BY <1>2, <1>3 DEF SortKey
<1>5. k[1] < l[1] \/ l[1] < k[1]
  BY <1>1, <1>4
<1>6. Below(k, l) \/ Below(l, k)
  BY <1>4, <1>5, BelowFive
<1> QED BY <1>2, <1>3, <1>6

\* Among the exchanged orders of two players everyone precedes whom he did before.
LEMMA PrecedenceExchanged ==
    ASSUME NEW s \in Scenarios, NEW n \in Nat, NEW q \in [1 .. n -> Stageable(s)],
           NEW i \in 1 .. n - 1, q[i].player # q[i + 1].player
    PROVE  \A j, k \in 1 .. n :
              SortsBefore(Swapped(q, i), j, k) <=> SortsBefore(q, Exchange(i, j), Exchange(i, k))
<1> DEFINE r == Swapped(q, i)
<1>1. /\ \A k \in 1 .. n : Exchange(i, k) \in 1 .. n /\ r[k] = q[Exchange(i, k)]
      /\ r \in [1 .. n -> Stageable(s)]
  BY DEF Swapped, Exchange
<1> HIDE DEF r
<1> SUFFICES ASSUME NEW j \in 1 .. n, NEW k \in 1 .. n
             PROVE  SortsBefore(r, j, k) <=> SortsBefore(q, Exchange(i, j), Exchange(i, k))
  BY DEF r
<1>2. CASE {j, k} = {i, i + 1}
  <2>1. r[j].player # r[k].player
    <3>1. r[i] = q[i + 1] /\ r[i + 1] = q[i]
      <4>1. i \in 1 .. n /\ i + 1 \in 1 .. n
        OBVIOUS
      <4>2. Exchange(i, i) = i + 1 /\ Exchange(i, i + 1) = i
        BY DEF Exchange
      <4> QED BY <1>1, <4>1, <4>2
    <3>2. (j = i /\ k = i + 1) \/ (j = i + 1 /\ k = i)
      BY <1>2
    <3> QED BY <3>1, <3>2
  <2>2. Below(SortKey(r[j]), SortKey(r[k])) \/ Below(SortKey(r[k]), SortKey(r[j]))
    BY <1>1, <2>1, PlayersCompare
  <2> QED BY <1>1, <2>2 DEF SortsBefore
<1>3. CASE {j, k} # {i, i + 1}
  <2>1. j < k <=> Exchange(i, j) < Exchange(i, k)
    BY <1>3 DEF Exchange
  <2> QED BY <1>1, <2>1 DEF SortsBefore
<1> QED BY <1>2, <1>3

\* So their places are exchanged too,
LEMMA PlacesExchanged ==
    ASSUME NEW s \in Scenarios, NEW n \in Nat, NEW q \in [1 .. n -> Stageable(s)],
           NEW i \in 1 .. n - 1, q[i].player # q[i + 1].player
    PROVE  \A k \in 1 .. n : PlaceOf(Swapped(q, i), n, k) = PlaceOf(q, n, Exchange(i, k))
<1> DEFINE r == Swapped(q, i)
<1>1. \A j, k \in 1 .. n : SortsBefore(r, j, k) <=> SortsBefore(q, Exchange(i, j), Exchange(i, k))
  BY PrecedenceExchanged
<1> HIDE DEF r
<1>2. \A k \in 1 .. n : Exchange(i, k) \in 1 .. n /\ Exchange(i, Exchange(i, k)) = k
  BY DEF Exchange
<1> SUFFICES ASSUME NEW k \in 1 .. n
             PROVE  PlaceOf(r, n, k) = PlaceOf(q, n, Exchange(i, k))
  BY DEF r
<1> DEFINE A == {j \in 1 .. n : <<j, k>> \in Precedence(r, n)}
           B == {j \in 1 .. n : <<j, Exchange(i, k)>> \in Precedence(q, n)}
           f == [j \in A |-> Exchange(i, j)]
<1>3. \A j \in 1 .. n : j \in A <=> SortsBefore(r, j, k)
  BY DEF Precedence
<1>4. \A j \in 1 .. n : j \in B <=> SortsBefore(q, j, Exchange(i, k))
  BY <1>2 DEF Precedence
<1>5. A \subseteq 1 .. n /\ B \subseteq 1 .. n
  OBVIOUS
<1> HIDE DEF A, B
<1>6. \A j \in 1 .. n : j \in A <=> Exchange(i, j) \in B
  BY <1>1, <1>2, <1>3, <1>4
<1>7. f \in Bijection(A, B)
  <2>1. f \in [A -> B]
    BY <1>5, <1>6
  <2>2. \A a, b \in A : f[a] = f[b] => a = b
    BY <1>2, <1>5
  <2>3. \A b \in B : \E a \in A : f[a] = b
    <3> TAKE b \in B
    <3>1. Exchange(i, b) \in A /\ Exchange(i, Exchange(i, b)) = b
      BY <1>2, <1>5, <1>6
    <3> QED BY <3>1
  <2> HIDE DEF f
  <2>4. f \in Injection(A, B)
    BY <2>1, <2>2 DEF Injection, IsInjective
  <2>5. f \in Surjection(A, B)
    BY <2>1, <2>3 DEF Surjection
  <2> QED BY <2>4, <2>5 DEF Bijection
<1> HIDE DEF f
<1>8. IsFiniteSet(A)
  <2>1. IsFiniteSet(1 .. n)
    BY FS_Interval
  <2> QED BY <1>5, <2>1, FS_Subset
<1>9. Cardinality(A) = Cardinality(B)
  <2>1. ExistsBijection(A, B)
    BY <1>7 DEF ExistsBijection
  <2> QED BY <1>8, <2>1, FS_Bijection
<1> QED BY <1>9 DEF PlaceOf, Rank, A, B

\* every place is taken,
LEMMA PlaceFilled ==
    ASSUME NEW s \in Scenarios, NEW n \in Nat
    PROVE  \A x \in [1 .. n -> Stageable(s)], k \in 1 .. n : \E j \in 1 .. n : PlaceOf(x, n, j) = k
BY PlacesNumber

\* and the sorted orders are the same.
LEMMA SortedExchanged ==
    ASSUME NEW s \in Scenarios, NEW n \in Nat, NEW q \in [1 .. n -> Stageable(s)],
           NEW i \in 1 .. n - 1, q[i].player # q[i + 1].player
    PROVE  SortedOrders(Swapped(q, i)) = SortedOrders(q)
<1>1. /\ Swapped(q, i) \in [1 .. n -> Stageable(s)]
      /\ \A k \in 1 .. n : Exchange(i, k) \in 1 .. n /\ Swapped(q, i)[k] = q[Exchange(i, k)]
  BY DEF Swapped, Exchange
<1>2. \A k \in 1 .. n : PlaceOf(Swapped(q, i), n, k) = PlaceOf(q, n, Exchange(i, k))
  BY PlacesExchanged
<1>3. PICK r \in [1 .. n -> Stageable(s)] : r = Swapped(q, i)
  BY <1>1
<1>4. \A k \in 1 .. n : \E m \in 1 .. n :
          r[k] = q[m] /\ PlaceOf(r, n, k) = PlaceOf(q, n, m)
  BY <1>1, <1>2, <1>3
<1>5. \A k \in 1 .. n : \E j \in 1 .. n : PlaceOf(r, n, j) = k
  BY PlaceFilled
<1>6. /\ \A k \in 1 .. n : \E j \in 1 .. n : PlaceOf(q, n, j) = k
      /\ \A j, k \in 1 .. n : PlaceOf(q, n, j) = PlaceOf(q, n, k) => j = k
  BY PlacesNumber
<1>7. ASSUME NEW k \in 1 .. n
      PROVE  AtPlace(r, n, k) = AtPlace(q, n, k)
  <2>1. PICK j \in 1 .. n : PlaceOf(r, n, j) = k /\ AtPlace(r, n, k) = r[j]
    BY <1>5 DEF AtPlace
  <2>2. PICK l \in 1 .. n : PlaceOf(q, n, l) = k /\ AtPlace(q, n, k) = q[l]
    BY <1>6 DEF AtPlace
  <2>3. PICK m \in 1 .. n : r[j] = q[m] /\ PlaceOf(r, n, j) = PlaceOf(q, n, m)
    BY <1>4
  <2>4. m = l
    BY <1>6, <2>1, <2>2, <2>3
  <2> QED BY <2>1, <2>2, <2>3, <2>4
<1>8. SortedOrders(r) = [k \in 1 .. n |-> AtPlace(r, n, k)]
  BY SortedByPlace
<1>9. SortedOrders(q) = [k \in 1 .. n |-> AtPlace(q, n, k)]
  BY SortedByPlace
<1> QED BY <1>3, <1>7, <1>8, <1>9

\* Whichever of two players is heard first between two ticks makes no difference
\* to the tick, on every board and for every menu of commands: the orders are
\* sorted by player (sortOrdersDeterministic).
THEOREM ArrivalOrderKept == Spec => []ArrivalOrderIrrelevant
<1>1. ASSUME Sound PROVE ArrivalOrderIrrelevant
  <2> SUFFICES ASSUME NEW i \in 1 .. Len(pending) - 1, pending[i].player # pending[i + 1].player
               PROVE  /\ TickResult(world, pending).world = TickResult(world, Swapped(pending, i)).world
                      /\ TickResult(world, pending).events = TickResult(world, Swapped(pending, i)).events
    BY DEF ArrivalOrderIrrelevant
  <2>1. PICK s \in Scenarios : pending \in Seq(Stageable(s))
    BY <1>1 DEF Sound
  <2>2. PICK n \in Nat : n = Len(pending) /\ pending \in [1 .. n -> Stageable(s)]
    BY <2>1
  <2>3. SortedOrders(Swapped(pending, i)) = SortedOrders(pending)
    <3>1. i \in 1 .. n - 1
      BY <2>2
    <3> QED BY <2>2, <3>1, SortedExchanged
  <2>4. CASE IsTerminal(world)
    BY <2>4, TickStands
  <2>5. CASE ~IsTerminal(world)
    <3>1. PICK orders : orders = SortedOrders(pending)
      OBVIOUS
    <3>2. orders = SortedOrders(Swapped(pending, i))
      BY <2>3, <3>1
    <3>3. TickResult(world, pending).world = Settled(world, Fought(world, orders))
      BY <2>5, <3>1, TickOf
    <3>4. TickResult(world, Swapped(pending, i)).world = Settled(world, Fought(world, orders))
      BY <2>5, <3>2, TickOf
    <3>5. PICK told : told = TickResult(world, pending).events
      OBVIOUS
    <3>6. told = [combat |-> Fired(world, orders).combat
                              \o CombatEvents(world, Fired(world, orders).state, FlowOf(world, orders)),
                  captures |-> CaptureEvents(Fought(world, orders)),
                  eliminations |-> Eliminations(world, Decay(Capture(Fought(world, orders)))),
                  applied |-> Applied(orders, Fired(world, orders).done),
                  errors |-> Fired(world, orders).errors]
      BY <2>5, <3>1, <3>5, TickOf
    <3>7. TickResult(world, Swapped(pending, i)).events = told
      BY <2>5, <3>2, <3>6, TickOf
    <3> QED BY <3>3, <3>4, <3>5, <3>7
  <2> QED BY <2>4, <2>5
<1> QED BY <1>1, SoundKept, PTL

----------------------------------------------------------------------------
(* Orders of the console *)

\* A console that shows its player the match as it is.
Sitting(con) ==
    /\ con.player \in ToSet(world.scenario.ids)
    /\ con.byte = Dense(world.scenario.ids, con.player)
    /\ con.view = ViewOf(con.player).cells
    /\ con.selection \in Cells \cup {NoCell}

\* The orders that aim at a cell.
Attacks == {"paratroop", "gun"}

\* A key drafts one order of the selected cell, or nothing.
LEMMA KeyDrafts ==
    ASSUME NEW con, NEW key, NEW alt, NEW out, out = PressKey(con, key, alt)
    PROVE  \/ out = Ignored
           \/ /\ out.verdict = "drafted" /\ out.action.kind \in PipeKinds
              /\ out.action.direction \in DOMAIN Offset
           \/ out.verdict = "drafted" /\ out.action.kind \in {"clearAllPipes", "setReserves"}
           \/ /\ out.verdict \in {"drafted", "blocked"} /\ out.action.kind \in Attacks
              /\ out.action.cell = con.selection /\ con.selection # NoCell
              /\ out.verdict = "drafted" <=> PreflightAttack(con, out.action) = Ok
<1>1. PICK made : made = TranslateKey(con, key, alt)
  OBVIOUS
<1>2. out = made \/ out = Ignored
  BY <1>1 DEF PressKey
<1>3. CASE ~con.inputEnabled \/ con.selection = NoCell
  BY <1>1, <1>2, <1>3 DEF TranslateKey
<1>4. CASE con.inputEnabled /\ con.selection # NoCell /\ key \in DOMAIN PipeKeys
  <2>1. PipeKeys[key] \in DOMAIN Offset
    BY <1>4 DEF PipeKeys, Offset
  <2>a. key # "Space" /\ key \notin DOMAIN AbilityKeys /\ key \notin ToSet(ReserveKeys)
    BY <1>4 DEF PipeKeys, AbilityKeys, ReserveKeys, ToSet
  <2>2. made = Exclusive(con.selection, PipeKeys[key]) \/ made = Toggle(con, con.selection, PipeKeys[key])
    BY <1>1, <1>4, <2>a DEF TranslateKey
  <2>3. /\ made.verdict = "drafted" /\ made.action.kind \in PipeKinds
        /\ made.action.direction \in DOMAIN Offset
    BY <2>1, <2>2 DEF Exclusive, Toggle, Draft, Drafted, Outcome, PipeKinds
  <2> QED BY <1>2, <2>3
<1>5. CASE con.inputEnabled /\ con.selection # NoCell /\ key = "Space"
  <2>1. key \notin DOMAIN PipeKeys /\ key \notin DOMAIN AbilityKeys /\ key \notin ToSet(ReserveKeys)
    BY <1>5 DEF PipeKeys, AbilityKeys, ReserveKeys, ToSet
  <2>2. made = Draft(Drafted("clearAllPipes", con.selection))
    BY <1>1, <1>5, <2>1 DEF TranslateKey
  <2> QED BY <1>2, <2>2 DEF Draft, Drafted, Outcome
<1>6. CASE con.inputEnabled /\ con.selection # NoCell /\ key \in DOMAIN AbilityKeys
  <2>1. /\ key \notin DOMAIN PipeKeys /\ key # "Space" /\ key \notin ToSet(ReserveKeys)
        /\ AbilityKeys[key] \in Attacks
    BY <1>6 DEF PipeKeys, AbilityKeys, ReserveKeys, ToSet, Attacks
  <2>2. made = BuildAbility(con, AbilityKeys[key])
    BY <1>1, <1>6, <2>1 DEF TranslateKey
  <2>3. PICK target : target = SubcellToTarget(con.selection, Subcell(con.pointer.at))
    OBVIOUS
  <2>4. PICK action : action = [Drafted(AbilityKeys[key], con.selection) EXCEPT !.target = target]
    OBVIOUS
  <2>5. \/ made = Ignored
        \/ made = Outcome(IF PreflightAttack(con, action) = Ok THEN "drafted" ELSE "blocked", action)
    BY <2>2, <2>3, <2>4 DEF BuildAbility
  <2>6. action.kind \in Attacks /\ action.cell = con.selection
    BY <2>1, <2>4 DEF Drafted
  <2>7. \/ made = Ignored
        \/ /\ made.verdict \in {"drafted", "blocked"} /\ made.action = action
           /\ made.verdict = "drafted" <=> PreflightAttack(con, action) = Ok
    BY <2>5 DEF Outcome
  <2> QED BY <1>2, <1>6, <2>6, <2>7
<1>7. CASE con.inputEnabled /\ con.selection # NoCell /\ key \in ToSet(ReserveKeys)
  <2>1. key \notin DOMAIN PipeKeys /\ key # "Space" /\ key \notin DOMAIN AbilityKeys
    BY <1>7 DEF PipeKeys, AbilityKeys, ReserveKeys, ToSet
  <2>2. made = DraftReserve(con.selection, key)
    BY <1>1, <1>7, <2>1 DEF TranslateKey
  <2>3. made.verdict = "drafted" /\ made.action.kind = "setReserves"
    BY <2>2 DEF DraftReserve, Draft, Drafted, Outcome
  <2> QED BY <1>2, <2>3
<1>8. CASE /\ key \notin DOMAIN PipeKeys /\ key # "Space" /\ key \notin DOMAIN AbilityKeys
           /\ key \notin ToSet(ReserveKeys)
  BY <1>1, <1>2, <1>8 DEF TranslateKey
<1> QED BY <1>3, <1>4, <1>5, <1>6, <1>7, <1>8

\* So do a click and a button,
LEMMA ClickDrafts ==
    ASSUME NEW con, NEW button, NEW alt, NEW out, out = Click(con, button, alt)
    PROVE  \/ out = Ignored
           \/ /\ out.verdict = "drafted" /\ out.action.kind \in PipeKinds
              /\ out.action.direction \in DOMAIN Offset
<1>1. PICK c : c = CellUnder(con.pointer.at)
  OBVIOUS
<1>2. PICK d \in DOMAIN Offset : d = RegionFromSubcell(Subcell(con.pointer.at))
  BY DEF RegionFromSubcell, Offset
<1>3. out = Ignored \/ out = Exclusive(c, d) \/ out = Toggle(con, c, d)
  BY <1>1, <1>2 DEF Click
<1> QED BY <1>3 DEF Exclusive, Toggle, Draft, Drafted, Outcome, PipeKinds

\* and any gesture.
LEMMA GestureDrafts ==
    ASSUME NEW con, NEW g, g.by \in {"key", "click", "button"}, NEW out, out = Gesture(con, g)
    PROVE  \/ out = Ignored
           \/ /\ out.verdict = "drafted" /\ out.action.kind \in PipeKinds
              /\ out.action.direction \in DOMAIN Offset
           \/ out.verdict = "drafted" /\ out.action.kind \in {"clearAllPipes", "setReserves", "surrender"}
           \/ /\ out.verdict \in {"drafted", "blocked"} /\ out.action.kind \in Attacks
              /\ out.action.cell = con.selection /\ con.selection # NoCell
              /\ out.verdict = "drafted" <=> PreflightAttack(con, out.action) = Ok
<1>1. CASE g.by = "key"
  <2>1. out = PressKey(con, g.key, g.alt)
    BY <1>1 DEF Gesture
  <2> QED BY <2>1, KeyDrafts
<1>2. CASE g.by = "click"
  <2>1. out = Click(con, g.key, g.alt)
    BY <1>2 DEF Gesture
  <2> QED BY <2>1, ClickDrafts
<1>3. CASE g.by = "button"
  <2>1. out = PressButton(con, g.key)
    BY <1>3 DEF Gesture
  <2>2. \/ out = Ignored
        \/ out.verdict = "drafted" /\ out.action.kind \in {"clearAllPipes", "setReserves", "surrender"}
    BY <2>1 DEF PressButton, DraftReserve, Draft, Drafted, Outcome
  <2> QED BY <2>2
<1> QED BY <1>1, <1>2, <1>3

\* A player is shown cells of the board as they are.
LEMMA ViewShows ==
    ASSUME Sound, NEW con, Sitting(con)
    PROVE  /\ con.byte = Dense(world.scenario.ids, con.player) /\ con.byte # 0
           /\ \A c : Seen(con, c) =>
                /\ c \in Cells
                /\ SeenWater(con, c) <=> c \in world.scenario.water
                /\ con.view[c].owner = world.state.owner[c]
                /\ con.view[c].city = world.state.city[c]
<1>1. PICK p : p = Dense(world.scenario.ids, con.player)
  OBVIOUS
<1>2. p # 0
  <2>1. world.scenario.ids \in Seq(Int)
    BY MenuAssumption DEF Sound, Scenarios
  <2> QED BY <1>1, <2>1, PlayerHasByte DEF Sitting
<1>3. con.view = [c \in VisibleSet(world, p) |->
                    [water |-> c \in world.scenario.water,
                     count |-> world.state.count[c], owner |-> world.state.owner[c],
                     pipes |-> world.state.pipes[c], reserves |-> world.state.reserves[c],
                     city |-> world.state.city[c]]]
  BY <1>1, <1>2 DEF Sitting, ViewOf, PlayerView
<1>4. VisibleSet(world, p) \subseteq Cells
  <2> SUFFICES ASSUME NEW d \in Cells, NEW c \in CellsInRange(d) PROVE c \in Cells
    BY DEF VisibleSet, Stacks
  <2>1. \A n \in 0 .. Width - 1 : Span(n) \subseteq 0 .. Width - 1
    <3> TAKE n \in 0 .. Width - 1
    <3>1. Width \in Nat \ {0} /\ Radius \in Nat
      BY RulesAssumption, RadiusAssumption
    <3>2. -Least(0, Radius - n) >= 0 /\ -Least(0, Radius - n) \in Int
      BY <3>1 DEF Least
    <3>3. Least(Width - 1, n + Radius) <= Width - 1 /\ Least(Width - 1, n + Radius) \in Int
      BY <3>1 DEF Least
    <3> QED BY <3>1, <3>2, <3>3 DEF Span
  <2>2. d[1] \in 0 .. Width - 1 /\ d[2] \in 0 .. Width - 1
    BY DEF Cells
  <2> QED BY <2>1, <2>2 DEF CellsInRange, Cells
<1>5. ASSUME NEW c, Seen(con, c)
      PROVE  /\ c \in Cells
             /\ SeenWater(con, c) <=> c \in world.scenario.water
             /\ con.view[c].owner = world.state.owner[c]
             /\ con.view[c].city = world.state.city[c]
  <2>1. c \in VisibleSet(world, p)
    BY <1>3, <1>5 DEF Seen
  <2>2. con.view[c] = [water |-> c \in world.scenario.water,
                       count |-> world.state.count[c], owner |-> world.state.owner[c],
                       pipes |-> world.state.pipes[c], reserves |-> world.state.reserves[c],
                       city |-> world.state.city[c]]
    BY <1>3, <2>1
  <2>3. PICK shown : shown = con.view[c]
    OBVIOUS
  <2>4. /\ shown.water = (c \in world.scenario.water)
        /\ shown.owner = world.state.owner[c] /\ shown.city = world.state.city[c]
    BY <2>2, <2>3
  <2>5. SeenWater(con, c) <=> c \in world.scenario.water
    BY <1>5, <2>3, <2>4 DEF SeenWater
  <2> QED BY <1>4, <2>1, <2>3, <2>4, <2>5
<1> QED BY <1>1, <1>2, <1>5 DEF Sitting

\* On a cell that the console shows, its rule for sources is the engine's.
LEMMA SourcesAgree ==
    ASSUME Sound, NEW con, Sitting(con), NEW c
    PROVE  /\ PreflightSource(con, c) = Ok => Seen(con, c)
           /\ Seen(con, c) =>
                (PreflightSource(con, c) = Ok <=> SourceError(world, c, con.player) = Ok)
<1>0. /\ Ok # "out_of_bounds" /\ Ok # "water_target" /\ Ok # "not_owner" /\ Ok # "unknown_player"
  BY DEF Ok
<1>1. PreflightSource(con, c) = Ok => Seen(con, c)
  BY <1>0 DEF PreflightSource
<1>2. ASSUME Seen(con, c)
      PROVE  PreflightSource(con, c) = Ok <=> SourceError(world, c, con.player) = Ok
  <2>1. /\ c \in Cells /\ con.byte = Dense(world.scenario.ids, con.player) /\ con.byte # 0
        /\ SeenWater(con, c) <=> c \in world.scenario.water
        /\ con.view[c].owner = world.state.owner[c]
        /\ con.view[c].city = world.state.city[c]
    BY <1>2, ViewShows
  <2>2. SeenWater(con, c) => con.byte \notin {world.state.owner[c], world.state.city[c]}
    <3>1. world.state \in BoardStates(world.scenario)
      BY DEF Sound
    <3>2. world.state.owner[c] # 0 \/ world.state.city[c] # 0 => c \notin world.scenario.water
      BY <2>1, <3>1, BoardIs
    <3> QED BY <2>1, <3>2
  <2>3. PreflightSource(con, c) = Ok <=> ~SeenWater(con, c) /\ Holds(con, c)
    BY <1>0, <1>2 DEF PreflightSource
  <2>4. SourceError(world, c, con.player) = Ok <=> con.byte \in {world.state.owner[c], world.state.city[c]}
    BY <1>0, <2>1 DEF SourceError
  <2> QED BY <2>1, <2>2, <2>3, <2>4 DEF Holds
<1> QED BY <1>1, <1>2

\* The order of an action has its parts.
LEMMA OrderOf ==
    ASSUME NEW con, NEW a, NEW o, o = ActionToOrder(con, a)
    PROVE  /\ o.kind = a.kind /\ o.player = con.player /\ o.cell = a.cell
           /\ o.direction = a.direction /\ o.target = a.target /\ o.percent = a.percent
BY DEF ActionToOrder

\* The engine's verdict on a pipe, in parts,
LEMMA PipeVerdict ==
    ASSUME NEW w, NEW o, o.kind \in PipeKinds, o.direction \in DOMAIN Offset
    PROVE  ValidateCommand(w, o) =
             IF o.kind = "setPipe" /\ SourceError(w, o.cell, o.player) = Ok
             THEN PipeTargetError(w, o.cell, o.direction)
             ELSE SourceError(w, o.cell, o.player)
<1>1. CASE o.kind = "setPipe"
  BY <1>1 DEF ValidateCommand
<1>2. CASE o.kind \in {"clearPipe", "setPipesExclusive"}
  BY <1>2 DEF ValidateCommand
<1> QED BY <1>1, <1>2 DEF PipeKinds

\* and on the other orders of one cell and on attacks.
LEMMA OtherVerdicts ==
    ASSUME NEW w, NEW o
    PROVE  /\ o.kind = "clearAllPipes" => ValidateCommand(w, o) = SourceError(w, o.cell, o.player)
           /\ o.kind = "setReserves" =>
                ValidateCommand(w, o) = IF o.percent \in 0 .. 9 THEN SourceError(w, o.cell, o.player)
                                        ELSE "invalid_percent"
           /\ o.kind = "paratroop" =>
                ValidateCommand(w, o) =
                  IF SourceError(w, o.cell, o.player) # Ok THEN SourceError(w, o.cell, o.player)
                  ELSE FirstError(DropError(w, o.cell, o.target), CostError(w, o.cell, 2 * ParatroopCost))
           /\ o.kind = "gun" =>
                ValidateCommand(w, o) =
                  IF SourceError(w, o.cell, o.player) # Ok THEN SourceError(w, o.cell, o.player)
                  ELSE IF o.target \notin Cells THEN "out_of_bounds"
                  ELSE CostError(w, o.cell, GunCost)
<1>1. CASE o.kind = "clearAllPipes"
  BY <1>1 DEF ValidateCommand
<1>2. CASE o.kind = "setReserves"
  BY <1>2 DEF ValidateCommand
<1>3. CASE o.kind = "paratroop"
  BY <1>3 DEF ValidateCommand
<1>4. CASE o.kind = "gun"
  BY <1>4 DEF ValidateCommand
<1> QED BY <1>1, <1>2, <1>3, <1>4

\* What the console holds back on cells that it shows, the engine refuses.
LEMMA HeldBackFalls ==
    ASSUME Sound, NEW con, Sitting(con), NEW g, g.by \in {"key", "click", "button"}
    PROVE  Falls(con, g)
<1>0. /\ "drafted" # "blocked" /\ "sent" # "blocked" /\ Ok # "invalid_percent"
      /\ Ok # "paratroop_range" /\ Ok # "out_of_bounds" /\ Ok # "water_target"
  BY DEF Ok
<1>1. PICK made : made = Gesture(con, g)
  OBVIOUS
<1>2. PICK out : out = Reduced(con, made)
  OBVIOUS
<1>3. PICK o : o = ActionToOrder(con, out.action)
  OBVIOUS
<1>4. /\ o.kind = out.action.kind /\ o.player = con.player /\ o.cell = out.action.cell
      /\ o.direction = out.action.direction /\ o.target = out.action.target
      /\ o.percent = out.action.percent
  BY <1>3, OrderOf
<1> SUFFICES ASSUME out.verdict = "blocked", Seen(con, o.cell), Seen(con, o.target),
                    o.kind \notin {"gun", "setPipesExclusive"}, ValidateCommand(world, o) = Ok
             PROVE  FALSE
  BY <1>1, <1>2, <1>3 DEF Falls
<1>5. made # Ignored
  <2>1. made = Ignored => out = Ignored
    BY <1>2 DEF Reduced, Ignored, Outcome
  <2> QED BY <2>1 DEF Ignored, Outcome
<1>6. CASE made.verdict = "blocked"
  <2>1. out = made
    BY <1>0, <1>2, <1>6 DEF Reduced
  <2>2. /\ out.action.kind \in Attacks /\ PreflightAttack(con, out.action) # Ok
    BY <1>0, <1>1, <1>5, <1>6, <2>1, GestureDrafts
  <2>3. o.kind = "paratroop"
    BY <1>4, <2>2 DEF Attacks
  <2>4. DropError(world, o.cell, o.target) = Ok
    BY <2>3, OtherVerdicts DEF FirstError
  <2>5. /\ o.target \notin world.scenario.water
        /\ ~(Chebyshev(o.cell, o.target) > SubcellRange)
    BY <1>0, <2>4, RangeAssumption DEF DropError, Land
  <2>6. ~SeenWater(con, o.target)
    BY <2>5, ViewShows
  <2> QED BY <1>4, <2>2, <2>5, <2>6 DEF PreflightAttack
<1>7. CASE made.verdict # "blocked"
  <2>1. /\ made.verdict = "drafted" /\ out = Outcome("blocked", made.action)
        /\ made.action.kind \notin Attacks /\ Preflight(con, made.action) # Ok
    BY <1>0, <1>2, <1>7 DEF Reduced, Ignored, Outcome, Attacks
  <2>2. out.action = made.action
    BY <2>1 DEF Outcome
  <2>3. \/ o.kind \in PipeKinds /\ o.direction \in DOMAIN Offset
        \/ o.kind \in {"clearAllPipes", "setReserves", "surrender"}
    BY <1>1, <1>4, <1>5, <2>1, <2>2, GestureDrafts
  <2>4. PreflightSource(con, o.cell) = Ok <=> SourceError(world, o.cell, o.player) = Ok
    BY <1>4, SourcesAgree
  <2>5. CASE o.kind = "setPipe"
    <3>1. Preflight(con, made.action) =
            FirstError(PreflightSource(con, o.cell), PreflightDestination(con, o.cell, o.direction))
      BY <1>4, <2>2, <2>5 DEF Preflight
    <3>2. /\ SourceError(world, o.cell, o.player) = Ok
          /\ PipeTargetError(world, o.cell, o.direction) = Ok
      BY <2>3, <2>5, PipeVerdict DEF PipeKinds
    <3>3. Toward(o.cell, o.direction) \in Cells /\ Toward(o.cell, o.direction) \notin world.scenario.water
      BY <1>0, <3>2 DEF PipeTargetError, Land
    <3>4. ~SeenWater(con, Toward(o.cell, o.direction))
      <4>1. SeenWater(con, Toward(o.cell, o.direction)) => Seen(con, Toward(o.cell, o.direction))
        BY DEF SeenWater
      <4> QED BY <3>3, <4>1, ViewShows
    <3>5. PreflightDestination(con, o.cell, o.direction) = Ok
      BY <3>3, <3>4 DEF PreflightDestination
    <3> QED BY <2>1, <2>4, <3>1, <3>2, <3>5 DEF FirstError
  <2>6. CASE o.kind = "clearPipe"
    <3>1. Preflight(con, made.action) = PreflightSource(con, o.cell)
      BY <1>4, <2>2, <2>6 DEF Preflight
    <3>2. SourceError(world, o.cell, o.player) = Ok
      BY <2>3, <2>6, PipeVerdict DEF PipeKinds
    <3> QED BY <2>1, <2>4, <3>1, <3>2
  <2>7. CASE o.kind = "clearAllPipes"
    <3>1. Preflight(con, made.action) = PreflightSource(con, o.cell)
      BY <1>4, <2>2, <2>7 DEF Preflight
    <3>2. SourceError(world, o.cell, o.player) = Ok
      BY <2>7, OtherVerdicts
    <3> QED BY <2>1, <2>4, <3>1, <3>2
  <2>8. CASE o.kind = "setReserves"
    <3>1. Preflight(con, made.action) =
            IF o.percent \in 0 .. 9 THEN PreflightSource(con, o.cell) ELSE "invalid_percent"
      BY <1>4, <2>2, <2>8 DEF Preflight
    <3>2. o.percent \in 0 .. 9 /\ SourceError(world, o.cell, o.player) = Ok
      <4>1. ValidateCommand(world, o) = IF o.percent \in 0 .. 9 THEN SourceError(world, o.cell, o.player)
                                        ELSE "invalid_percent"
        BY <2>8, OtherVerdicts
      <4> QED BY <1>0, <4>1
    <3> QED BY <2>1, <2>4, <3>1, <3>2
  <2>9. CASE o.kind = "surrender"
    BY <1>4, <2>1, <2>2, <2>9 DEF Preflight
  <2> QED BY <2>3, <2>5, <2>6, <2>7, <2>8, <2>9 DEF PipeKinds
<1> QED BY <1>6, <1>7

\* What the console sends passes the gate and stands before the engine, but for
\* what the console does not check: the troops of an attack, a second surrender,
\* and water that it does not show.
LEMMA SentStands ==
    ASSUME Sound, NEW con, Sitting(con), NEW g, g.by \in {"key", "click", "button"},
           NEW out, out = Reduced(con, Gesture(con, g)), out.verdict = "sent",
           NEW o, o = ActionToOrder(con, out.action)
    PROVE  /\ PassesGate(con.player, o)
           /\ \/ ValidateCommand(world, o) = Ok
              \/ o.kind = "surrender" /\ ValidateCommand(world, o) = "already_surrendered"
              \/ /\ o.kind \in {"paratroop", "gun"}
                 /\ ValidateCommand(world, o) \in {"not_owner", "no_source_troops"}
              \/ /\ o.kind = "setPipe" /\ ~Seen(con, Toward(o.cell, o.direction))
                 /\ SourceError(world, o.cell, o.player) = Ok
                 /\ Seen(con, o.cell) /\ o.direction \in DOMAIN Offset
                 /\ Toward(o.cell, o.direction) \in world.scenario.water
<1>0. /\ "drafted" # "blocked" /\ "sent" # "blocked" /\ Ok # "invalid_percent"
      /\ Ok # "paratroop_range" /\ Ok # "out_of_bounds" /\ Ok # "water_target"
  BY DEF Ok
<1>1. PICK made : made = Gesture(con, g)
  OBVIOUS
<1>2. /\ made.verdict = "drafted" /\ out = Outcome("sent", made.action)
      /\ made.action.kind \notin Attacks => Preflight(con, made.action) = Ok
  <2>1. made.verdict # "sent"
    BY <1>1, GestureDrafts DEF Ignored, Outcome
  <2> QED BY <1>0, <1>1, <2>1 DEF Reduced, Ignored, Outcome, Attacks
<1>3. /\ o.kind = made.action.kind /\ o.player = con.player /\ o.cell = made.action.cell
      /\ o.direction = made.action.direction /\ o.target = made.action.target
      /\ o.percent = made.action.percent
  BY <1>2, OrderOf DEF Outcome
<1>4. \/ o.kind \in PipeKinds /\ o.direction \in DOMAIN Offset
      \/ o.kind \in {"clearAllPipes", "setReserves", "surrender"}
      \/ /\ o.kind \in Attacks /\ o.cell = con.selection /\ con.selection # NoCell
         /\ PreflightAttack(con, made.action) = Ok
  <2>1. made # Ignored
    BY <1>2 DEF Ignored, Outcome
  <2> QED BY <1>1, <1>2, <1>3, <2>1, GestureDrafts
<1>5. PassesGate(con.player, o)
  <2>1. o.kind \in DOMAIN KindRank \cup {"surrender"}
    BY <1>4 DEF KindRank, PipeKinds, Attacks
  <2>2. o.kind \in {"setPipe", "clearPipe", "setPipesExclusive"} => o.direction \in DOMAIN Offset
    BY <1>4 DEF Attacks
  <2> QED BY <1>3, <2>1, <2>2 DEF PassesGate, WellShaped
<1>6. PreflightSource(con, o.cell) = Ok =>
         Seen(con, o.cell) /\ SourceError(world, o.cell, o.player) = Ok
  BY <1>3, SourcesAgree
<1>7. CASE o.kind \in {"setPipe", "setPipesExclusive"}
  <2>1. o.direction \in DOMAIN Offset /\ made.action.kind \notin Attacks
    BY <1>3, <1>4, <1>7 DEF Attacks
  <2>2. FirstError(PreflightSource(con, o.cell), PreflightDestination(con, o.cell, o.direction)) = Ok
    BY <1>2, <1>3, <1>7, <2>1 DEF Preflight
  <2>3. /\ PreflightSource(con, o.cell) = Ok
        /\ PreflightDestination(con, o.cell, o.direction) = Ok
    BY <2>2 DEF FirstError
  <2>4. /\ Toward(o.cell, o.direction) \in Cells
        /\ ~SeenWater(con, Toward(o.cell, o.direction))
    BY <1>0, <2>3 DEF PreflightDestination
  <2>5. CASE o.kind = "setPipesExclusive"
    BY <1>5, <1>6, <2>1, <2>3, <2>5, PipeVerdict DEF PipeKinds
  <2>6. CASE o.kind = "setPipe"
    <3>1. ValidateCommand(world, o) = PipeTargetError(world, o.cell, o.direction)
      BY <1>6, <2>1, <2>3, <2>6, PipeVerdict DEF PipeKinds
    <3>2. CASE Toward(o.cell, o.direction) \in world.scenario.water
      <4>1. ~Seen(con, Toward(o.cell, o.direction))
        BY <2>4, <3>2, ViewShows
      <4> QED BY <1>5, <1>6, <2>1, <2>3, <2>6, <3>2, <4>1
    <3>3. CASE Toward(o.cell, o.direction) \notin world.scenario.water
      <4>1. PipeTargetError(world, o.cell, o.direction) = Ok
        BY <2>4, <3>3 DEF PipeTargetError, Land
      <4> QED BY <1>5, <3>1, <4>1
    <3> QED BY <3>2, <3>3
  <2> QED BY <1>7, <2>5, <2>6
<1>8. CASE o.kind = "clearPipe"
  <2>1. PreflightSource(con, o.cell) = Ok
    BY <1>2, <1>3, <1>8 DEF Preflight, Attacks
  <2>2. o.direction \in DOMAIN Offset
    BY <1>4, <1>8 DEF Attacks
  <2> QED BY <1>5, <1>6, <1>8, <2>1, <2>2, PipeVerdict DEF PipeKinds
<1>9. CASE o.kind = "clearAllPipes"
  <2>1. PreflightSource(con, o.cell) = Ok
    BY <1>2, <1>3, <1>9 DEF Preflight, Attacks
  <2> QED BY <1>5, <1>6, <1>9, <2>1, OtherVerdicts
<1>10. CASE o.kind = "setReserves"
  <2>1. o.percent \in 0 .. 9 /\ PreflightSource(con, o.cell) = Ok
    BY <1>0, <1>2, <1>3, <1>10 DEF Preflight, Attacks
  <2> QED BY <1>5, <1>6, <1>10, <2>1, OtherVerdicts
<1>11. CASE o.kind = "surrender"
  <2>1. Dense(world.scenario.ids, o.player) # 0
    BY <1>3, ViewShows
  <2>2. ValidateCommand(world, o) \in {"already_surrendered", Ok}
    BY <1>11, <2>1 DEF ValidateCommand
  <2> QED BY <1>5, <1>11, <2>2
<1>12. CASE o.kind \in Attacks
  <2>1. /\ o.cell \in Cells /\ PreflightAttack(con, made.action) = Ok
    BY <1>4, <1>12 DEF Sitting, Attacks, PipeKinds
  <2>2. /\ ~(Chebyshev(o.cell, o.target) > ParatroopRange)
        /\ Seen(con, o.target) /\ ~SeenWater(con, o.target)
    BY <1>0, <1>3, <2>1, RangeAssumption DEF PreflightAttack
  <2>3. o.target \in Cells /\ o.target \in Land(world)
    BY <2>2, ViewShows DEF Land
  <2>4. DropError(world, o.cell, o.target) = Ok
    BY <2>2, <2>3 DEF DropError
  <2>5. SourceError(world, o.cell, o.player) \in {Ok, "not_owner"}
    <3>1. Dense(world.scenario.ids, o.player) # 0
      BY <1>3, ViewShows
    <3> QED BY <2>1, <3>1 DEF SourceError
  <2>6. \A cost : CostError(world, o.cell, cost) \in {Ok, "no_source_troops"}
    BY DEF CostError
  <2>7. CASE o.kind = "paratroop"
    <3>1. ValidateCommand(world, o) =
            IF SourceError(world, o.cell, o.player) # Ok THEN SourceError(world, o.cell, o.player)
            ELSE CostError(world, o.cell, 2 * ParatroopCost)
      BY <2>4, <2>7, OtherVerdicts DEF FirstError
    <3> QED BY <1>5, <2>5, <2>6, <2>7, <3>1
  <2>8. CASE o.kind = "gun"
    <3>1. ValidateCommand(world, o) =
            IF SourceError(world, o.cell, o.player) # Ok THEN SourceError(world, o.cell, o.player)
            ELSE CostError(world, o.cell, GunCost)
      BY <2>3, <2>8, OtherVerdicts
    <3> QED BY <1>5, <2>5, <2>6, <2>8, <3>1
  <2> QED BY <1>12, <2>7, <2>8 DEF Attacks
<1> QED BY <1>4, <1>7, <1>8, <1>9, <1>10, <1>11, <1>12 DEF PipeKinds

\* A key selects a cell of the board.
LEMMA SelectionsOnBoard == ASSUME Sound PROVE Selections \subseteq Cells
<1>1. /\ world.scenario.cities \in [DOMAIN world.scenario.ids -> SUBSET (Cells \ world.scenario.water)]
  BY MenuAssumption DEF Sound, Scenarios
<1>2. UNION ToSet(world.scenario.cities) \subseteq Cells
  BY <1>1 DEF ToSet
<1>3. ASSUME NEW d \in DOMAIN Offset, NEW c \in {NoCell} \cup Cells PROVE MoveFocus(c, d) \in Cells
  <2>1. <<Width \div 2, Width \div 2>> \in Cells
    <3>1. Width \div 2 \in 0 .. Width - 1
      BY RulesAssumption
    <3> QED BY <3>1 DEF Cells
  <2> QED BY <2>1 DEF MoveFocus
<1>4. \A key \in DOMAIN ArrowKeys : ArrowKeys[key] \in DOMAIN Offset
  BY DEF ArrowKeys, Offset
<1> QED BY <1>2, <1>3, <1>4 DEF Selections

\* Every input is a gesture at the console of a player.
LEMMA InputsFit ==
    ASSUME Sound
    PROVE  \A id \in ToSet(world.scenario.ids), i \in Inputs :
             Sitting(Console(Seat(id), i)) /\ i.gesture.by \in {"key", "click", "button"}
<1>1. Selections \subseteq Cells
  BY SelectionsOnBoard
<1>2. \A i \in Inputs : /\ i.selection \in Cells \cup {NoCell}
                        /\ i.gesture.by \in {"key", "click", "button"}
  BY <1>1 DEF Inputs, Input, By
<1> QED BY <1>2 DEF Sitting, Console, Seat

\* The water beside a cell that a player holds and is shown is shown to him too.
\* It is not where an empty city of his lies at the edge of his sight.
BanksInSight ==
    \A id \in ToSet(world.scenario.ids) :
        \A c \in DOMAIN ViewOf(id).cells, d \in DOMAIN Offset :
            (/\ Dense(world.scenario.ids, id) \in {world.state.owner[c], world.state.city[c]}
             /\ Toward(c, d) \in world.scenario.water) => Toward(c, d) \in DOMAIN ViewOf(id).cells

\* No gesture yields an order that the gate or the engine refuses, but for what
\* the console leaves to the server, on every board and in every match, as long
\* as no shore of the player's is out of sight (local-preflight.ts; the pipe
\* into water that the console does not show is the one order it misjudges).
THEOREM SentStand == Spec => [](BanksInSight => SentOrdersStand)
<1>1. ASSUME Sound, BanksInSight PROVE SentOrdersStand
  <2>1. ASSUME NEW con, NEW g, Sitting(con), g.by \in {"key", "click", "button"}
        PROVE  Stands(con, g)
    <3>1. PICK out : out = Reduced(con, Gesture(con, g))
      OBVIOUS
    <3>2. PICK o : o = ActionToOrder(con, out.action)
      OBVIOUS
    <3> SUFFICES ASSUME out.verdict = "sent"
                 PROVE  /\ PassesGate(con.player, o)
                        /\ \/ ValidateCommand(world, o) = Ok
                           \/ o.kind = "surrender" /\ ValidateCommand(world, o) = "already_surrendered"
                           \/ /\ o.kind \in {"paratroop", "gun"}
                              /\ ValidateCommand(world, o) \in {"not_owner", "no_source_troops"}
      BY <3>1, <3>2 DEF Stands
    <3>3. o.player = con.player
      BY <3>2, OrderOf
    <3>4. ~(/\ ~Seen(con, Toward(o.cell, o.direction))
            /\ SourceError(world, o.cell, o.player) = Ok
            /\ Seen(con, o.cell) /\ o.direction \in DOMAIN Offset
            /\ Toward(o.cell, o.direction) \in world.scenario.water)
      <4> SUFFICES ASSUME SourceError(world, o.cell, o.player) = Ok,
                          Seen(con, o.cell), o.direction \in DOMAIN Offset,
                          Toward(o.cell, o.direction) \in world.scenario.water
                   PROVE  Seen(con, Toward(o.cell, o.direction))
        OBVIOUS
      <4>1. Dense(world.scenario.ids, con.player) \in {world.state.owner[o.cell], world.state.city[o.cell]}
        BY <3>3 DEF SourceError, Ok
      <4>2. con.player \in ToSet(world.scenario.ids) /\ con.view = ViewOf(con.player).cells
        BY <2>1 DEF Sitting
      <4> QED BY <1>1, <4>1, <4>2 DEF BanksInSight, Seen
    <3> QED BY <1>1, <2>1, <3>1, <3>2, <3>4, SentStands
  <2>2. \A id \in ToSet(world.scenario.ids), i \in Inputs :
           Sitting(Console(Seat(id), i)) /\ i.gesture.by \in {"key", "click", "button"}
    BY <1>1, InputsFit
  <2> QED BY <2>1, <2>2 DEF SentOrdersStand
<1> QED BY <1>1, SoundKept, PTL

\* No order is withheld that the engine would take, but for cells out of sight,
\* a shot into water, and an exclusive pipe into water or off the board, on every
\* board and in every match (local-preflight.ts against validate.ts).
THEOREM BlockedFall == Spec => []BlockedOrdersFall
<1>1. ASSUME Sound PROVE BlockedOrdersFall
  <2>1. ASSUME NEW con, NEW g, Sitting(con), g.by \in {"key", "click", "button"}
        PROVE  Falls(con, g)
    BY <1>1, <2>1, HeldBackFalls
  <2>2. \A id \in ToSet(world.scenario.ids), i \in Inputs :
           Sitting(Console(Seat(id), i)) /\ i.gesture.by \in {"key", "click", "button"}
    BY <1>1, InputsFit
  <2> QED BY <2>1, <2>2 DEF BlockedOrdersFall
<1> QED BY <1>1, SoundKept, PTL

=============================================================================
