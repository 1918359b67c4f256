------------------------------- MODULE Engine -------------------------------
(***************************************************************************)
(* The rules of the game (packages/engine): staging and validating orders, *)
(* and the tick that drains them, in the order of the code: staged orders, *)
(* production, paratroops, guns, flow, combat, capture, decay, and the     *)
(* elimination of players.                                                 *)
(*                                                                         *)
(* A cell is a coordinate <<x, y>>, player ids are numbers that stand in   *)
(* their UTF-16 order, and an owner byte is 0 or the 1-based rank of an id *)
(* among those of the match.  Sets of directions stand for pipe masks.     *)
(***************************************************************************)
EXTENDS Integers, Sequences, FiniteSets, SequencesExt

CONSTANTS
    Width,          \* the board is square
    Menu,           \* the commands that may arrive, for each scenario to play
    MaxTick,        \* bound of the model: ticks of a match
    MaxStaged,      \* bound of the model: commands between two ticks
    MaxOrders,      \* bound of the model: commands of a match
    ProductionRate, CityCapacity, CellCapacity, DecayPerTick,
    FlowRate, FlowDownhillStep, FlowUphillStep, FlowSlopeDeltaCap,
    ParatroopCost, GunCost, GunDamage,
    ParatroopRange  \* PARATROOP_MAX_RANGE

ASSUME RulesAssumption ==
    /\ Width \in Nat \ {0} /\ MaxTick \in Nat /\ MaxStaged \in Nat /\ MaxOrders \in Nat
    /\ CellCapacity \in Nat /\ CityCapacity \in 0..CellCapacity
    /\ ProductionRate \in Nat /\ DecayPerTick \in {0, 1}
    /\ FlowRate \in Nat /\ FlowDownhillStep \in Nat
    /\ FlowUphillStep \in Nat /\ FlowSlopeDeltaCap \in Nat
    /\ ParatroopCost \in Nat \ {0} /\ GunCost \in Nat \ {0} /\ GunDamage \in Nat
    /\ ParatroopRange \in Nat

Cells == (0 .. Width - 1) \X (0 .. Width - 1)

\* createWorld refuses any other match: two to four players who are told apart,
\* heights are bytes, and every city has one owner and lies on land.
\* Only the orders of pipes have a direction.
ASSUME MenuAssumption ==
    \A s \in DOMAIN Menu :
        /\ s = [ids |-> s.ids, elevation |-> s.elevation, water |-> s.water, cities |-> s.cities]
        /\ s.ids \in Seq(Int) /\ Len(s.ids) \in 2 .. 4 /\ IsInjective(s.ids)
        /\ s.water \subseteq Cells
        /\ \A j, k \in DOMAIN s.ids : j # k => s.cities[j] \cap s.cities[k] = {}
        /\ s.elevation \in [Cells -> 0 .. 255]
        /\ s.cities \in [DOMAIN s.ids -> SUBSET (Cells \ s.water)]
        /\ \A o \in Menu[s] :
              o.kind \in {"setPipe", "clearPipe", "setPipesExclusive"} \/ o.direction = "none"

\* A scenario is a match to play: [ids, elevation, water, cities].
Scenarios == DOMAIN Menu

VARIABLES
    world,      \* the World: scenario, tick, players, state
    pending,    \* the orders staged on it
    events,     \* what the last tick reported
    log         \* every command of the match with its tick, as a fixture keeps it

vars == <<world, pending, events, log>>

----------------------------------------------------------------------------
(* Board and players *)

RowMajor == [k \in 1 .. Width * Width |-> <<(k - 1) % Width, (k - 1) \div Width>>]

Compass == <<"N", "E", "S", "W">>

Offset == [N |-> <<0, -1>>, E |-> <<1, 0>>, S |-> <<0, 1>>, W |-> <<-1, 0>>]

Opposite == [N |-> "S", E |-> "W", S |-> "N", W |-> "E"]

Toward(c, d) == <<c[1] + Offset[d][1], c[2] + Offset[d][2]>>

Abs(n) == IF n < 0 THEN -n ELSE n

Least(a, b) == IF a < b THEN a ELSE b

Chebyshev(a, b) == -Least(-Abs(a[1] - b[1]), -Abs(a[2] - b[2]))

\* The entries of a sequence that are in a set, in their order.
Among(s, set) ==
    LET at == {i \in DOMAIN s : s[i] \in set}
        place(i) == 1 + Cardinality({j \in at : j < i})
    IN  [k \in 1 .. Cardinality(at) |-> s[CHOOSE i \in at : place(i) = k]]

Land(w) == Cells \ w.scenario.water

\* indexOfId + 1: the rank of an id in canonical order; 0 stands for null.
Dense(ids, id) ==
    IF id \in ToSet(ids) THEN Cardinality({i \in ToSet(ids) : i <= id}) ELSE 0

Bytes(w) == 1 .. Len(w.scenario.ids)

Held(state, p) ==
    MapThenSumSet(LAMBDA c : state.count[c], {c \in Cells : state.owner[c] = p})

CityCount(state, p) == Cardinality({c \in Cells : state.city[c] = p})

\* The cities of a scenario name the placement slot of their owner.
CreateWorld(s) ==
    LET owner(c) == IF \E k \in DOMAIN s.ids : c \in s.cities[k]
                    THEN Dense(s.ids, s.ids[CHOOSE k \in DOMAIN s.ids : c \in s.cities[k]])
                    ELSE 0
        state == [count    |-> [c \in Cells |-> 0],
                  owner    |-> [c \in Cells |-> 0],
                  pipes    |-> [c \in Cells |-> {}],
                  reserves |-> [c \in Cells |-> 0],
                  city     |-> [c \in Cells |-> owner(c)]]
    IN  [scenario |-> s, tick |-> 0, state |-> state,
         players |-> [p \in DOMAIN s.ids |->
                        [status |-> "alive", cities |-> CityCount(state, p), troops |-> 0]]]

Alive(w) == {p \in Bytes(w) : w.players[p].status = "alive"}

\* isTerminal: fewer than two players are alive.
IsTerminal(w) == Cardinality(Alive(w)) < 2

Quiet == [combat |-> <<>>, captures |-> <<>>, eliminations |-> <<>>,
          applied |-> <<>>, errors |-> <<>>]

----------------------------------------------------------------------------
(* Commands *)

\* Math.ceil(count * pct / 10), which is also count - floor(count * (10 - pct) / 10).
CeilTenth(count, pct) == (count * pct + 9) \div 10

ReservesFloor(count, pct) == IF pct >= 10 THEN count ELSE CeilTenth(count, pct)

AboveFloor(state, count, c) == count - ReservesFloor(count, state.reserves[c])

Ok == "ok"

SourceError(w, c, player) ==
    IF c \notin Cells THEN "out_of_bounds"
    ELSE IF Dense(w.scenario.ids, player) = 0 THEN "unknown_player"
    ELSE IF Dense(w.scenario.ids, player) \in {w.state.owner[c], w.state.city[c]} THEN Ok
    ELSE "not_owner"

PipeTargetError(w, c, d) ==
    IF Toward(c, d) \notin Cells THEN "out_of_bounds"
    ELSE IF Toward(c, d) \notin Land(w) THEN "water_target"
    ELSE Ok

DropError(w, source, target) ==
    IF target \notin Cells THEN "out_of_bounds"
    ELSE IF target \notin Land(w) THEN "water_target"
    ELSE IF Chebyshev(source, target) > ParatroopRange THEN "paratroop_range"
    ELSE Ok

FirstError(a, b) == IF a = Ok THEN b ELSE a

CostError(w, c, cost) ==
    IF AboveFloor(w.state, w.state.count[c], c) < cost THEN "no_source_troops" ELSE Ok

\* validateCommand: against the world as it is, before any tick.
ValidateCommand(w, o) ==
    LET own == SourceError(w, o.cell, o.player) IN
    CASE o.kind \in {"setPipe", "clearPipe", "setPipesExclusive"} /\ o.direction \notin DOMAIN Offset ->
            "invalid_direction"
      [] o.kind = "setPipe" /\ o.direction \in DOMAIN Offset ->
            IF own = Ok THEN PipeTargetError(w, o.cell, o.direction) ELSE own
      [] \/ o.kind = "clearAllPipes"
         \/ o.kind \in {"clearPipe", "setPipesExclusive"} /\ o.direction \in DOMAIN Offset -> own
      [] o.kind = "setReserves" ->
            IF o.percent \in 0..9 THEN own ELSE "invalid_percent"
      [] o.kind = "paratroop" ->
            IF own # Ok THEN own
            ELSE FirstError(DropError(w, o.cell, o.target), CostError(w, o.cell, 2 * ParatroopCost))
      [] o.kind = "gun" ->
            IF own # Ok THEN own
            ELSE IF o.target \notin Cells THEN "out_of_bounds"
            ELSE CostError(w, o.cell, GunCost)
      [] o.kind = "surrender" ->
            LET p == Dense(w.scenario.ids, o.player) IN
            IF p = 0 THEN "unknown_player"
            ELSE IF w.players[p].status \in {"eliminated", "surrendered"} THEN "already_surrendered"
            ELSE Ok
      [] OTHER -> "unknown_order"

\* applyCommand: surrender counts at once, everything else waits for the tick.
ApplyCommand(w, staged, o) ==
    IF ValidateCommand(w, o) # Ok THEN [world |-> w, pending |-> staged]
    ELSE IF o.kind = "surrender"
    THEN [world |-> [w EXCEPT !.players[Dense(w.scenario.ids, o.player)].status = "eliminated"],
          pending |-> staged]
    ELSE [world |-> w, pending |-> Append(staged, o)]

----------------------------------------------------------------------------
(* Staged orders *)

KindRank == [clearAllPipes |-> 1, clearPipe |-> 2, gun |-> 3, paratroop |-> 4,
             setPipe |-> 5, setPipesExclusive |-> 6, setReserves |-> 7]

DirectionRank == [E |-> 1, N |-> 2, S |-> 3, W |-> 4, none |-> 0]

\* The kind of the order alone: the orders of a kind stay as they arrived.
SortKeyByKind(o) == <<KindRank[o.kind]>>

SortKey(o) == <<o.player, KindRank[o.kind], o.cell[1], o.cell[2], DirectionRank[o.direction]>>

Below(a, b) == \E i \in DOMAIN a : a[i] < b[i] /\ \A j \in 1 .. i - 1 : a[j] = b[j]

\* sortOrdersDeterministic: a stable sort of the staged orders.
SortedOrders(staged) ==
    LET before(i, j) == \/ Below(SortKey(staged[i]), SortKey(staged[j]))
                        \/ ~Below(SortKey(staged[j]), SortKey(staged[i])) /\ i < j
        place(i) == 1 + Cardinality({j \in DOMAIN staged : before(j, i)})
    IN  [k \in DOMAIN staged |-> staged[CHOOSE i \in DOMAIN staged : place(i) = k]]

\* dispatchOrderEffect: paratroops and guns wait for their own phases.
OrderEffect(state, o) ==
    CASE o.kind = "setPipe"           -> [state EXCEPT !.pipes[o.cell] = @ \cup {o.direction}]
      [] o.kind = "clearPipe"         -> [state EXCEPT !.pipes[o.cell] = @ \ {o.direction}]
      [] o.kind = "setPipesExclusive" -> [state EXCEPT !.pipes[o.cell] = {o.direction}]
      [] o.kind = "clearAllPipes"     -> [state EXCEPT !.pipes[o.cell] = {}]
      [] o.kind = "setReserves"       -> [state EXCEPT !.reserves[o.cell] = o.percent]
      [] OTHER                        -> state

----------------------------------------------------------------------------
(* Production, paratroops and guns *)

\* resolveProduction: every city feeds its own cell up to the city capacity.
Production(state) ==
    LET grows(c) == state.city[c] # 0 /\ state.count[c] < CityCapacity
        add(c) == Least(ProductionRate, CityCapacity - state.count[c])
    IN  [state EXCEPT
            !.count = [c \in Cells |-> IF grows(c) THEN @[c] + add(c) ELSE @[c]],
            !.owner = [c \in Cells |-> IF grows(c) THEN state.city[c] ELSE @[c]]]

\* resolveTwoWayAttrition: one for one; the larger side keeps the difference.
Attrition(a, forceA, b, forceB) ==
    [owner |-> IF forceA > forceB THEN a ELSE IF forceB > forceA THEN b ELSE 0,
     count |-> Least(Abs(forceA - forceB), CellCapacity)]

\* Spending that leaves the troops where they are.
SpendNothing(state, c, cost) == state

Spend(state, c, cost) ==
    [state EXCEPT !.count[c] = @ - cost,
                  !.owner[c] = IF state.count[c] = cost THEN 0 ELSE @]

\* Why a deferred order fails in its phase: the troops that back it may be gone.
SpendError(w, state, o, cost) ==
    LET p == Dense(w.scenario.ids, o.player) IN
    IF p = 0 THEN "unknown_player"
    ELSE IF state.owner[o.cell] # p THEN "not_owner"
    ELSE IF AboveFloor(state, state.count[o.cell], o.cell) < cost THEN "no_source_troops"
    ELSE Ok

\* A landing that forgets the capacity of the cell and who stands there.
LandedOverfull(state, p, target) ==
    [state EXCEPT !.count[target] = @ + ParatroopCost, !.owner[target] = p]

\* A paratroop that lands in full: on troops of its own, on nobody's, or on an enemy.
Landed(state, p, target) ==
    LET enemy == state.owner[target] \notin {0, p}
        fight == Attrition(p, ParatroopCost, state.owner[target], state.count[target])
        after == IF enemy THEN fight
                 ELSE [owner |-> p, count |-> Least(state.count[target] + ParatroopCost, CellCapacity)]
    IN  [state EXCEPT !.count[target] = after.count, !.owner[target] = after.owner,
                      !.pipes[target] = {}]

CombatEvent(c, a, b, winner) ==
    [cell |-> c, attacker |-> a, defender |-> b, winner |-> winner]

\* resolveParatroop for the i-th order.  acc: the state so far, fights and errors,
\* and which orders took effect.
Paratroop(w, orders, acc, i) ==
    LET o == orders[i]
        p == Dense(w.scenario.ids, o.player)
        spent == Spend(acc.state, o.cell, 2 * ParatroopCost)
        foe == spent.owner[o.target]
        error == FirstError(DropError(w, o.cell, o.target),
                            SpendError(w, acc.state, o, 2 * ParatroopCost))
    IN  IF error # Ok THEN [acc EXCEPT !.errors = Append(@, [order |-> o, reason |-> error])]
        ELSE [acc EXCEPT
                !.state = Landed(spent, p, o.target),
                !.done = @ \cup {i},
                !.combat = IF foe \in {0, p} THEN @
                           ELSE Append(@, CombatEvent(o.target, p, foe,
                                           Landed(spent, p, o.target).owner[o.target]))]

\* resolveGun for the i-th order: friendly fire included, nothing moves.
Gun(w, orders, acc, i) ==
    LET o == orders[i]
        spent == Spend(acc.state, o.cell, GunCost)
        left == spent.count[o.target] - Least(GunDamage, spent.count[o.target])
        hit == [spent EXCEPT !.count[o.target] = left,
                             !.owner[o.target] = IF left = 0 /\ spent.count[o.target] > 0 THEN 0 ELSE @]
        error == SpendError(w, acc.state, o, GunCost)
    IN  IF error # Ok THEN [acc EXCEPT !.errors = Append(@, [order |-> o, reason |-> error])]
        ELSE [acc EXCEPT !.state = hit, !.done = @ \cup {i}]

Places(orders) == [i \in DOMAIN orders |-> i]

OfKind(orders, kind) ==
    Among(Places(orders), {i \in DOMAIN orders : orders[i].kind = kind})

\* The orders that a tick reports as applied: the deferred ones if they took effect.
Applied(orders, done) ==
    LET took == {i \in DOMAIN orders : orders[i].kind \notin {"paratroop", "gun"} \/ i \in done}
        at == Among(Places(orders), took)
    IN  [k \in DOMAIN at |-> orders[at[k]]]

----------------------------------------------------------------------------
(* Flow and combat *)

FlowRateForDelta(delta, perPipe) ==
    IF delta < 0 THEN perPipe + FlowDownhillStep * Least(-delta, FlowSlopeDeltaCap)
    ELSE IF perPipe > FlowUphillStep * delta THEN perPipe - FlowUphillStep * delta
    ELSE 0

PipesOf(state, c) == Among(Compass, state.pipes[c])

\* The transfers of a tick, cell by cell and clockwise, with their position.
Transfers(state) ==
    FlattenSeq([k \in DOMAIN RowMajor |->
        LET c == RowMajor[k] IN
        IF state.count[c] = 0 \/ state.owner[c] = 0 THEN <<>>
        ELSE [i \in DOMAIN PipesOf(state, c) |-> <<c, i>>]])

\* transfer: `at' holds the counts and owners that the earlier transfers left.  What
\* a full cell has no room for stays, and still counts as a force that was sent.
Transfer(w, state, at, t) ==
    LET src == t[1]
        pipes == PipesOf(state, src)
        dst == Toward(src, pipes[t[2]])
        has == at.count[src]
        spare == has - CeilTenth(has, state.reserves[src])
        available == -Least(0, CeilTenth(state.count[src], state.reserves[src]) - has)
        base == Least(FlowRate \div Len(pipes), available \div (Len(pipes) - t[2] + 1))
        moved == FlowRateForDelta(w.scenario.elevation[dst] - w.scenario.elevation[src], base)
        committed == Least(moved, spare)
        arrives == Least(committed, CellCapacity - at.count[dst])
        sent == [at.committed EXCEPT ![dst][state.owner[src]] = @ + committed]
    IN  IF dst \notin Cells \/ dst \notin Land(w) \/ spare = 0 \/ moved = 0 THEN at
        ELSE [count     |-> [at.count EXCEPT ![dst] = @ + arrives, ![src] = @ - arrives],
              owner     |-> [at.owner EXCEPT ![dst] = IF arrives = 0 THEN @ ELSE state.owner[src]],
              committed |-> sent]

Flow(w, state) ==
    FoldLeft(LAMBDA at, t : Transfer(w, state, at, t),
             [count |-> state.count, owner |-> state.owner,
              committed |-> [c \in Cells |-> [p \in Bytes(w) |-> 0]]],
             Transfers(state))

\* Total forces at a cell: what was sent there, and the garrison from before the flow.
ForceOf(state, flow, c, p) ==
    flow.committed[c][p] + (IF state.owner[c] = p THEN state.count[c] ELSE 0)

Sides(w, state, flow, c) ==
    {p \in Bytes(w) : flow.committed[c][p] > 0 \/ state.owner[c] = p}

\* Of three sides or more the strongest keeps all it has, the lowest byte of equals.
Dominant(w, state, flow, c) ==
    CHOOSE p \in Sides(w, state, flow, c) :
        \A q \in Sides(w, state, flow, c) \ {p} :
            \/ ForceOf(state, flow, c, p) > ForceOf(state, flow, c, q)
            \/ ForceOf(state, flow, c, p) = ForceOf(state, flow, c, q) /\ p < q

Fight(w, state, flow, c) ==
    LET sides == Sides(w, state, flow, c)
        a == Min(sides)
        b == Max(sides)
        d == Dominant(w, state, flow, c)
    IN  IF Cardinality(sides) = 2
        THEN Attrition(a, ForceOf(state, flow, c, a), b, ForceOf(state, flow, c, b))
        ELSE [owner |-> d, count |-> Least(ForceOf(state, flow, c, d), CellCapacity)]

Contested(w, state, flow) == {c \in Cells : Cardinality(Sides(w, state, flow, c)) >= 2}

\* resolveCombat: `state' is the state before the flow.
Combat(w, state, flow) ==
    LET settle(at, c) ==
            LET fight == Fight(w, state, flow, c)
            IN  [count |-> [at.count EXCEPT ![c] = fight.count],
                 owner |-> [at.owner EXCEPT ![c] = fight.owner]]
        after == FoldLeft(settle, [count |-> flow.count, owner |-> flow.owner],
                          Among(RowMajor, Contested(w, state, flow)))
    IN  [count |-> after.count, owner |-> after.owner, pipes |-> state.pipes,
         reserves |-> state.reserves, city |-> state.city]

CombatEvents(w, state, flow) ==
    LET loser(c) == Among([p \in Bytes(w) |-> p],
                          Sides(w, state, flow, c) \ {Dominant(w, state, flow, c)})
        of(c) == IF Cardinality(Sides(w, state, flow, c)) = 2
                 THEN <<CombatEvent(c, Min(Sides(w, state, flow, c)), Max(Sides(w, state, flow, c)),
                                    Fight(w, state, flow, c).owner)>>
                 ELSE [i \in DOMAIN loser(c) |->
                        CombatEvent(c, Dominant(w, state, flow, c), loser(c)[i],
                                    Dominant(w, state, flow, c))]
    IN  FlattenSeq([k \in DOMAIN RowMajor |->
            IF RowMajor[k] \in Contested(w, state, flow) THEN of(RowMajor[k]) ELSE <<>>])

----------------------------------------------------------------------------
(* Capture, decay and the end *)

\* Only a garrison that fills the city takes it.
CapturedWhenFull(state) ==
    {c \in Cells : /\ state.city[c] # 0 /\ state.owner[c] \notin {0, state.city[c]}
                   /\ state.count[c] >= CityCapacity}

Captured(state) == {c \in Cells : state.city[c] # 0 /\ state.owner[c] \notin {0, state.city[c]}}

\* resolveCapture: whoever stands in a city after the fighting has it.
Capture(state) ==
    [state EXCEPT !.city = [c \in Cells |-> IF c \in Captured(state) THEN state.owner[c] ELSE @[c]]]

CaptureEvents(state) ==
    FlattenSeq([k \in DOMAIN RowMajor |->
        LET c == RowMajor[k] IN
        IF c \in Captured(state) THEN <<[cell |-> c, from |-> state.city[c], to |-> state.owner[c]]>>
        ELSE <<>>])

\* A pipe of the same owner points at the cell, whether or not anything flows.
Fed(state, c) ==
    \E d \in ToSet(Compass) :
        /\ Toward(c, d) \in Cells
        /\ state.owner[Toward(c, d)] = state.owner[c]
        /\ Opposite[d] \in state.pipes[Toward(c, d)]

\* resolveDecay, with the floors that tick() takes from the state after the capture.
Decay(state) ==
    LET floor(c) == CeilTenth(state.count[c], state.reserves[c])
        decays(c) == /\ state.count[c] > 0 /\ state.owner[c] # 0 /\ state.city[c] = 0
                     /\ ~Fed(state, c) /\ state.count[c] > floor(c)
        rest(c) == -Least(-(state.count[c] - DecayPerTick), -floor(c))
    IN  [state EXCEPT
            !.count = [c \in Cells |-> IF decays(c) THEN rest(c) ELSE @[c]],
            !.owner = [c \in Cells |-> IF decays(c) /\ rest(c) = 0 THEN 0 ELSE @[c]]]

\* resolveTerminal: who holds nothing is out; who is out stays out.
Standing(w, state) ==
    [p \in Bytes(w) |->
        [status |-> IF w.players[p].status # "alive" THEN w.players[p].status
                    ELSE IF Held(state, p) = 0 /\ CityCount(state, p) = 0 THEN "eliminated"
                    ELSE "alive",
         cities |-> CityCount(state, p), troops |-> Held(state, p)]]

Eliminations(w, state) ==
    Among([p \in Bytes(w) |-> p],
          {p \in Bytes(w) : w.players[p].status = "alive" /\ Standing(w, state)[p].status # "alive"})

----------------------------------------------------------------------------
(* The tick *)

\* Staged orders take effect, cities produce, and what was deferred is dropped and shot.
Fired(w, orders) ==
    LET staging == FoldLeft(OrderEffect, w.state, orders)
        start == [state |-> Production(staging), combat |-> <<>>, errors |-> <<>>, done |-> {}]
        dropped == FoldLeft(LAMBDA acc, i : Paratroop(w, orders, acc, i), start, OfKind(orders, "paratroop"))
    IN  FoldLeft(LAMBDA acc, i : Gun(w, orders, acc, i), dropped, OfKind(orders, "gun"))

\* The fighting over what flowed, and all that comes after it.
Resolved(w, orders, shot, flow) ==
    LET fought == Combat(w, shot.state, flow)
        final == Decay(Capture(fought))
    IN  [world |-> [w EXCEPT !.tick = @ + 1, !.state = final, !.players = Standing(w, final)],
         pending |-> <<>>,
         events |-> [combat |-> shot.combat \o CombatEvents(w, shot.state, flow),
                     captures |-> CaptureEvents(fought),
                     eliminations |-> Eliminations(w, final),
                     applied |-> Applied(orders, shot.done),
                     errors |-> shot.errors]]

\* tick: the world after it and what it reports; a finished match stands still.
TickResult(w, staged) ==
    LET orders == SortedOrders(staged)
        shot == Fired(w, orders)
    IN  IF IsTerminal(w) THEN [world |-> w, pending |-> staged, events |-> Quiet]
        ELSE Resolved(w, orders, shot, Flow(w, shot.state))

----------------------------------------------------------------------------
(* The match *)

Init ==
    /\ \E s \in Scenarios : world = CreateWorld(s)
    /\ pending = <<>>
    /\ events = Quiet
    /\ log = <<>>

Submit(o) ==
    LET done == ApplyCommand(world, pending, o) IN
    /\ world.tick < MaxTick /\ Len(pending) < MaxStaged /\ Len(log) < MaxOrders
    /\ world' = done.world
    /\ pending' = done.pending
    /\ log' = Append(log, [tick |-> world.tick, order |-> o])
    /\ UNCHANGED events

Advance ==
    LET done == TickResult(world, pending) IN
    /\ world.tick < MaxTick
    /\ world' = done.world
    /\ pending' = done.pending
    /\ events' = done.events
    /\ UNCHANGED log

Next ==
    \/ \E o \in Menu[world.scenario] : Submit(o)
    \/ Advance

Spec == Init /\ [][Next]_vars

----------------------------------------------------------------------------
(* Properties *)

\* The world is well formed after every command and every tick: no cell holds
\* more than it can, troops have an owner, and water holds nothing
\* (World, tick.ts 118-384).
TypeOK ==
    /\ world.tick \in 0 .. MaxTick
    /\ world.state.count \in [Cells -> 0 .. CellCapacity]
    /\ world.state.owner \in [Cells -> 0 .. Len(world.scenario.ids)]
    /\ world.state.city \in [Cells -> 0 .. Len(world.scenario.ids)]
    /\ world.state.pipes \in [Cells -> SUBSET DOMAIN Offset]
    /\ world.state.reserves \in [Cells -> 0 .. 9]
    /\ DOMAIN world.players = Bytes(world)
    /\ \A p \in Bytes(world) : world.players[p].status \in {"alive", "eliminated"}
    /\ \A c \in Cells : world.state.count[c] > 0 =>
            world.state.owner[c] # 0 /\ c \in Land(world)

\* Nobody stands in a city that is not his when a tick ends, whatever landed,
\* flowed in, fought or was shot there (resolveCapture runs after all of it).
CityHeldByOccupant ==
    \A c \in Cells : world.state.city[c] # 0 =>
        world.state.owner[c] \in {0, world.state.city[c]}

\* What the players' records say is what the board says: their troops and
\* cities are those on the cells, and after the first tick whoever is alive
\* still holds something (resolveTerminal).
AliveHolds ==
    \A p \in Bytes(world) :
        /\ world.players[p].troops = Held(world.state, p)
        /\ world.players[p].cities = CityCount(world.state, p)
        /\ (world.tick > 0 /\ world.players[p].status = "alive") =>
                ~(Held(world.state, p) = 0 /\ CityCount(world.state, p) = 0)

\* Nobody gains troops but from his cities: in a tick without a fight a player's
\* troops grow by at most the production of the cities he had (a fight counts a
\* garrison as it stood before it was sent away, so there the total may grow).
NoTroopsFromNothing ==
    [][world'.tick > world.tick /\ events'.combat = <<>> =>
        \A p \in Bytes(world) :
            Held(world'.state, p) <=
                Held(world.state, p) + ProductionRate * CityCount(world.state, p)]_vars

Swapped(s, i) == [s EXCEPT ![i] = s[i + 1], ![i + 1] = s[i]]

\* Who of two players is heard first between two ticks makes no difference to
\* the tick: the orders are sorted by player (sortOrdersDeterministic).
ArrivalOrderIrrelevant ==
    \A i \in 1 .. Len(pending) - 1 :
        pending[i].player # pending[i + 1].player =>
            LET one == TickResult(world, pending)
                other == TickResult(world, Swapped(pending, i))
            IN  one.world = other.world /\ one.events = other.events

=============================================================================
