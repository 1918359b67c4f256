--------------------------------- MODULE Fog ---------------------------------
(***************************************************************************)
(* What a player is shown of a match (packages/fog): the cells in range of *)
(* his stacks, and those events of the last tick that lie in them.         *)
(***************************************************************************)
EXTENDS Engine

CONSTANT Radius     \* visibilityRadius of the match

ASSUME RadiusAssumption == Radius \in Nat

----------------------------------------------------------------------------
(* Visible cells *)

Span(n) == (-Least(0, Radius - n)) .. Least(Width - 1, n + Radius)

\* cellsInRange: a square around the cell, cut off at the edges of the board.
CellsInRange(c) == Span(c[1]) \X Span(c[2])

\* Cells a player is the last to have held, with or without troops on them.
Claims(w, p) == {c \in Cells : w.state.owner[c] = p}

Stacks(w, p) == {c \in Cells : w.state.owner[c] = p /\ w.state.count[c] > 0}

\* computeVisibleSet, for a player by his owner byte.
VisibleSet(w, p) == UNION {CellsInRange(c) : c \in Stacks(w, p)}

----------------------------------------------------------------------------
(* Events *)

OrderCoords(o) ==
    IF o.kind \in {"paratroop", "gun"} THEN {o.cell, o.target} ELSE {o.cell}

\* validationErrorCoords of the reasons a phase may give.
ReasonCoords(e) ==
    CASE e.reason \in {"not_owner", "no_source_troops"} -> {e.order.cell}
      [] e.reason \in {"out_of_bounds", "water_target"} -> {e.order.target}
      [] e.reason = "paratroop_range"                   -> {e.order.cell, e.order.target}
      [] OTHER                                          -> {}

\* Some, and not all, of the cells are in sight.
SomeVisible(coords, shown) == coords \cap shown # {}

AllVisible(coords, shown) == coords \subseteq shown

\* filterTickEvents: eliminations are told to everyone.
FilterTickEvents(w, p, shown, reported) ==
    LET mine(o) == Dense(w.scenario.ids, o.player) = p IN
    [reported EXCEPT
        !.combat   = Among(@, {e \in ToSet(@) : e.cell \in shown}),
        !.captures = Among(@, {e \in ToSet(@) : e.cell \in shown}),
        !.applied  = Among(@, {o \in ToSet(@) : mine(o) /\ AllVisible(OrderCoords(o), shown)}),
        !.errors   = Among(@, {e \in ToSet(@) :
                        AllVisible(OrderCoords(e.order) \cup ReasonCoords(e), shown)})]

\* computePlayerView: a spectator is shown everything, who does not play nothing.
PlayerView(w, viewer, spectator, reported) ==
    LET p == Dense(w.scenario.ids, viewer)
        shown == IF spectator THEN Cells ELSE IF p = 0 THEN {} ELSE VisibleSet(w, p)
    IN  [tick   |-> w.tick,
         cells  |-> [c \in shown |->
                        [water |-> c \in w.scenario.water,
                         count |-> w.state.count[c], owner |-> w.state.owner[c],
                         pipes |-> w.state.pipes[c], reserves |-> w.state.reserves[c],
                         city |-> w.state.city[c]]],
         events |-> IF spectator THEN reported
                    ELSE IF p = 0 THEN Quiet
                    ELSE FilterTickEvents(w, p, shown, reported)]

----------------------------------------------------------------------------
(* Properties *)

ViewOf(id) == PlayerView(world, id, FALSE, events)

Sees(id, p) ==
    LET cells == ViewOf(id).cells
    IN  {c \in DOMAIN cells : cells[c].owner = p /\ cells[c].count > 0}

\* Nobody is watched by an enemy he cannot see: who is shown a stack of another
\* player has a stack himself that the other is shown (computeVisibleSet counts
\* troops, not the claim that a spent stack leaves behind).
NoUnseenWatcher ==
    \A a, b \in ToSet(world.scenario.ids) :
        Sees(a, Dense(world.scenario.ids, b)) # {} => Sees(b, Dense(world.scenario.ids, a)) # {}

\* What a player is told happened names only cells that he is shown, after the
\* tick has moved, killed and spent the stacks that see (filterTickEvents).
EventsWithinSight ==
    \A id \in ToSet(world.scenario.ids) :
        LET told == ViewOf(id).events
            shown == DOMAIN ViewOf(id).cells
        IN  /\ \A i \in DOMAIN told.combat : told.combat[i].cell \in shown
            /\ \A i \in DOMAIN told.captures : told.captures[i].cell \in shown
            /\ \A i \in DOMAIN told.applied : OrderCoords(told.applied[i]) \subseteq shown
            /\ \A i \in DOMAIN told.errors : OrderCoords(told.errors[i].order) \subseteq shown

=============================================================================
