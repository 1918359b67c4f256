----------------------------- MODULE OrderInput -----------------------------
(***************************************************************************)
(* From a key press or a click to a command (packages/console/src/input,   *)
(* qol/hotkeys.ts, state/reducer.ts and local-preflight.ts), through the   *)
(* order gate of the server, to the verdict of the engine.                 *)
(*                                                                         *)
(* A console is what its input reads: the player, the cells of his last    *)
(* view, whether input is enabled, the selected cell, the sticky exclusive *)
(* mode and the last pointer sample.  A pointer is a position on the board *)
(* in tenths of a cell.  Zoom, panning, feedback and focus are left out;   *)
(* the middle button pans and never reaches the order input.               *)
(***************************************************************************)
EXTENDS Fog

CONSTANT Pointers    \* positions of the pointer, a bound of the model

NoCell == <<-1, -1>>

SubcellRange == 2

\* The engine's range of a paratroop is a constant of its own, of the same value.
ASSUME RangeAssumption == ParatroopRange = SubcellRange

----------------------------------------------------------------------------
(* The control table *)

PipeKeys == [i |-> "N", j |-> "W", k |-> "S", l |-> "E"]

AbilityKeys == [p |-> "paratroop", h |-> "paratroop", g |-> "gun", o |-> "gun"]

ReserveKeys == <<"0", "1", "2", "3", "4", "5", "6", "7", "8", "9">>

ArrowKeys == [ArrowUp |-> "N", ArrowLeft |-> "W", ArrowDown |-> "S", ArrowRight |-> "E"]

----------------------------------------------------------------------------
(* The pointer *)

\* hitTest: the cell under a point and the position in it.
CellUnder(at) ==
    LET c == <<at[1] \div 10, at[2] \div 10>> IN IF c \in Cells THEN c ELSE NoCell

Subcell(at) == <<at[1] % 10, at[2] % 10>>

\* regionFromSubcell: the quarter of the cell, its diagonals to the sides.
RegionFromSubcell(s) ==
    LET across == Abs(s[1] - 5)
        down == Abs(s[2] - 5)
    IN  IF across = 0 /\ down = 0 THEN "N"
        ELSE IF across >= down THEN (IF s[1] < 5 THEN "W" ELSE "E")
        ELSE IF s[2] <= 5 THEN "N" ELSE "S"

\* axisOffset: five bins of a fifth of the cell each.
AxisOffset(tenth) == tenth \div 2 - SubcellRange

\* subcellToTargetCoord: a target left of or above the board is the source.
SubcellToTarget(source, s) ==
    LET t == <<source[1] + AxisOffset(s[1]), source[2] + AxisOffset(s[2])>>
    IN  IF t[1] < 0 \/ t[2] < 0 THEN source ELSE t

\* KeyboardNavigator.moveFocus: one step, stopped by the edge; from nowhere to
\* the middle of the board.
MoveFocus(c, d) ==
    IF c = NoCell THEN <<Width \div 2, Width \div 2>>
    ELSE IF Toward(c, d) \in Cells THEN Toward(c, d) ELSE c

----------------------------------------------------------------------------
(* localPreflightOrder *)

Seen(con, c) == c \in DOMAIN con.view

SeenWater(con, c) == Seen(con, c) /\ con.view[c].water

HasTroopsOn(con, c) == con.view[c].owner = con.byte

Holds(con, c) == con.byte \in {con.view[c].owner, con.view[c].city}

PreflightAttack(con, o) ==
    IF Chebyshev(o.cell, o.target) > SubcellRange THEN "paratroop_range"
    ELSE IF ~Seen(con, o.target) THEN "out_of_bounds"
    ELSE IF SeenWater(con, o.target) THEN "water_target"
    ELSE Ok

PreflightSource(con, c) ==
    IF ~Seen(con, c) THEN "out_of_bounds"
    ELSE IF SeenWater(con, c) THEN "water_target"
    ELSE IF ~Holds(con, c) THEN "not_owner"
    ELSE Ok

PreflightAnywhere(con, c, d) == Ok

PreflightDestination(con, c, d) ==
    IF Toward(c, d) \notin Cells THEN "out_of_bounds"
    ELSE IF SeenWater(con, Toward(c, d)) THEN "water_target"
    ELSE Ok

Preflight(con, o) ==
    CASE o.kind \in {"paratroop", "gun"} -> PreflightAttack(con, o)
      [] o.kind \in {"setPipe", "setPipesExclusive"} ->
            FirstError(PreflightSource(con, o.cell), PreflightDestination(con, o.cell, o.direction))
      [] o.kind \in {"clearPipe", "clearAllPipes"} -> PreflightSource(con, o.cell)
      [] o.kind = "setReserves" ->
            IF o.percent \in 0 .. 9 THEN PreflightSource(con, o.cell) ELSE "invalid_percent"
      [] o.kind = "surrender" -> Ok

----------------------------------------------------------------------------
(* Gestures *)

Drafted(kind, cell) ==
    [kind |-> kind, cell |-> cell, direction |-> "none", target |-> cell, percent |-> 0]

\* What comes of a gesture: an action drafted from it, blocked by the preflight,
\* or nothing that could become an order.
Outcome(verdict, action) == [verdict |-> verdict, action |-> action]

Draft(action) == Outcome("drafted", action)

Ignored == Outcome("ignored", Drafted("none", NoCell))

\* pipePresentInDirection decides between setting and clearing.
Toggle(con, c, d) ==
    LET set == Seen(con, c) /\ d \in con.view[c].pipes
    IN  Draft([Drafted(IF set THEN "clearPipe" ELSE "setPipe", c) EXCEPT !.direction = d])

Exclusive(c, d) == Draft([Drafted("setPipesExclusive", c) EXCEPT !.direction = d])

\* resolveReservePercent: the digit is the index of its key.
DraftReserve(c, digit) ==
    LET percent == (CHOOSE i \in DOMAIN ReserveKeys : ReserveKeys[i] = digit) - 1
    IN  Draft([Drafted("setReserves", c) EXCEPT !.percent = percent])

\* buildAbilityAction: the selected cell fires to where the pointer aims.
BuildAbility(con, kind) ==
    LET target == SubcellToTarget(con.selection, Subcell(con.pointer.at))
        action == [Drafted(kind, con.selection) EXCEPT !.target = target]
    IN  IF \/ ~con.pointer.moved \/ CellUnder(con.pointer.at) = NoCell
           \/ ~con.pointer.fresh \/ target = con.selection
        THEN Ignored
        ELSE Outcome(IF PreflightAttack(con, action) = Ok THEN "drafted" ELSE "blocked", action)

\* translateKey, for the keys that may yield an order.
TranslateKey(con, key, alt) ==
    IF ~con.inputEnabled \/ con.selection = NoCell THEN Ignored
    ELSE CASE key \in DOMAIN PipeKeys ->
                IF alt THEN Exclusive(con.selection, PipeKeys[key])
                ELSE Toggle(con, con.selection, PipeKeys[key])
           [] key = "Space" -> Draft(Drafted("clearAllPipes", con.selection))
           [] key \in DOMAIN AbilityKeys -> BuildAbility(con, AbilityKeys[key])
           [] key \in ToSet(ReserveKeys) -> DraftReserve(con.selection, key)
           [] OTHER -> Ignored

\* handleKeyDown of the hotkeys: nothing is ordered while the pointer is off the board.
PressKey(con, key, alt) ==
    LET out == TranslateKey(con, key, alt) IN
    IF out.verdict = "drafted" /\ con.pointer.moved /\ CellUnder(con.pointer.at) = NoCell
    THEN Ignored ELSE out

\* handleDown: the quarter that was clicked, with the right button, with Alt or
\* in the exclusive mode for that pipe alone.
Click(con, button, alt) ==
    LET c == CellUnder(con.pointer.at)
        d == RegionFromSubcell(Subcell(con.pointer.at))
    IN  IF c = NoCell \/ ~con.inputEnabled THEN Ignored
        ELSE IF button # "left" \/ alt \/ con.exclusiveMode THEN Exclusive(c, d)
        ELSE Toggle(con, c, d)

\* The buttons of the side bar and the surrender dialog.
PressButton(con, name) ==
    CASE name = "clear" /\ con.selection # NoCell -> Draft(Drafted("clearAllPipes", con.selection))
      [] name \in ToSet(ReserveKeys) /\ con.selection # NoCell -> DraftReserve(con.selection, name)
      [] name = "surrender" -> Draft(Drafted("surrender", NoCell))
      [] OTHER -> Ignored

Gesture(con, g) ==
    CASE g.by = "key"    -> PressKey(con, g.key, g.alt)
      [] g.by = "click"  -> Click(con, g.key, g.alt)
      [] g.by = "button" -> PressButton(con, g.key)

----------------------------------------------------------------------------
(* From the action to the match *)

\* actionToOrder
ActionToOrder(con, a) ==
    [kind |-> a.kind, player |-> con.player, cell |-> a.cell,
     direction |-> a.direction, target |-> a.target, percent |-> a.percent]

\* The reducer: a live console checks pipes and reserves against its view, stamps
\* the order and sends it.
Reduced(con, out) ==
    IF out.verdict # "drafted" THEN out
    ELSE IF ~con.inputEnabled THEN Ignored
    ELSE IF out.action.kind \notin {"paratroop", "gun"} /\ Preflight(con, out.action) # Ok
    THEN Outcome("blocked", out.action)
    ELSE Outcome("sent", out.action)

\* validateOrderShape
WellShaped(o) ==
    /\ o.kind \in DOMAIN KindRank \cup {"surrender"}
    /\ o.kind \in {"setPipe", "clearPipe", "setPipesExclusive"} => o.direction \in DOMAIN Offset

\* acceptOrder, from a joined connection that plays the seat of `player'.
PassesGate(player, o) == WellShaped(o) /\ o.player = player

----------------------------------------------------------------------------
(* Properties *)

\* The cells that one arrow key selects, from a city or from nothing.
Selections ==
    {MoveFocus(c, ArrowKeys[key]) :
        c \in {NoCell} \cup UNION ToSet(world.scenario.cities), key \in DOMAIN ArrowKeys}

Resting == [moved |-> FALSE, fresh |-> FALSE, at |-> NoCell]

Aiming(at) == [moved |-> TRUE, fresh |-> TRUE, at |-> at]

By(device, key, alt) == [by |-> device, key |-> key, alt |-> alt]

Input(selection, exclusive, pointer, gesture) ==
    [selection |-> selection, exclusiveMode |-> exclusive, pointer |-> pointer, gesture |-> gesture]

\* Every key, click and button that may order something, with every selection,
\* aim and mode.
Inputs ==
    {Input(NoCell, FALSE, Resting, By("button", "surrender", FALSE))}
    \cup {Input(c, FALSE, Resting, By("key", key, alt)) :
            c \in Selections, key \in DOMAIN PipeKeys, alt \in BOOLEAN}
    \cup {Input(c, FALSE, Resting, By("key", key, FALSE)) :
            c \in Selections, key \in {"Space", "0", "9"}}
    \cup {Input(c, FALSE, Aiming(at), By("key", key, FALSE)) :
            c \in Selections, at \in Pointers, key \in {"p", "g"}}
    \cup {Input(NoCell, exclusive, Aiming(at), By("click", "left", FALSE)) :
            at \in Pointers, exclusive \in BOOLEAN}

\* A player with what he is shown, and his console with what he does.
Seat(id) == [player |-> id, byte |-> Dense(world.scenario.ids, id), view |-> ViewOf(id).cells]

Console(seat, input) ==
    [player |-> seat.player, byte |-> seat.byte, view |-> seat.view, inputEnabled |-> TRUE,
     selection |-> input.selection, exclusiveMode |-> input.exclusiveMode, pointer |-> input.pointer]

\* What is sent passes the gate and stands before the engine, but for what the
\* console does not check.  (A pipe from an empty city at the edge of sight into
\* water beyond it would be sent too; the boards checked have no such city.)
Stands(con, g) ==
    LET out == Reduced(con, Gesture(con, g))
        o == ActionToOrder(con, out.action)
        verdict == ValidateCommand(world, o)
    IN  out.verdict = "sent" =>
            /\ PassesGate(con.player, o)
            /\ \/ verdict = Ok
               \/ o.kind = "surrender" /\ verdict = "already_surrendered"
               \/ o.kind \in {"paratroop", "gun"} /\ verdict \in {"not_owner", "no_source_troops"}

\* What the console holds back, though it sees the cells, the engine would refuse.
Falls(con, g) ==
    LET out == Reduced(con, Gesture(con, g))
        o == ActionToOrder(con, out.action)
    IN  (/\ out.verdict = "blocked"
         /\ Seen(con, o.cell) /\ Seen(con, o.target)
         /\ o.kind \notin {"gun", "setPipesExclusive"})
            => ValidateCommand(world, o) # Ok

\* After a tick that others may follow; staged orders do not change a view.
ViewsFresh == pending = <<>> /\ world.tick < MaxTick

\* The console and the engine judge an order by two different sets of rules.
\* No gesture yields an order that the gate or the engine refuses, except a shot
\* or a drop from a cell that is not the player's or has too few troops, and a
\* second surrender (local-preflight.ts leaves these to the server).
SentOrdersStand ==
    ViewsFresh =>
        \A id \in ToSet(world.scenario.ids) :
            LET seat == Seat(id)
            IN  \A i \in Inputs : Stands(Console(seat, i), i.gesture)

\* And no order is withheld that the engine would take, except on cells out of
\* sight, a shot into water, and an exclusive pipe into water or off the board.
BlockedOrdersFall ==
    ViewsFresh =>
        \A id \in ToSet(world.scenario.ids) :
            LET seat == Seat(id)
            IN  \A i \in Inputs : Falls(Console(seat, i), i.gesture)

=============================================================================
