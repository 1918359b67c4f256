------------------------------- MODULE Replay -------------------------------
(***************************************************************************)
(* The record of a match: the binary image of a world (serialize.ts) and   *)
(* the fixture that is captured from a match and played again              *)
(* (scripts/capture.ts, replay/replay.ts, replay/validate.ts).             *)
(***************************************************************************)
EXTENDS Engine

VARIABLES
    copy,       \* the match played again, [world, pending]
    played      \* how many of its ticks have been played again

----------------------------------------------------------------------------
(* The image of a world *)

\* Fields of one byte, and of four, the lowest first.
U8(n) == n % 256

U32(n) == <<n % 256, (n \div 256) % 256, (n \div 65536) % 256, (n \div 16777216) % 256>>

ReadU32(b) == b[1] + 256 * (b[2] + 256 * (b[3] + 256 * b[4]))

\* MAX_U32: a number of four bytes.
FitsU32(n) == n \div 16777216 < 256

\* Counts are kept in a Uint32Array; a match ends before its ticks outgrow their field.
ASSUME FieldsAssumption == FitsU32(CellCapacity) /\ FitsU32(MaxTick)

Bit == [N |-> 1, E |-> 2, S |-> 4, W |-> 8]

MaskOf(pipes) == MapThenSumSet(LAMBDA d : Bit[d], pipes)

PipesIn(mask) == {d \in DOMAIN Bit : (mask \div Bit[d]) % 2 = 1}

StatusByte == [alive |-> 1, surrendered |-> 2, eliminated |-> 3]

Bad == "format error"

\* The registry's table: the ids of the match in canonical order.
Table(w) == [i \in DOMAIN w.scenario.ids |->
               CHOOSE id \in ToSet(w.scenario.ids) : Dense(w.scenario.ids, id) = i]

\* Slots written as if they were in the order of the table.
TableSlots(w) == [k \in DOMAIN w.scenario.ids |-> k - 1]

\* The index in the table of the id on each placement slot.
SlotOrder(w) == [k \in DOMAIN w.scenario.ids |-> Dense(w.scenario.ids, w.scenario.ids[k]) - 1]

\* What encodePayload refuses: a field that would lose something when written.
Encodable(w) ==
    /\ Width <= 255
    /\ Cardinality({c \in Cells : \E k \in DOMAIN w.scenario.ids : c \in w.scenario.cities[k]}) <= 65535
    /\ \A p \in Bytes(w) : w.players[p].cities <= 255 /\ FitsU32(w.players[p].troops)
    /\ \A c \in Cells : /\ w.state.owner[c] <= Len(w.scenario.ids)
                        /\ w.state.city[c] <= Len(w.scenario.ids)
                        /\ MaskOf(w.state.pipes[c]) <= 15 /\ w.state.reserves[c] <= 9

\* serializeWorld: the staged orders are not in it.
Serialize(w) ==
    [size    |-> U8(Width),
     tick    |-> U32(w.tick),
     table   |-> Table(w),
     slots   |-> SlotOrder(w),
     players |-> [i \in Bytes(w) |->
                    [status |-> StatusByte[w.players[i].status],
                     cities |-> U8(w.players[i].cities), troops |-> U32(w.players[i].troops)]],
     cities  |-> {p \in Cells \X DOMAIN w.scenario.ids : p[1] \in w.scenario.cities[p[2]]},
     cells   |-> [k \in DOMAIN RowMajor |->
                    LET c == RowMajor[k] IN
                    [count |-> U32(w.state.count[c]), owner |-> w.state.owner[c],
                     pipes |-> MaskOf(w.state.pipes[c]), reserves |-> w.state.reserves[c],
                     city |-> w.state.city[c], elevation |-> U8(w.scenario.elevation[c]),
                     water |-> IF c \in w.scenario.water THEN 1 ELSE 0]]]

\* What decodePayload refuses: a table out of order, slots that are no permutation,
\* bytes that name no status, nobody, a mask or a percentage out of range.
WellFormed(image) ==
    LET count == Len(image.table) IN
    /\ count \in 2 .. 4
    /\ \A i \in 1 .. count - 1 : image.table[i] < image.table[i + 1]
    /\ {image.slots[k] : k \in DOMAIN image.slots} = 0 .. count - 1
    /\ \A i \in DOMAIN image.players : image.players[i].status \in 1 .. 3
    /\ \A p \in image.cities : p[2] \in 1 .. count
    /\ \A k \in DOMAIN image.cells :
            /\ image.cells[k].owner <= count /\ image.cells[k].city <= count
            /\ image.cells[k].pipes <= 15 /\ image.cells[k].reserves <= 9

\* deserializeWorld
Deserialize(image) ==
    LET cell(c) == image.cells[c[2] * image.size + c[1] + 1]
        ids == [k \in DOMAIN image.slots |-> image.table[image.slots[k] + 1]]
        status(b) == CHOOSE s \in DOMAIN StatusByte : StatusByte[s] = b
    IN  IF ~WellFormed(image) THEN Bad
        ELSE [scenario |-> [ids       |-> ids,
                            elevation |-> [c \in Cells |-> cell(c).elevation],
                            water     |-> {c \in Cells : cell(c).water = 1},
                            cities    |-> [k \in DOMAIN ids |->
                                            {c \in Cells : <<c, k>> \in image.cities}]],
              tick    |-> ReadU32(image.tick),
              state   |-> [count    |-> [c \in Cells |-> ReadU32(cell(c).count)],
                           owner    |-> [c \in Cells |-> cell(c).owner],
                           pipes    |-> [c \in Cells |-> PipesIn(cell(c).pipes)],
                           reserves |-> [c \in Cells |-> cell(c).reserves],
                           city     |-> [c \in Cells |-> cell(c).city]],
              players |-> [i \in DOMAIN image.players |->
                            [status |-> status(image.players[i].status),
                             cities |-> image.players[i].cities,
                             troops |-> ReadU32(image.players[i].troops)]]]

----------------------------------------------------------------------------
(* Fixtures *)

\* validateOrder: the body of a recorded order, whatever the match makes of it.
OrderAccepted(ids, o) ==
    /\ o.player \in ToSet(ids)
    /\ o.kind \in DOMAIN KindRank \cup {"surrender"}
    /\ o.kind \in {"setPipe", "clearPipe", "setPipesExclusive"} => o.direction \in DOMAIN Offset
    /\ o.kind = "setReserves" => o.percent \in 0 .. 9

\* validateOrders: one bad order refuses the fixture.
FixtureAccepted(ids, orders) ==
    \A i \in DOMAIN orders : OrderAccepted(ids, orders[i].order)

\* groupOrdersByTick: the orders of a tick, in the order of the fixture.
OrdersAt(orders, t) == Among(orders, {r \in ToSet(orders) : r.tick = t})

\* A match that is given recorded orders one after the other.
Told(match, orders) ==
    FoldLeft(LAMBDA m, r : ApplyCommand(m.world, m.pending, r.order), match, orders)

\* A tick of replayMatch: the orders of the tick, then the tick.
PlayTick(match, orders) ==
    LET told == Told(match, orders)
        done == TickResult(told.world, told.pending)
    IN  [world |-> done.world, pending |-> done.pending]

\* capture: the match ends a tick after its last order, or when it is decided.
Recorded ==
    /\ \A i \in DOMAIN log : log[i].tick < world.tick
    /\ world.tick = MaxTick \/ IsTerminal(world)

RecordInit ==
    /\ Init
    /\ copy = [world |-> CreateWorld(world.scenario), pending |-> <<>>]
    /\ played = 0

\* One round of the loop of replayMatch.
ReplayTick ==
    /\ Recorded /\ FixtureAccepted(world.scenario.ids, log)
    /\ played < world.tick
    /\ copy' = PlayTick(copy, OrdersAt(log, played))
    /\ played' = played + 1
    /\ UNCHANGED vars

RecordNext == (Next /\ UNCHANGED <<copy, played>>) \/ ReplayTick

RecordSpec == RecordInit /\ [][RecordNext]_<<vars, copy, played>>

----------------------------------------------------------------------------
(* Properties *)

\* A match that is captured between two ticks and played again from its fixture
\* ends in the same world, and that world survives being written and read: slots
\* and canonical ranks are told apart, masks and bytes come back as they were
\* (replayMatch, serializeWorld, deserializeWorld).  Commands after the last tick
\* are not played again, so a match that a surrender ended is left out, and so is
\* the image of a world with more of something than its field can hold.
ReplayMatches ==
    (Recorded /\ FixtureAccepted(world.scenario.ids, log) /\ played = world.tick) =>
        /\ copy.world = world
        /\ Encodable(copy.world) => Deserialize(Serialize(copy.world)) = world

=============================================================================
