SPECIFICATION Spec
CONSTANTS
    Guests = {g1, g2, g3}
    ann = ann
    Ann = Ann
    bob = bob
    Handles = {ann, Ann, bob}
    KeyOf <- MCKeyOf
    NoGuest = NoGuest
    NoHandle = NoHandle
    Connections = {c1, c2}
    duel = duel
    trio = trio
    Matches = {duel, trio}
    Capacity <- MCCapacity
    Free = Free
    NoRow = NoRow
SYMMETRY LobbySymmetry
VIEW LobbyView
INVARIANTS
    TypeOK
    HandlesExclusive
    OneMatchEach
    RowsTruthful
    SubscribersCurrent
CHECK_DEADLOCK FALSE
