SPECIFICATION RecordSpec
CONSTANTS
    Width = 4
    Menu <- MCMenu
    MaxTick = 3
    MaxStaged = 2
    MaxOrders = 3
    ProductionRate = 2
    CityCapacity = 4
    CellCapacity = 5
    DecayPerTick = 1
    FlowRate = 4
    FlowDownhillStep = 1
    FlowUphillStep = 1
    FlowSlopeDeltaCap = 2
    ParatroopCost = 2
    GunCost = 1
    GunDamage = 2
    ParatroopRange = 2
    Radius = 1
    Pointers <- MCPointers
    Safe <- MCSafe
    MinWaterPool = 2
    Requests <- MCRequests
INVARIANTS
    TypeOK
    CityHeldByOccupant
    FairStart
    ArrivalOrderIrrelevant
    ReplayMatches
    NoUnseenWatcher
    
    SentOrdersStand
    BlockedOrdersFall
PROPERTY NoTroopsFromNothing
CHECK_DEADLOCK FALSE
