SPECIFICATION LoopSpec
CONSTANTS
    LacpPortMax = 4
    Agg = {1}
    Mac = {zero}
    OwnMac = {zero}
    zero = zero
    ZeroMac = zero
    LongTimeout = 2
    ShortTimeout = 1
    SlowPeriodic = 2
    FastPeriodic = 1
    AggregateWait = 1
    MaxTx = 1
    Port = {0, 1, 2}
    SpeedsSeen = {100, 1000}
    PriosSeen = {1, 2}
INVARIANTS
    LoopFindsMaster
CHECK_DEADLOCK FALSE
