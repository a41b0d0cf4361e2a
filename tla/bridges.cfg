SPECIFICATION FairSpec
CONSTANTS
    Port = {0}
    LacpPortMax = 4
    Agg = {1}
    l = l
    r = r
    zero = zero
    MacL = l
    MacR = r
    ZeroMac = zero
    LongTimeout = 3
    ShortTimeout = 1
    SlowPeriodic = 1
    FastPeriodic = 1
    AggregateWait = 1
    MaxTx = 3
    Busy = 0
    Flight = 1
PROPERTIES
    JoinedCarry
    RecordsAgree
    LonePortStops
