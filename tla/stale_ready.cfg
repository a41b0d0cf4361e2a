SPECIFICATION StaleSpec
CONSTANTS
    Port = {0, 1, 2}
    LacpPortMax = 4
    Agg = {1}
    Mac <- MCMac
    OwnMac <- MCOwnMac
    own = own
    m1 = m1
    m2 = m2
    zero = zero
    ZeroMac = zero
    LongTimeout = 4
    ShortTimeout = 3
    SlowPeriodic = 1
    FastPeriodic = 1
    AggregateWait = 2
    MaxTx = 1
    Remote <- Neighbours
    Heard <- NothingYet
    IpcLinks = {TRUE, FALSE}
    CliLinks = {}
    Speeds = {}
    Duplexes = {}
    PortPrios <- Priorities
    SysPrios = {}
    Timeouts = {}
    LongPeriods = {}
    ShortPeriods = {}
    MayReEnable = FALSE
PROPERTIES
    AttachTogether
