SPECIFICATION FairSpec
CONSTANTS
    Port = {0}
    LacpPortMax = 4
    Agg = {1}
    Mac <- MCMac
    OwnMac <- MCOwnMac
    own = own
    m1 = m1
    m2 = m2
    zero = zero
    ZeroMac = zero
    LongTimeout = 2
    ShortTimeout = 1
    SlowPeriodic = 2
    FastPeriodic = 1
    AggregateWait = 1
    MaxTx = 1
    Remote <- OnlyInSync
    Heard <- NothingYet
    IpcLinks = {TRUE, FALSE}
    CliLinks = {}
    Speeds = {}
    Duplexes = {}
    PortPrios = {}
    SysPrios = {}
    Timeouts = {}
    LongPeriods = {}
    ShortPeriods = {0}
    MayReEnable = FALSE
PROPERTIES
    CallReturns
