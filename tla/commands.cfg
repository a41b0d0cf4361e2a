SPECIFICATION Spec
CONSTANTS
    Port = {0}
    LacpPortMax = 4
    Agg = {1}
    Mac <- MCMac
    OwnMac <- MCOwnMac
    own = own
    m1 = m1
    m2 = m2
    zero = zero
    ZeroMac = zero
    LongTimeout = 2
    ShortTimeout = 1
    SlowPeriodic = 1
    FastPeriodic = 1
    AggregateWait = 1
    MaxTx = 1
    Remote <- OnlyInSync
    Heard <- NothingYet
    IpcLinks = {TRUE, FALSE}
    CliLinks = {FALSE}
    Speeds = {100}
    Duplexes = {FALSE}
    PortPrios = {1}
    SysPrios = {1}
    Timeouts = {TRUE}
    LongPeriods = {2}
    ShortPeriods = {2}
    MayReEnable = TRUE
INVARIANTS
    SelectionIsCurrent
    TrafficNeedsLivePartner
