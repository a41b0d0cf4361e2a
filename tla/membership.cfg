SPECIFICATION Spec
CONSTANTS
    Port = {0, 1, 4}
    LacpPortMax = 4
    Agg = {1, 2}
    Mac <- MCMac
    OwnMac <- MCOwnMac
    own = own
    m1 = m1
    m2 = m2
    zero = zero
    ZeroMac = zero
    LongTimeout = 1
    ShortTimeout = 1
    SlowPeriodic = 1
    FastPeriodic = 1
    AggregateWait = 1
    MaxTx = 1
    Remote <- Ourselves
    Heard = {}
    IpcLinks = {TRUE, FALSE}
    CliLinks = {}
    Speeds = {}
    Duplexes = {}
    PortPrios = {}
    SysPrios = {}
    Timeouts = {}
    LongPeriods = {}
    ShortPeriods = {}
    MayReEnable = FALSE
INVARIANTS
    GroupsAgree
    LoopIsBroken
    FreePortIsPlain
CHECK_DEADLOCK FALSE
