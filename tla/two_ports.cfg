SPECIFICATION Spec
CONSTANTS
    Port = {0, 1}
    LacpPortMax = 4
    Agg = {1}
    Mac <- MCMac
    OwnMac <- MCOwnMac
    own = own
    m1 = m1
    m2 = m2
    zero = zero
    ZeroMac = zero
    LongTimeout = 2
    ShortTimeout = 1
    SlowPeriodic = 1
    FastPeriodic = 1
    AggregateWait = 1
    MaxTx = 1
    Remote <- ThreeFaces
    Heard <- NothingYet
    IpcLinks = {TRUE, FALSE}
    CliLinks = {}
    Speeds = {}
    Duplexes = {}
    PortPrios = {}
    SysPrios = {}
    Timeouts = {}
    LongPeriods = {}
    ShortPeriods = {}
    MayReEnable = FALSE
INVARIANTS
    TypeOK
    InUseIsAggregatable
    TrafficNeedsLivePartner
    OnePartnerPerGroup
    ChipAgrees
    SelectionIsCurrent
PROPERTIES
    AttachWaits
