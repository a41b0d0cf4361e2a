SPECIFICATION FairSpec
CONSTANTS
    Bridge = {a, b}
    PidOf <- MCPidOf
    a = a
    b = b
    c = c
    Ports = 1
    Cap = 1
    Burst = 1
    Links <- MCSelf
    Pdu = {lacpdu}
PROPERTIES
    HandlerReturns
    GoodbyeIsHeard
CHECK_DEADLOCK FALSE
