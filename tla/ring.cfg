SPECIFICATION RingSpec
CONSTANTS
    Bridge = {a, b}
    PidOf <- MCPidOf
    a = a
    b = b
    Ports = 4
    Cap = 1
    Burst = 1
    Links = {}
    Pdu = {lacpdu}
INVARIANTS
    RingIsWired
