SPECIFICATION Spec
CONSTANTS
    Bridge = {a, b, c}
    PidOf <- MCPidOf
    a = a
    b = b
    c = c
    Ports = 2
    Cap = 1
    Burst = 1
    Links <- MCLinks
    Pdu = {lacpdu}
INVARIANTS
    TypeOK
    TableIsMatching
    FramesComeFromPeer
PROPERTIES
    Implements
CHECK_DEADLOCK FALSE
