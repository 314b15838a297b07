CONSTANTS
    FdMax = 3
    PendingMax = 2
    Backlogs = {1, 3}
    Ports = {1, 2}
    PortMin = 1
    EphemeralMin = 2
    UdpPortMax = 1
    UdpMaxDatagrams = 1
    TcpMaxListeners = 1
    TcpMaxConns = 2
SPECIFICATION MCSpec
INVARIANTS PortsAgree ListenersAgree NothingDangles AcceptedOnce
