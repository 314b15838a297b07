CONSTANTS
    FdMax = 3
    PendingMax = 2
    Backlogs = {2}
    Ports = {1, 2}
    PortMin = 1
    EphemeralMin = 2
    UdpPortMax = 1
    UdpMaxDatagrams = 1
    TcpMaxListeners = 1
    TcpMaxConns = 2
    MaxQueue = 2
SPECIFICATION StreamsSpec
PROPERTY StreamsApart
