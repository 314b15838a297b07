SPECIFICATION MCSpec
CONSTANTS
    Ports = {1023, 1024, 1025}
    PortMin = 1024
    UdpPortMax = 2
    UdpMaxDatagrams = 3
    Data = {1, 2}
    TcpMaxListeners = 1
    TcpMaxConns = 2
    Packets = {1, 2}
    MaxQueue = 3
    Ips = {1, 2, 3}
    Macs = {1, 2}
    Ttls = {1, 2, 3}
    ArpMax = 2
INVARIANT
    TypeOK
PROPERTIES
    ImplementsService
    TcpOneWay
