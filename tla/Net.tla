-------------------------------- MODULE Net ---------------------------------
(***************************************************************************)
(* The network core of c-os/kernel/net/net.c: UDP, TCP, the packet ring and *)
(* the ARP cache, which share no state and are cleared together.            *)
(***************************************************************************)
EXTENDS Integers, Sequences, FiniteSets

CONSTANTS Ports, PortMin, UdpPortMax, UdpMaxDatagrams, Data,
          TcpMaxListeners, TcpMaxConns,
          Packets, MaxQueue, Ips, Macs, Ttls, ArpMax

ASSUME NetAssumption ==
    /\ Ports \subseteq Nat \ {0}
    /\ {PortMin, UdpPortMax, UdpMaxDatagrams, TcpMaxListeners} \subseteq Nat
    /\ {TcpMaxConns, MaxQueue, ArpMax} \subseteq Nat \ {0}
    /\ Ttls \subseteq Nat \ {0}
    /\ 0 \notin Data \cup Packets \cup Ips \cup Macs

VARIABLES g_udp_ports, g_udp_datagrams, g_tcp_listeners, g_tcp_conns,
          g_packets, g_head, g_tail, g_count, g_arp

INSTANCE Udp
INSTANCE Tcp
INSTANCE PacketRing
INSTANCE Arp

vars == <<g_udp_ports, g_udp_datagrams, g_tcp_listeners, g_tcp_conns,
          g_packets, g_head, g_tail, g_count, g_arp>>

NetInit == UdpInit /\ TcpInit /\ RingInit /\ ArpInit

\* qos_net_reset, called by net_init when the kernel starts over
NetReset ==
    /\ g_udp_ports' = {} /\ g_udp_datagrams' = <<>>
    /\ g_tcp_listeners' = {} /\ g_tcp_conns' = [c \in ConnIds |-> NoConn]
    /\ g_packets' = [i \in Places |-> NoPacket]
    /\ g_head' = 0 /\ g_tail' = 0 /\ g_count' = 0
    /\ g_arp' = [i \in ArpSlots |-> NoArp]

NetNext ==
    \/ /\ UdpNext
       /\ UNCHANGED <<g_tcp_listeners, g_tcp_conns, g_packets, g_head, g_tail,
                      g_count, g_arp>>
    \/ /\ TcpNext
       /\ UNCHANGED <<g_udp_ports, g_udp_datagrams, g_packets, g_head, g_tail,
                      g_count, g_arp>>
    \/ /\ RingNext
       /\ UNCHANGED <<g_udp_ports, g_udp_datagrams, g_tcp_listeners, g_tcp_conns,
                      g_arp>>
    \/ /\ ArpNext
       /\ UNCHANGED <<g_udp_ports, g_udp_datagrams, g_tcp_listeners, g_tcp_conns,
                      g_packets, g_head, g_tail, g_count>>
    \/ NetReset

Spec == NetInit /\ [][NetNext]_vars
----------------------------------------------------------------------------
TypeOK == UdpTypeOK /\ TcpTypeOK /\ RingTypeOK /\ ArpTypeOK

\* The network core implements NetService: a port that is opened again shows
\* nothing sent to its earlier owner (qos_net_udp_unbind clears the datagrams
\* and qos_net_udp_bind does not), the datagrams of a port arrive in the order
\* of the sends whatever other ports and cleared entries lie between them, the
\* ring keeps its order over the wrap, and a lookup never finds an older
\* answer for an address behind or before the last one.
ServiceOfTables == INSTANCE NetService WITH
    inbox <- [port \in Ports |-> Inbox(port)],
    open <- g_udp_ports,
    queue <- Waiting,
    cache <- [ip \in Ips |-> ArpLookup(ip)]

ImplementsService == ServiceOfTables!Service

\* How far a connection is: it never goes back.
Progress(state) ==
    CASE state \in {"LISTEN", "SYN_SENT"} -> 0
      [] state = "SYN_RECEIVED" -> 1
      [] state = "ESTABLISHED" -> 2
      [] state \in {"FIN_WAIT_1", "CLOSE_WAIT"} -> 3
      [] state \in {"FIN_WAIT_2", "CLOSING", "LAST_ACK"} -> 4
      [] state = "TIME_WAIT" -> 5
      [] state = "CLOSED" -> 6

\* FirstRto doubled once for every retry
Doubled == [retries \in 0 .. MaxRetries |->
    FirstRto * <<1, 2, 4, 8, 16, 32>>[retries + 1]]

\* Until the stack is reset a connection id names the same connection, which
\* only moves forward whatever events arrive late or twice: it is not reopened
\* by an answer that comes after qos_net_tcp_step gave up.  A request is given
\* up at the first timeout after its fifth retry, when its timeout has doubled
\* five times, and not before.
TcpOneWay ==
    [][\A c \in ConnIds :
          LET conn == g_tcp_conns[c] IN
          conn.used /\ ~ NetReset =>
             /\ g_tcp_conns'[c].used
             /\ g_tcp_conns'[c].local_port = conn.local_port
             /\ g_tcp_conns'[c].remote_port = conn.remote_port
             /\ \/ g_tcp_conns'[c].state = conn.state
                \/ Progress(g_tcp_conns'[c].state) > Progress(conn.state)
             /\ conn.state = "SYN_SENT" => conn.rto_ms = Doubled[conn.retries]
             /\ conn.state = "SYN_SENT" /\ g_tcp_conns'[c].state = "CLOSED" =>
                   conn.retries = MaxRetries]_vars
============================================================================
