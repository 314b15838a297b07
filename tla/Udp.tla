-------------------------------- MODULE Udp ---------------------------------
(***************************************************************************)
(* The UDP part of c-os/kernel/net/net.c: the bound ports and one table of  *)
(* datagrams for all of them, filled from the end and searched from the     *)
(* start.                                                                   *)
(*                                                                         *)
(* A slot of g_udp_ports is only searched for its port, so the table is the *)
(* set of bound ports.  g_udp_datagrams is the part of the array below      *)
(* g_udp_count; a cleared entry inside it is a Hole.  A datagram's sender   *)
(* and bytes are one datum.  Calls that are rejected (a bound or a low      *)
(* port, no room, nothing to receive, a buffer shorter than the datagram)   *)
(* and sends that leave the machine change nothing and are no steps.        *)
(***************************************************************************)
EXTENDS Naturals, Sequences, FiniteSetsExt, Ranks

CONSTANTS Ports,             \* the port numbers callers use, without 0
          PortMin,           \* QOS_NET_PORT_MIN_DYNAMIC
          UdpPortMax,        \* QOS_NET_UDP_PORT_MAX
          UdpMaxDatagrams,   \* QOS_NET_UDP_MAX_DATAGRAMS
          Data               \* what a datagram carries

VARIABLES g_udp_ports, g_udp_datagrams

udpVars == <<g_udp_ports, g_udp_datagrams>>

Hole == [dst_port |-> 0, data |-> 0]
Datagrams == [dst_port : Ports, data : Data]

UdpInit == g_udp_ports = {} /\ g_udp_datagrams = <<>>
----------------------------------------------------------------------------
UdpMayBind(port) ==
    /\ port >= PortMin
    /\ port \notin g_udp_ports
    /\ Cardinality(g_udp_ports) < UdpPortMax

\* qos_net_udp_bind
UdpBind(port) ==
    /\ UdpMayBind(port)
    /\ g_udp_ports' = g_udp_ports \cup {port}
    /\ UNCHANGED g_udp_datagrams

\* The places udp_drop_port_datagrams keeps: the cleared entries are among them.
Kept(port) == {i \in DOMAIN g_udp_datagrams : g_udp_datagrams[i].dst_port # port}

\* Mutant: the table is compacted but its end is not cleared.
DropDatagramsNoClear(port) ==
    [i \in DOMAIN g_udp_datagrams |->
        g_udp_datagrams[IF i <= Cardinality(Kept(port)) THEN Nth(Kept(port), i) ELSE i]]

\* udp_drop_port_datagrams: what is left moves to the front and the rest is
\* cleared.  g_udp_count ends where it was: the cleared entries stay in the
\* table until qos_net_reset.
DropDatagrams(port) ==
    [i \in DOMAIN g_udp_datagrams |->
        IF i <= Cardinality(Kept(port)) THEN g_udp_datagrams[Nth(Kept(port), i)] ELSE Hole]

\* qos_net_udp_unbind
UdpUnbind(port) ==
    /\ port \in g_udp_ports
    /\ g_udp_ports' = g_udp_ports \ {port}
    /\ g_udp_datagrams' = DropDatagrams(port)

UdpMaySend(port) ==
    port \in g_udp_ports /\ Len(g_udp_datagrams) < UdpMaxDatagrams

\* qos_net_udp_send to a port of this machine
UdpSend(port, data) ==
    /\ UdpMaySend(port)
    /\ g_udp_datagrams' = Append(g_udp_datagrams, [dst_port |-> port, data |-> data])
    /\ UNCHANGED g_udp_ports

For(port) == {i \in DOMAIN g_udp_datagrams : g_udp_datagrams[i].dst_port = port}

\* The entries behind place i move up by one.
MovedUp(i) ==
    [j \in 1 .. Len(g_udp_datagrams) - 1 |-> g_udp_datagrams[IF j < i THEN j ELSE j + 1]]

\* qos_net_udp_recv: the first datagram for the port is handed out, and the
\* ones behind it move up.
UdpRecv(port) ==
    /\ For(port) # {}
    /\ g_udp_datagrams' = MovedUp(Min(For(port)))
    /\ UNCHANGED g_udp_ports
----------------------------------------------------------------------------
UdpNext ==
    \E port \in Ports :
        \/ UdpBind(port)
        \/ UdpUnbind(port)
        \/ UdpRecv(port)
        \/ \E data \in Data : UdpSend(port, data)

UdpTypeOK ==
    /\ g_udp_ports \subseteq Ports
    /\ Cardinality(g_udp_ports) <= UdpPortMax
    /\ g_udp_datagrams \in Seq(Datagrams \cup {Hole})
    /\ Len(g_udp_datagrams) <= UdpMaxDatagrams

\* The datagrams that wait for a port, oldest first.
Inbox(port) ==
    [n \in 1 .. Cardinality(For(port)) |-> g_udp_datagrams[Nth(For(port), n)].data]
============================================================================
