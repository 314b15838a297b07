--------------------------- MODULE SocketStreams ----------------------------
(***************************************************************************)
(* Sockets together with the packet ring, through which connected streams   *)
(* send and receive.                                                        *)
(***************************************************************************)
EXTENDS Sockets

CONSTANT MaxQueue

VARIABLES g_packets, g_head, g_tail, g_count

\* A packet is the connection of the descriptor that sent it, from 1.
Packets == 1 .. TcpMaxConns

INSTANCE PacketRing

ring == <<g_packets, g_head, g_tail, g_count>>
all == <<vars, ring>>

OnConnection(fd) ==
    fd \in OfType("STREAM") /\ fds[fd].connected /\ fds[fd].conn # NoConnId

\* send or write on a connection
SendStream(fd) ==
    /\ OnConnection(fd)
    /\ EnqueuePacket(fds[fd].conn + 1)
    /\ UNCHANGED vars

\* recv or read on a connection
RecvStream(fd) ==
    /\ OnConnection(fd)
    /\ DequeuePacket
    /\ UNCHANGED vars

\* A later kernel_entry, for the ring
RingReset ==
    /\ g_packets' = [i \in Places |-> NoPacket]
    /\ g_head' = 0 /\ g_tail' = 0 /\ g_count' = 0

StreamsNext ==
    \/ Calls /\ UNCHANGED ring
    \/ Reset /\ RingReset
    \/ \E fd \in Fds : SendStream(fd) \/ RecvStream(fd)

StreamsSpec == Init /\ RingInit /\ [][StreamsNext]_all

\* What the design says of the sockets ("per-socket RX/TX buffers (4 KB ring
\* each)"): a receive on a connection takes what was sent on that connection.
\* qos_net_dequeue_packet takes the oldest packet of any.
StreamsApart ==
    [][\A fd \in Fds : RecvStream(fd) => g_packets[g_head] = fds[fd].conn + 1]_all
============================================================================
