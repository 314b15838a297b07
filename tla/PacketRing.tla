----------------------------- MODULE PacketRing -----------------------------
(***************************************************************************)
(* The one packet ring of c-os/kernel/net/net.c.  A packet is a datum; its  *)
(* length only matters to calls that are rejected.                          *)
(***************************************************************************)
EXTENDS Naturals, Sequences

CONSTANTS Packets,     \* what is sent
          MaxQueue     \* QOS_NET_MAX_QUEUE

VARIABLES g_packets, g_head, g_tail, g_count

ringVars == <<g_packets, g_head, g_tail, g_count>>

Places == 0 .. MaxQueue - 1
NoPacket == 0

RingInit ==
    /\ g_packets = [i \in Places |-> NoPacket]
    /\ g_head = 0 /\ g_tail = 0 /\ g_count = 0

\* qos_net_enqueue_packet
EnqueuePacket(packet) ==
    /\ g_count < MaxQueue
    /\ g_packets' = [g_packets EXCEPT ![g_tail] = packet]
    /\ g_tail' = (g_tail + 1) % MaxQueue
    /\ g_count' = g_count + 1
    /\ UNCHANGED g_head

\* qos_net_dequeue_packet: the bytes stay in the slot.
DequeuePacket ==
    /\ g_count > 0
    /\ g_head' = (g_head + 1) % MaxQueue
    /\ g_count' = g_count - 1
    /\ UNCHANGED <<g_packets, g_tail>>

\* The packets that wait, in the order in which they will leave.
Waiting == [i \in 1 .. g_count |-> g_packets[(g_head + i - 1) % MaxQueue]]

RingNext == DequeuePacket \/ \E packet \in Packets : EnqueuePacket(packet)

RingTypeOK ==
    /\ g_packets \in [Places -> Packets \cup {NoPacket}]
    /\ g_head \in Places /\ g_tail \in Places
    /\ g_count \in 0 .. MaxQueue
============================================================================
