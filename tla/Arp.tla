-------------------------------- MODULE Arp ---------------------------------
(***************************************************************************)
(* The ARP cache of c-os/kernel/net/net.c.  The table keeps its slots,      *)
(* because a lookup takes the first entry of an address and a put the first *)
(* free slot.                                                               *)
(***************************************************************************)
EXTENDS Naturals, FiniteSetsExt

CONSTANTS Ips, Macs,   \* addresses, without 0
          Ttls,        \* lifetimes given to arp_put, and steps of arp_tick
          ArpMax       \* QOS_NET_ARP_MAX

VARIABLE g_arp

ArpSlots == 0 .. ArpMax - 1

NoArp == [ip |-> 0, mac |-> 0, ttl_secs |-> 0]
ArpEntries == [ip : Ips, mac : Macs, ttl_secs : Nat \ {0}]

ArpInit == g_arp = [i \in ArpSlots |-> NoArp]
----------------------------------------------------------------------------
EntriesOf(ip) == {i \in ArpSlots : g_arp[i].ip = ip}

\* The slots arp_put may take: the entry of the address, else a free one.
ArpSlotFor(ip) == IF EntriesOf(ip) # {} THEN EntriesOf(ip) ELSE EntriesOf(0)

\* qos_net_arp_put
ArpPut(ip, mac, ttl) ==
    /\ ArpSlotFor(ip) # {}
    /\ g_arp' = [g_arp EXCEPT ![Min(ArpSlotFor(ip))] =
                    [ip |-> ip, mac |-> mac, ttl_secs |-> ttl]]

\* qos_net_arp_tick on one entry; a free one is not touched.
Aged(entry, elapsed) ==
    IF entry.ttl_secs <= elapsed
    THEN NoArp
    ELSE [entry EXCEPT !.ttl_secs = @ - elapsed]

\* qos_net_arp_tick
ArpTick(elapsed) ==
    /\ EntriesOf(0) # ArpSlots
    /\ g_arp' = [i \in ArpSlots |-> Aged(g_arp[i], elapsed)]

\* qos_net_arp_lookup, with the time the answer is still good for.
ArpLookup(ip) ==
    IF EntriesOf(ip) = {}
    THEN [mac |-> 0, left |-> 0]
    ELSE LET entry == g_arp[Min(EntriesOf(ip))]
         IN  [mac |-> entry.mac, left |-> entry.ttl_secs]
----------------------------------------------------------------------------
ArpNext ==
    \/ \E ip \in Ips, mac \in Macs, ttl \in Ttls : ArpPut(ip, mac, ttl)
    \/ \E elapsed \in Ttls : ArpTick(elapsed)

ArpTypeOK == g_arp \in [ArpSlots -> ArpEntries \cup {NoArp}]
============================================================================
