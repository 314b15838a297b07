----------------------------- MODULE NetService -----------------------------
(***************************************************************************)
(* What the network core promises its callers, without tables, rings or     *)
(* slots: a mailbox per open UDP port that starts empty and delivers in the *)
(* order of the sends, a first-in-first-out packet queue, and an address    *)
(* cache that gives the last answer until its time is over.                 *)
(***************************************************************************)
EXTENDS Naturals, Sequences

CONSTANTS Ports, Data, Packets, Ips, Macs, Ttls

VARIABLES inbox,   \* per port: the data waiting there
          open,    \* the open ports
          queue,   \* the packets waiting
          cache    \* per address: the last answer and its remaining time

serviceVars == <<inbox, open, queue, cache>>

Unknown == [mac |-> 0, left |-> 0]

ServiceInit ==
    /\ inbox = [port \in Ports |-> <<>>]
    /\ open = {}
    /\ queue = <<>>
    /\ cache = [ip \in Ips |-> Unknown]

Open(port) ==
    /\ port \notin open
    /\ inbox[port] = <<>>
    /\ open' = open \cup {port}
    /\ UNCHANGED <<inbox, queue, cache>>

Close(port) ==
    /\ port \in open
    /\ open' = open \ {port}
    /\ inbox' = [inbox EXCEPT ![port] = <<>>]
    /\ UNCHANGED <<queue, cache>>

Deliver(port, data) ==
    /\ port \in open
    /\ inbox' = [inbox EXCEPT ![port] = Append(@, data)]
    /\ UNCHANGED <<open, queue, cache>>

Receive(port) ==
    /\ inbox[port] # <<>>
    /\ inbox' = [inbox EXCEPT ![port] = Tail(@)]
    /\ UNCHANGED <<open, queue, cache>>

Enqueue(packet) ==
    /\ queue' = Append(queue, packet)
    /\ UNCHANGED <<inbox, open, cache>>

Dequeue ==
    /\ queue # <<>>
    /\ queue' = Tail(queue)
    /\ UNCHANGED <<inbox, open, cache>>

Learn(ip, mac, ttl) ==
    /\ cache' = [cache EXCEPT ![ip] = [mac |-> mac, left |-> ttl]]
    /\ UNCHANGED <<inbox, open, queue>>

Age(elapsed) ==
    /\ cache' = [ip \in Ips |->
                    IF cache[ip].left <= elapsed
                    THEN Unknown
                    ELSE [cache[ip] EXCEPT !.left = @ - elapsed]]
    /\ UNCHANGED <<inbox, open, queue>>

Restart ==
    /\ inbox' = [port \in Ports |-> <<>>]
    /\ open' = {}
    /\ queue' = <<>>
    /\ cache' = [ip \in Ips |-> Unknown]

ServiceNext ==
    \/ \E port \in Ports : Open(port) \/ Close(port) \/ Receive(port)
    \/ \E port \in Ports, data \in Data : Deliver(port, data)
    \/ \E packet \in Packets : Enqueue(packet)
    \/ Dequeue
    \/ \E ip \in Ips, mac \in Macs, ttl \in Ttls : Learn(ip, mac, ttl)
    \/ \E elapsed \in Ttls : Age(elapsed)
    \/ Restart

Service == ServiceInit /\ [][ServiceNext]_serviceVars
============================================================================
