---------------------------- MODULE SocketsProofs ----------------------------
(***************************************************************************)
(* Proofs about sockets, for every size of the tables and every choice of   *)
(* ports and backlogs.                                                      *)
(*                                                                         *)
(* The first part shows that the tables agree.  Every call either lets one  *)
(* descriptor keep what it has and take more (TakeStep), or clears a        *)
(* descriptor and fills it with nothing or with a copy of another one       *)
(* (ReplaceStep).                                                           *)
(*                                                                         *)
(* The second part is about the connections that descriptors and accept     *)
(* queues name.  Connection slots are never given back, so an id that is in *)
(* use keeps its meaning; connect takes an id that nobody can hold yet, and *)
(* accept moves one from a queue to a descriptor.  The last lemmas show     *)
(* that the tables of net.c do not overflow and hold nothing for a port     *)
(* nobody has bound.                                                        *)
(***************************************************************************)
EXTENDS Sockets, SlotLemmas

Queued == [rport : Ports, conn : ConnIds]
Socks == [type : SockTypes \cup {"none"}, bound : BOOLEAN, listening : BOOLEAN,
          connected : BOOLEAN, lport : Ports \cup {0}, rport : Ports \cup {0},
          conn : ConnIds \cup {NoConnId}, backlog : 0 .. PendingMax, pending : Seq(Queued)]
Tables == {"STREAM", "DGRAM"}

\* What holds of every descriptor by itself: it is bound when it has a port, and
\* only bound streams listen.
Sound(s) ==
    /\ s.bound <=> s.lport # 0
    /\ s.type = "none" => ~ s.bound
    /\ s.listening => s.type = "STREAM" /\ s.bound

Has(fd, type, port) == fds[fd].type = type /\ fds[fd].bound /\ fds[fd].lport = port
Listens(fd, port) == fds[fd].listening /\ fds[fd].lport = port

\* The inductive invariant: the descriptors are sound, and a table has a port
\* exactly when a descriptor has it.
SocketsInv ==
    /\ fds \in [Fds -> Socks]
    /\ \A fd \in Fds : Sound(fds[fd])
    /\ ports \in [Tables -> SUBSET Ports]
    /\ g_udp_ports \subseteq Ports /\ g_tcp_listeners \subseteq Ports
    /\ \A type \in Tables, port \in Ports :
          port \in ports[type] <=> \E fd \in Fds : Has(fd, type, port)
    /\ \A port \in Ports : port \in g_udp_ports <=> \E fd \in Fds : Has(fd, "DGRAM", port)
    /\ \A port \in Ports : port \in g_tcp_listeners <=> \E fd \in Fds : Listens(fd, port)

\* SocketsInv implies what the runs check.
LEMMA SocketsInvMeans == SocketsInv => PortsAgree /\ ListenersAgree
<1> SUFFICES ASSUME SocketsInv PROVE PortsAgree /\ ListenersAgree
  OBVIOUS
<1>1. \A fd \in Fds : fds[fd].lport \in Ports \cup {0} /\ Sound(fds[fd])
  BY DEF SocketsInv, Socks
<1>2. \A type \in Tables : ports[type] = LocalPorts(type)
  <2> TAKE type \in Tables
  <2>1. \A port \in LocalPorts(type) : port \in Ports /\ \E fd \in Fds : Has(fd, type, port)
    BY <1>1 DEF LocalPorts, OfType, Has, Sound
  <2>2. \A port \in Ports : (\E fd \in Fds : Has(fd, type, port)) => port \in LocalPorts(type)
    BY DEF LocalPorts, OfType, Has
  <2>3. ports[type] \subseteq Ports
    BY DEF SocketsInv
  <2> QED BY <2>1, <2>2, <2>3, Zenon DEF SocketsInv
<1>3. g_udp_ports = ports["DGRAM"]
  BY DEF SocketsInv, Tables
<1>4. ListenersAgree
  <2> DEFINE L == {fds[fd].lport : fd \in {i \in OfType("STREAM") : fds[i].listening}}
  <2>1. \A port \in L : port \in Ports /\ \E fd \in Fds : Listens(fd, port)
    BY <1>1 DEF OfType, Listens, Sound
  <2>2. \A port \in Ports : (\E fd \in Fds : Listens(fd, port)) => port \in L
    BY <1>1 DEF OfType, Listens, Sound
  <2>3. g_tcp_listeners = L
    BY <2>1, <2>2 DEF SocketsInv
  <2> QED BY <2>3, <1>1 DEF ListenersAgree, Sound
<1> QED BY <1>2, <1>3, <1>4 DEF PortsAgree, Tables

\* A cleared descriptor has nothing.
LEMMA ClearedSock == Cleared \in Socks /\ Sound(Cleared) /\ Cleared.type = "none"
<1>1. 0 \in 0 .. PendingMax /\ <<>> \in Seq(Queued)
  BY SocketsAssumption
<1> QED BY <1>1 DEF Cleared, Socks, Sound

\* The tables start empty.
LEMMA SocketsInvInit == Init => SocketsInv
<1> SUFFICES ASSUME Init PROVE SocketsInv
  OBVIOUS
<1>1. Cleared.bound = FALSE /\ Cleared.listening = FALSE
  BY DEF Cleared
<1> QED
  BY <1>1, ClearedSock DEF Init, UdpInit, TcpInit, SocketsInv, Has, Listens, Tables
----------------------------------------------------------------------------
\* A descriptor keeps its port and its listener and takes more, and the tables
\* get just what it takes.
LEMMA TakeStep ==
    ASSUME SocketsInv, NEW fd \in Fds,
           fds' \in [Fds -> Socks], Sound(fds'[fd]),
           \A i \in Fds \ {fd} :
              /\ fds'[i].type = fds[i].type /\ fds'[i].bound = fds[i].bound
              /\ fds'[i].lport = fds[i].lport /\ fds'[i].listening = fds[i].listening,
           fds[fd].bound => /\ fds'[fd].type = fds[fd].type /\ fds'[fd].bound
                            /\ fds'[fd].lport = fds[fd].lport,
           fds[fd].listening => fds'[fd].listening,
           ports' \in [Tables -> SUBSET Ports],
           g_udp_ports' \subseteq Ports, g_tcp_listeners' \subseteq Ports,
           \A type \in Tables, port \in Ports :
              port \in ports'[type] <=> port \in ports[type] \/ Has(fd, type, port)',
           \A port \in Ports :
              port \in g_udp_ports' <=> port \in g_udp_ports \/ Has(fd, "DGRAM", port)',
           \A port \in Ports :
              port \in g_tcp_listeners' <=> port \in g_tcp_listeners \/ Listens(fd, port)'
    PROVE  SocketsInv'
<1>1. \A i \in Fds : Sound(fds'[i])
  BY DEF SocketsInv, Sound
<1>2. \A i \in Fds \ {fd} : \A type, port :
         Has(i, type, port)' <=> Has(i, type, port)
  BY DEF Has
<1>3. \A type, port : Has(fd, type, port) => Has(fd, type, port)'
  BY DEF Has
<1>4. \A i \in Fds \ {fd} : \A port : Listens(i, port)' <=> Listens(i, port)
  BY DEF Listens
<1>5. \A port : Listens(fd, port) => Listens(fd, port)'
  BY DEF Listens, SocketsInv, Sound
<1>6. \A type \in Tables, port \in Ports :
         port \in ports'[type] <=> \E i \in Fds : Has(i, type, port)'
  BY <1>2, <1>3 DEF SocketsInv
<1>7. \A port \in Ports : port \in g_udp_ports' <=> \E i \in Fds : Has(i, "DGRAM", port)'
  BY <1>2, <1>3 DEF SocketsInv
<1>8. \A port \in Ports : port \in g_tcp_listeners' <=> \E i \in Fds : Listens(i, port)'
  BY <1>4, <1>5 DEF SocketsInv
<1> QED BY <1>1, <1>6, <1>7, <1>8 DEF SocketsInv

\* The free descriptor that socket and accept fill in.
LEMMA FreeFd ==
    ASSUME SocketsInv, FreeFds # {}
    PROVE  /\ Min(FreeFds) \in Fds /\ fds[Min(FreeFds)].type = "none"
           /\ ~ fds[Min(FreeFds)].bound /\ ~ fds[Min(FreeFds)].listening
<1>1. FreeFds \subseteq Nat
  BY SocketsAssumption DEF FreeFds, Fds
<1>2. Min(FreeFds) \in FreeFds
  BY <1>1, MinIn, Zenon
<1> QED BY <1>2 DEF FreeFds, SocketsInv, Sound

\* socket takes nothing but the descriptor.
LEMMA SocketStep ==
    ASSUME SocketsInv, NEW type \in SockTypes, Socket(type)
    PROVE  SocketsInv'
<1> DEFINE fd == Min(FreeFds)
           new == [Cleared EXCEPT !.type = type]
<1>1. fd \in Fds /\ ~ fds[fd].bound /\ ~ fds[fd].listening
  BY FreeFd DEF Socket
<1>2. new \in Socks /\ Sound(new) /\ new.bound = FALSE /\ new.listening = FALSE
  BY ClearedSock, Zenon DEF Socks, Sound, Cleared, SockTypes
<1>3. fds' = [fds EXCEPT ![fd] = new] /\ UNCHANGED <<ports, g_udp_ports, g_tcp_listeners>>
  BY DEF Socket, udp, tcp
<1>4. PICK i \in Fds : i = fd
  BY <1>1
<1> HIDE DEF fd, new
<1>5. /\ fds' \in [Fds -> Socks] /\ fds'[i] = new
      /\ \A j \in Fds \ {i} : fds'[j] = fds[j]
  BY <1>2, <1>3, <1>4 DEF SocketsInv
<1>6. /\ \A t, port : ~ Has(i, t, port)'
      /\ \A port : ~ Listens(i, port)'
  BY <1>2, <1>5 DEF Has, Listens
<1> QED BY <1>1, <1>2, <1>3, <1>4, <1>5, <1>6, TakeStep DEF SocketsInv

\* A descriptor with a port, and perhaps a peer; the others stay.
Rebound(new, fd, port, rport, conn) ==
    /\ new \in [Fds -> Socks]
    /\ new[fd].type = fds[fd].type /\ new[fd].bound /\ new[fd].lport = port
    /\ new[fd].listening = fds[fd].listening /\ new[fd].pending = fds[fd].pending
    /\ new[fd].rport = rport /\ new[fd].conn = conn
    /\ \A i \in Fds \ {fd} : new[i] = fds[i]

\* What bind and send do to the descriptors.
LEMMA BoundToIs ==
    ASSUME SocketsInv, NEW fd \in Fds, NEW port \in Ports
    PROVE  Rebound(BoundTo(fd, port), fd, port, fds[fd].rport, fds[fd].conn)
<1> DEFINE r == [fds[fd] EXCEPT !.bound = TRUE, !.lport = port]
<1>1. fds[fd] \in Socks /\ fds \in [Fds -> Socks]
  BY DEF SocketsInv
<1>2. /\ r \in Socks /\ r.type = fds[fd].type /\ r.bound /\ r.lport = port
      /\ r.listening = fds[fd].listening /\ r.pending = fds[fd].pending
      /\ r.rport = fds[fd].rport /\ r.conn = fds[fd].conn
  BY <1>1, Zenon DEF Socks
<1> HIDE DEF r
<1>3. BoundTo(fd, port) = [fds EXCEPT ![fd] = r]
  BY DEF BoundTo, r
<1> QED BY <1>1, <1>2, <1>3 DEF Rebound

\* The same for connect.
LEMMA JoinedIs ==
    ASSUME SocketsInv, NEW fd \in Fds, NEW port \in Ports, NEW rport \in Ports \cup {0},
           NEW conn \in ConnIds \cup {NoConnId}
    PROVE  Rebound(Joined(fd, port, rport, conn), fd, port, rport, conn)
<1> DEFINE r == [fds[fd] EXCEPT !.bound = TRUE, !.connected = TRUE, !.lport = port,
                                !.rport = rport, !.conn = conn]
<1>1. fds[fd] \in Socks /\ fds \in [Fds -> Socks]
  BY DEF SocketsInv
<1>2. /\ r \in Socks /\ r.type = fds[fd].type /\ r.bound /\ r.lport = port
      /\ r.listening = fds[fd].listening /\ r.pending = fds[fd].pending
      /\ r.rport = rport /\ r.conn = conn
  BY <1>1, Zenon DEF Socks
<1> HIDE DEF r
<1>3. Joined(fd, port, rport, conn) = [fds EXCEPT ![fd] = r]
  BY DEF Joined, r
<1> QED BY <1>1, <1>2, <1>3 DEF Rebound

\* A descriptor that is bound to the port it has, or to one that is new to it,
\* and whose listening does not change, keeps the tables in step.
LEMMA BoundStep ==
    ASSUME SocketsInv, NEW fd \in Fds, NEW port \in Ports,
           fds[fd].type \in SockTypes, fds[fd].lport # 0 => fds[fd].lport = port,
           fds' \in [Fds -> Socks],
           fds'[fd].type = fds[fd].type, fds'[fd].bound, fds'[fd].lport = port,
           fds'[fd].listening = fds[fd].listening,
           \A i \in Fds \ {fd} :
              /\ fds'[i].type = fds[i].type /\ fds'[i].bound = fds[i].bound
              /\ fds'[i].lport = fds[i].lport /\ fds'[i].listening = fds[i].listening,
           fds[fd].type \in Tables => ports' = Marked(fds[fd].type, port),
           fds[fd].type = "RAW" => ports' = ports,
           g_udp_ports' = IF fds[fd].type = "DGRAM" THEN g_udp_ports \cup {port} ELSE g_udp_ports,
           g_tcp_listeners' = g_tcp_listeners
    PROVE  SocketsInv'
<1>1. port # 0 /\ fds[fd].type \in {"STREAM", "DGRAM", "RAW"}
  BY SocketsAssumption DEF SockTypes
<1>2. fds[fd].bound => fds[fd].lport = port
  BY DEF SocketsInv, Sound
<1>3. Sound(fds'[fd])
  BY <1>1, <1>2 DEF SocketsInv, Sound
<1>4. \A t, p : Has(fd, t, p)' <=> t = fds[fd].type /\ p = port
  BY DEF Has
<1>5. \A p \in Ports : Listens(fd, p)' => p \in g_tcp_listeners
  BY <1>2, Zenon DEF Listens, SocketsInv, Sound
<1>6. /\ ports' \in [Tables -> SUBSET Ports]
      /\ \A t \in Tables, p \in Ports :
            p \in ports'[t] <=> p \in ports[t] \/ (t = fds[fd].type /\ p = port)
  BY <1>1 DEF SocketsInv, Marked, Tables
<1>7. /\ g_udp_ports' \subseteq Ports /\ g_tcp_listeners' \subseteq Ports
      /\ \A p \in Ports : p \in g_udp_ports' <=> p \in g_udp_ports \/ Has(fd, "DGRAM", p)'
  BY <1>4 DEF SocketsInv
<1> QED BY <1>2, <1>3, <1>4, <1>5, <1>6, <1>7, TakeStep DEF SocketsInv

\* The port a connect or a send uses is a port, and the one it has if any.
LEMMA LocalPortIs ==
    ASSUME SocketsInv, NEW fd \in Fds, HasLocalPort(fd)
    PROVE  LocalPort(fd) \in Ports /\ (fds[fd].lport # 0 => LocalPort(fd) = fds[fd].lport)
<1>1. fds[fd].lport \in Ports \cup {0}
  BY DEF SocketsInv, Socks
<1>2. ASSUME fds[fd].lport = 0 PROVE AllocPort(fds[fd].type) \in Ports
  <2> DEFINE all == MayAlloc(fds[fd].type)
             high == {port \in all : port >= EphemeralMin}
  <2>1. all # {} /\ all \subseteq Ports /\ all \subseteq Nat
    BY <1>2, SocketsAssumption, Zenon DEF HasLocalPort, MayAlloc
  <2> DEFINE some == IF high # {} THEN high ELSE all
  <2>2. some # {} /\ some \subseteq Ports /\ some \subseteq Nat
    BY <2>1
  <2>3. Min(some) \in Ports
    <3> HIDE DEF some
    <3> QED BY <2>2, MinIn, Zenon
  <2> QED BY <2>3 DEF AllocPort
<1> QED BY <1>1, <1>2 DEF LocalPort

\* bind
LEMMA BindStep ==
    ASSUME SocketsInv, NEW fd \in Fds, NEW port \in Ports,
           BindRaw(fd, port) \/ BindStream(fd, port) \/ BindDgram(fd, port)
    PROVE  SocketsInv'
<1>1. Sound(fds[fd])
  BY DEF SocketsInv
<1>2. fds' = BoundTo(fd, port) /\ g_tcp_listeners' = g_tcp_listeners /\ ~ fds[fd].bound
  BY DEF BindRaw, BindStream, BindDgram, tcp
<1>3. Rebound(fds', fd, port, fds[fd].rport, fds[fd].conn)
  BY <1>2, BoundToIs
<1>4. fds[fd].lport = 0
  BY <1>1, <1>2 DEF Sound
<1>5. CASE BindRaw(fd, port)
  <2>1. fds[fd].type = "RAW" /\ ports' = ports /\ g_udp_ports' = g_udp_ports
    BY <1>5 DEF BindRaw, OfType, udp
  <2> QED BY <2>1, <1>2, <1>3, <1>4, BoundStep DEF SockTypes, Tables, Rebound
<1>6. CASE BindStream(fd, port)
  <2>1. fds[fd].type = "STREAM" /\ ports' = Marked("STREAM", port) /\ g_udp_ports' = g_udp_ports
    BY <1>6 DEF BindStream, OfType, udp
  <2> QED BY <2>1, <1>2, <1>3, <1>4, BoundStep DEF SockTypes, Tables, Rebound
<1>7. CASE BindDgram(fd, port)
  <2>1. /\ fds[fd].type = "DGRAM" /\ ports' = Marked("DGRAM", port)
        /\ g_udp_ports' = g_udp_ports \cup {port}
    BY <1>7 DEF BindDgram, OfType, UdpBind
  <2> QED BY <2>1, <1>2, <1>3, <1>4, BoundStep DEF SockTypes, Tables, Rebound
<1> QED BY <1>5, <1>6, <1>7

\* connect of a stream without a listener here, of a datagram and of a raw
\* socket, and send of a datagram.
LEMMA ConnectStep ==
    ASSUME SocketsInv, NEW fd \in Fds, NEW rport \in Ports,
           \/ ConnectGateway(fd, rport) \/ ConnectDgram(fd, rport)
           \/ SendDgram(fd, rport) \/ ConnectRaw(fd)
    PROVE  SocketsInv'
<1>1. fds[fd] \in Socks
  BY DEF SocketsInv
<1>2. fds[fd].conn \in ConnIds \cup {NoConnId} /\ fds[fd].lport \in Ports \cup {0}
  BY <1>1 DEF Socks
<1>3. CASE ConnectGateway(fd, rport)
  <2>1. LocalPort(fd) \in Ports /\ (fds[fd].lport # 0 => LocalPort(fd) = fds[fd].lport)
    BY <1>3, LocalPortIs DEF ConnectGateway
  <2>2. /\ fds[fd].type = "STREAM" /\ ports' = Marked("STREAM", LocalPort(fd))
        /\ g_udp_ports' = g_udp_ports /\ g_tcp_listeners' = g_tcp_listeners
    BY <1>3 DEF ConnectGateway, OfType, udp, tcp
  <2>3. Rebound(fds', fd, LocalPort(fd), 0, NoConnId)
    BY <1>3, <2>1, JoinedIs DEF ConnectGateway
  <2> QED BY <2>1, <2>2, <2>3, BoundStep DEF Rebound, SockTypes, Tables
<1>4. CASE ConnectDgram(fd, rport)
  <2>1. LocalPort(fd) \in Ports /\ (fds[fd].lport # 0 => LocalPort(fd) = fds[fd].lport)
    BY <1>4, LocalPortIs DEF ConnectDgram
  <2>2. /\ fds[fd].type = "DGRAM" /\ ports' = Marked("DGRAM", LocalPort(fd))
        /\ g_udp_ports' = g_udp_ports \cup {LocalPort(fd)} /\ g_tcp_listeners' = g_tcp_listeners
    BY <1>4 DEF ConnectDgram, OfType, tcp
  <2>3. Rebound(fds', fd, LocalPort(fd), rport, fds[fd].conn)
    BY <1>2, <1>4, <2>1, JoinedIs DEF ConnectDgram
  <2> QED BY <2>1, <2>2, <2>3, BoundStep DEF Rebound, SockTypes, Tables
<1>5. CASE SendDgram(fd, rport)
  <2>1. LocalPort(fd) \in Ports /\ (fds[fd].lport # 0 => LocalPort(fd) = fds[fd].lport)
    BY <1>5, LocalPortIs DEF SendDgram
  <2>2. /\ fds[fd].type = "DGRAM" /\ ports' = Marked("DGRAM", LocalPort(fd))
        /\ g_udp_ports' = g_udp_ports \cup {LocalPort(fd)} /\ g_tcp_listeners' = g_tcp_listeners
    BY <1>5 DEF SendDgram, OfType, tcp
  <2>3. Rebound(fds', fd, LocalPort(fd), fds[fd].rport, fds[fd].conn)
    BY <1>5, <2>1, BoundToIs DEF SendDgram
  <2> QED BY <2>1, <2>2, <2>3, BoundStep DEF Rebound, SockTypes, Tables
<1>6. CASE ConnectRaw(fd)
  <2> DEFINE port == IF fds[fd].lport = 0 THEN 1 ELSE fds[fd].lport
  <2>1. port \in Ports /\ (fds[fd].lport # 0 => port = fds[fd].lport)
    BY <1>2, SocketsAssumption
  <2>2. /\ fds[fd].type = "RAW" /\ ports' = ports
        /\ g_udp_ports' = g_udp_ports /\ g_tcp_listeners' = g_tcp_listeners
        /\ fds' = Joined(fd, port, 0, NoConnId)
    BY <1>6 DEF ConnectRaw, OfType, udp, tcp
  <2> HIDE DEF port
  <2>3. Rebound(fds', fd, port, 0, NoConnId)
    BY <2>1, <2>2, JoinedIs
  <2> QED BY <2>1, <2>2, <2>3, BoundStep DEF Rebound, SockTypes, Tables
<1> QED BY <1>3, <1>4, <1>5, <1>6

\* The slot of a new connection.
LEMMA NewConn == ASSUME Unused # {} PROVE Min(Unused) \in Unused /\ Min(Unused) \in ConnIds
<1>1. Unused \subseteq Nat
  BY SocketsAssumption DEF Unused, ConnIds
<1> QED BY <1>1, MinIn DEF Unused

\* The listener connect finds.
LEMMA FoundListener ==
    ASSUME SocketsInv, NEW fd \in Fds, NEW rport, Listeners(fd, rport) # {}
    PROVE  /\ Min(Listeners(fd, rport)) \in Fds \ {fd}
           /\ fds[Min(Listeners(fd, rport))].listening
           /\ fds[Min(Listeners(fd, rport))].lport = rport
<1>1. Listeners(fd, rport) \subseteq Nat
  BY SocketsAssumption DEF Listeners, OfType, Fds
<1>2. Min(Listeners(fd, rport)) \in Listeners(fd, rport)
  BY <1>1, MinIn
<1> QED BY <1>2 DEF Listeners, OfType

\* What is the same of a descriptor before and after, apart from its queue.
SameButQueue(new, old) ==
    /\ new.type = old.type /\ new.bound = old.bound /\ new.lport = old.lport
    /\ new.listening = old.listening /\ new.rport = old.rport /\ new.conn = old.conn

\* What connect to the listener l with the connection id leaves.
LinkedTo(fd, rport, l, id, port) ==
    /\ ~ g_tcp_conns[id].used
    /\ g_tcp_conns' = [g_tcp_conns EXCEPT
                          ![id] = [Opened(port, rport) EXCEPT !.state = "ESTABLISHED"]]
    /\ fds[l].listening /\ fds[l].lport = rport
    /\ fds[fd].lport # 0 => port = fds[fd].lport
    /\ ports' = Marked("STREAM", port)
    /\ fds' \in [Fds -> Socks]
    /\ fds'[fd].type = fds[fd].type /\ fds'[fd].bound /\ fds'[fd].lport = port
    /\ fds'[fd].listening = fds[fd].listening /\ fds'[fd].pending = fds[fd].pending
    /\ fds'[fd].rport = rport /\ fds'[fd].conn = id
    /\ SameButQueue(fds'[l], fds[l])
    /\ fds'[l].pending = Append(fds[l].pending, [rport |-> port, conn |-> id])
    /\ \A i \in Fds \ {fd, l} : fds'[i] = fds[i]

\* connect to a listener here.  A listener's backlog is at most PendingMax, so
\* the queue has room and the branch that would leave the descriptor with a port
\* that is not marked is never taken.
LEMMA ConnectLocalIs ==
    ASSUME SocketsInv, NEW fd \in Fds, NEW rport \in Ports, ConnectLocal(fd, rport)
    PROVE  \E l \in Fds \ {fd}, id \in ConnIds, port \in Ports : LinkedTo(fd, rport, l, id, port)
<1>1. PICK port \in Ports : port = LocalPort(fd) /\ (fds[fd].lport # 0 => port = fds[fd].lport)
  BY LocalPortIs DEF ConnectLocal
<1>2. PICK id \in ConnIds : id = Min(Unused) /\ ~ g_tcp_conns[id].used
  BY NewConn, Zenon DEF ConnectLocal, TcpMayConnect, Unused, Used
<1>3. PICK l \in Fds \ {fd} : /\ l = Min(Listeners(fd, rport))
                              /\ fds[l].listening /\ fds[l].lport = rport
  BY FoundListener DEF ConnectLocal
<1> DEFINE new == Joined(fd, port, rport, id)
           entry == [rport |-> port, conn |-> id]
           q == Append(fds[l].pending, entry)
           r == [fds[l] EXCEPT !.pending = q]
<1>4. fds[l] \in Socks /\ fds[l].pending \in Seq(Queued)
  BY DEF SocketsInv, Socks
<1>5. Len(fds[l].pending) < PendingMax
  <2>1. Len(fds[l].pending) < fds[l].backlog
    BY <1>3 DEF ConnectLocal
  <2>2. fds[l].backlog \in 0 .. PendingMax
    BY <1>4 DEF Socks
  <2>3. Len(fds[l].pending) \in Nat
    BY <1>4
  <2> QED BY <2>1, <2>2, <2>3, SocketsAssumption
<1>6. /\ fds' = [new EXCEPT ![l].pending = Append(@, entry)]
      /\ ports' = Marked("STREAM", port)
      /\ g_tcp_conns' = [g_tcp_conns EXCEPT
                            ![id] = [Opened(port, rport) EXCEPT !.state = "ESTABLISHED"]]
  BY <1>1, <1>2, <1>3, <1>5 DEF ConnectLocal
<1>7. Rebound(new, fd, port, rport, id)
  BY JoinedIs
<1>8. new[l] = fds[l]
  BY <1>7 DEF Rebound
<1>9. q \in Seq(Queued)
  BY <1>4 DEF Queued
<1> HIDE DEF new
<1>10. fds' = [new EXCEPT ![l] = r]
  BY <1>4, <1>6, <1>8
<1> HIDE DEF q
<1>11. r \in Socks /\ SameButQueue(r, fds[l]) /\ r.pending = q
  BY <1>4, <1>9 DEF Socks, SameButQueue
<1> HIDE DEF r
<1>12. /\ fds' \in [Fds -> Socks] /\ fds'[l] = r /\ fds'[fd] = new[fd]
       /\ \A i \in Fds \ {fd, l} : fds'[i] = fds[i]
  BY <1>7, <1>10, <1>11 DEF Rebound
<1>13. LinkedTo(fd, rport, l, id, port)
  BY <1>1, <1>2, <1>3, <1>6, <1>7, <1>11, <1>12, Zenon DEF LinkedTo, Rebound, q
<1> QED BY <1>13

\* It takes a port like any other connect.
LEMMA ConnectLocalStep ==
    ASSUME SocketsInv, NEW fd \in Fds, NEW rport \in Ports, ConnectLocal(fd, rport)
    PROVE  SocketsInv'
<1>1. PICK l \in Fds \ {fd}, id \in ConnIds, port \in Ports : LinkedTo(fd, rport, l, id, port)
  BY ConnectLocalIs
<1>2. /\ fds[fd].type = "STREAM" /\ g_udp_ports' = g_udp_ports
      /\ g_tcp_listeners' = g_tcp_listeners
  BY DEF ConnectLocal, OfType, udp
<1>3. \A i \in Fds \ {fd} :
         /\ fds'[i].type = fds[i].type /\ fds'[i].bound = fds[i].bound
         /\ fds'[i].lport = fds[i].lport /\ fds'[i].listening = fds[i].listening
  BY <1>1, Zenon DEF LinkedTo, SameButQueue
<1>4. /\ fds' \in [Fds -> Socks] /\ ports' = Marked("STREAM", port)
      /\ fds'[fd].type = fds[fd].type /\ fds'[fd].bound /\ fds'[fd].lport = port
      /\ fds'[fd].listening = fds[fd].listening
      /\ fds[fd].lport # 0 => port = fds[fd].lport
  BY <1>1 DEF LinkedTo
<1> QED BY <1>2, <1>3, <1>4, BoundStep DEF SockTypes, Tables

\* listen: the port is the one the descriptor has, the backlog is cut.
LEMMA ListenStep ==
    ASSUME SocketsInv, NEW fd \in Fds, NEW backlog \in Backlogs, Listen(fd, backlog)
    PROVE  SocketsInv'
<1> DEFINE b == Min({backlog, PendingMax})
           r == [fds[fd] EXCEPT !.listening = TRUE, !.backlog = b]
<1>1. /\ fds[fd] \in Socks /\ fds \in [Fds -> Socks] /\ Sound(fds[fd])
      /\ fds[fd].type = "STREAM" /\ fds[fd].bound
  BY DEF SocketsInv, Listen, OfType
<1>2. b \in 0 .. PendingMax
  BY SocketsAssumption DEF Min
<1> HIDE DEF b
<1>3. /\ r \in Socks /\ r.type = "STREAM" /\ r.bound /\ r.lport = fds[fd].lport /\ r.listening
  BY <1>1, <1>2, Zenon DEF Socks
<1>4. fds' = [fds EXCEPT ![fd] = r]
  BY DEF Listen, b
<1>5. /\ g_tcp_listeners' = g_tcp_listeners \cup {fds[fd].lport}
      /\ ports' = ports /\ g_udp_ports' = g_udp_ports
  BY DEF Listen, TcpListen, udp
<1> HIDE DEF r
<1>6. /\ fds' \in [Fds -> Socks] /\ fds'[fd] = r
      /\ \A i \in Fds \ {fd} : fds'[i] = fds[i]
  BY <1>1, <1>3, <1>4
<1>7. fds[fd].lport \in Ports
  BY <1>1 DEF Socks, Sound
<1>8. Sound(r)
  BY <1>1, <1>3 DEF Sound
<1>9. \A type, port : Has(fd, type, port)' <=> Has(fd, type, port)
  BY <1>1, <1>3, <1>6 DEF Has
<1>10. \A port : Listens(fd, port)' <=> port = fds[fd].lport
  BY <1>3, <1>6 DEF Listens
<1> QED
  BY <1>1, <1>3, <1>5, <1>6, <1>7, <1>8, <1>9, <1>10, TakeStep DEF SocketsInv

\* What accept of the listener fd leaves, in the free descriptor i.
TakenBy(fd, i) ==
    /\ ~ fds[i].bound /\ ~ fds[i].listening
    /\ fds[fd].listening /\ fds[fd].type = "STREAM" /\ fds[fd].bound
    /\ fds[fd].pending \in Seq(Queued) /\ fds[fd].pending # <<>>
    /\ fds' \in [Fds -> Socks]
    /\ SameButQueue(fds'[fd], fds[fd]) /\ fds'[fd].pending = Tail(fds[fd].pending)
    /\ fds'[i].type = "STREAM" /\ fds'[i].bound /\ fds'[i].lport = fds[fd].lport
    /\ ~ fds'[i].listening /\ fds'[i].pending = <<>>
    /\ fds'[i].rport = Head(fds[fd].pending).rport
    /\ fds'[i].conn = Head(fds[fd].pending).conn
    /\ \A j \in Fds \ {i, fd} : fds'[j] = fds[j]

\* accept takes the head of the queue.
LEMMA AcceptIs ==
    ASSUME SocketsInv, NEW fd \in Fds, Accept(fd)
    PROVE  \E i \in Fds \ {fd} : TakenBy(fd, i)
<1> DEFINE peer == Head(fds[fd].pending)
           r == [Cleared EXCEPT !.type = "STREAM", !.bound = TRUE,
                                !.connected = TRUE, !.lport = fds[fd].lport,
                                !.rport = peer.rport, !.conn = peer.conn]
           old == [fds[fd] EXCEPT !.pending = Tail(@)]
<1>1. /\ fds[fd] \in Socks /\ fds \in [Fds -> Socks] /\ Sound(fds[fd])
      /\ fds[fd].listening /\ fds[fd].type = "STREAM" /\ fds[fd].bound
      /\ fds[fd].pending # <<>>
  BY DEF SocketsInv, Accept, Sound
<1>2. PICK i \in Fds \ {fd} : i = Min(FreeFds) /\ ~ fds[i].bound /\ ~ fds[i].listening
  BY <1>1, FreeFd DEF Accept
<1>3. /\ peer \in Queued /\ Tail(fds[fd].pending) \in Seq(Queued)
      /\ fds[fd].pending \in Seq(Queued)
  <2>1. fds[fd].pending \in Seq(Queued) /\ fds[fd].pending # <<>>
    BY <1>1 DEF Socks
  <2> QED BY <2>1
<1>4. fds[fd].lport \in Ports
  BY <1>1 DEF Socks, Sound
<1>5. /\ r \in Socks /\ r.type = "STREAM" /\ r.bound = TRUE /\ r.listening = FALSE
      /\ r.lport = fds[fd].lport /\ r.pending = <<>>
      /\ r.rport = peer.rport /\ r.conn = peer.conn
  <2>1. peer.rport \in Ports /\ peer.conn \in ConnIds
    BY <1>3 DEF Queued
  <2> HIDE DEF peer
  <2> QED BY <1>4, <2>1, ClearedSock, Zenon DEF Socks, SockTypes, Cleared
<1>6. old \in Socks /\ SameButQueue(old, fds[fd]) /\ old.pending = Tail(fds[fd].pending)
  BY <1>1, <1>3, Zenon DEF Socks, SameButQueue
<1>7. fds' = [fds EXCEPT ![fd].pending = Tail(@), ![Min(FreeFds)] = r]
  BY DEF Accept
<1> HIDE DEF r
<1>8. /\ fds' \in [Fds -> Socks] /\ fds'[i] = r /\ fds'[fd] = old
      /\ \A j \in Fds \ {i, fd} : fds'[j] = fds[j]
  BY <1>1, <1>2, <1>5, <1>6, <1>7, Zenon
<1> HIDE DEF old
<1>9. TakenBy(fd, i)
  BY <1>1, <1>2, <1>3, <1>5, <1>6, <1>8 DEF TakenBy
<1> QED BY <1>9

\* The new descriptor shares the listener's port.
LEMMA AcceptStep == ASSUME SocketsInv, NEW fd \in Fds, Accept(fd) PROVE SocketsInv'
<1>1. PICK i \in Fds \ {fd} : TakenBy(fd, i)
  BY AcceptIs
<1>2. ports' = ports /\ g_udp_ports' = g_udp_ports /\ g_tcp_listeners' = g_tcp_listeners
  BY DEF Accept, udp, tcp
<1>3. Sound(fds[fd]) /\ fds[fd].lport # 0 /\ fds[fd].bound
  BY <1>1 DEF TakenBy, SocketsInv, Sound
<1>4. Sound(fds'[i])
  BY <1>1, <1>3 DEF TakenBy, Sound
<1>5. \A port : Has(i, "STREAM", port)' => Has(fd, "STREAM", port)
  BY <1>1 DEF TakenBy, Has
<1>6. \A port : ~ Has(i, "DGRAM", port)' /\ ~ Listens(i, port)'
  BY <1>1 DEF TakenBy, Has, Listens
<1>7. \A type \in Tables, port \in Ports : Has(i, type, port)' => port \in ports[type]
  BY <1>5, <1>6 DEF Tables, SocketsInv
<1>8. /\ fds' \in [Fds -> Socks] /\ ~ fds[i].bound /\ ~ fds[i].listening
      /\ \A j \in Fds \ {i} :
            /\ fds'[j].type = fds[j].type /\ fds'[j].bound = fds[j].bound
            /\ fds'[j].lport = fds[j].lport /\ fds'[j].listening = fds[j].listening
  BY <1>1, Zenon DEF TakenBy, SameButQueue
<1> QED
  BY <1>2, <1>4, <1>6, <1>7, <1>8, TakeStep DEF SocketsInv

\* Receiving a datagram changes no port.
LEMMA RecvDgramStep == ASSUME SocketsInv, NEW fd \in Fds, RecvDgram(fd) PROVE SocketsInv'
BY DEF RecvDgram, UdpRecv, tcp, SocketsInv, Has, Listens
----------------------------------------------------------------------------
\* A descriptor is cleared and filled again, with nothing or with a copy of
\* another one: the port and the listener that no other descriptor has go.
LEMMA ReplaceStep ==
    ASSUME SocketsInv, NEW fd \in Fds, NEW new \in Socks, Sound(new),
           GiveBack(fd), fds' = [fds EXCEPT ![fd] = new],
           new.bound => \E i \in Fds \ {fd} : Has(i, new.type, new.lport),
           new.listening => \E i \in Fds \ {fd} : Listens(i, new.lport)
    PROVE  SocketsInv'
<1> DEFINE s == fds[fd]
<1>1. s \in Socks /\ Sound(s)
  BY DEF SocketsInv
<1>2. /\ fds' \in [Fds -> Socks] /\ fds'[fd] = new
      /\ \A i \in Fds \ {fd} : fds'[i] = fds[i]
  BY DEF SocketsInv
<1>3. \A i \in Fds : Sound(fds'[i])
  BY <1>2 DEF SocketsInv
<1>4. \A type, port : (\E i \in Fds : Has(i, type, port)')
                      <=> \E i \in Fds \ {fd} : Has(i, type, port)
  <2>1. \A i \in Fds \ {fd} : \A type, port : Has(i, type, port)' <=> Has(i, type, port)
    BY <1>2 DEF Has
  <2>2. \A type, port : Has(fd, type, port)' => \E i \in Fds \ {fd} : Has(i, type, port)
    BY <1>2 DEF Has
  <2> QED BY <2>1, <2>2
<1>5. \A port : (\E i \in Fds : Listens(i, port)')
                <=> \E i \in Fds \ {fd} : Listens(i, port)
  <2>1. \A i \in Fds \ {fd} : \A port : Listens(i, port)' <=> Listens(i, port)
    BY <1>2 DEF Listens
  <2>2. \A port : Listens(fd, port)' => \E i \in Fds \ {fd} : Listens(i, port)
    BY <1>2 DEF Listens
  <2> QED BY <2>1, <2>2
<1>6. \A type, port : PortInUse(fd, port, type) <=> \E i \in Fds \ {fd} : Has(i, type, port)
  BY DEF PortInUse, OfType, Has
<1>7. \A port : ListenerInUse(fd, port) <=> \E i \in Fds \ {fd} : Listens(i, port)
  BY DEF ListenerInUse, OfType, Listens, SocketsInv, Sound
<1>8. DOMAIN ports = Tables
  BY DEF SocketsInv
<1>9. \A type \in Tables, port \in Ports :
         port \in ports'[type] <=> \E i \in Fds \ {fd} : Has(i, type, port)
  <2> DEFINE unmark == s.type \in Tables /\ s.bound /\ ~ PortInUse(fd, s.lport, s.type)
  <2>1. ports' = IF unmark THEN [ports EXCEPT ![s.type] = @ \ {s.lport}] ELSE ports
    BY <1>8 DEF GiveBack
  <2>2. \A type \in Tables, port \in Ports :
           port \in ports'[type] <=>
              port \in ports[type] /\ ~ (unmark /\ type = s.type /\ port = s.lport)
    <3> HIDE DEF s
    <3> QED BY <2>1 DEF SocketsInv
  <2>3. \A type, port : Has(fd, type, port) <=> s.type = type /\ s.bound /\ s.lport = port
    BY DEF Has
  <2> QED BY <2>2, <2>3, <1>6 DEF SocketsInv
<1>10. ports' \in [Tables -> SUBSET Ports]
  BY <1>8 DEF GiveBack, SocketsInv
<1>11. /\ g_tcp_listeners' \subseteq Ports
       /\ \A port \in Ports :
             port \in g_tcp_listeners' <=> \E i \in Fds \ {fd} : Listens(i, port)
  <2>1. g_tcp_listeners' = IF s.type = "STREAM" /\ s.listening /\ ~ ListenerInUse(fd, s.lport)
                           THEN g_tcp_listeners \ {s.lport} ELSE g_tcp_listeners
    BY DEF GiveBack
  <2>2. \A port : Listens(fd, port) <=> s.listening /\ s.lport = port
    BY DEF Listens
  <2> QED BY <1>1, <1>7, <2>1, <2>2 DEF SocketsInv, Sound
<1>12. /\ g_udp_ports' \subseteq Ports
       /\ \A port \in Ports :
             port \in g_udp_ports' <=> \E i \in Fds \ {fd} : Has(i, "DGRAM", port)
  <2>1. g_udp_ports' = IF /\ s.type \in Tables /\ s.bound
                          /\ ~ PortInUse(fd, s.lport, s.type) /\ s.type = "DGRAM"
                       THEN g_udp_ports \ {s.lport} ELSE g_udp_ports
    BY <1>8 DEF GiveBack, UdpUnbind, udp
  <2>2. \A port : Has(fd, "DGRAM", port) <=> s.type = "DGRAM" /\ s.bound /\ s.lport = port
    BY DEF Has
  <2> QED BY <1>6, <2>1, <2>2 DEF SocketsInv, Tables
<1> QED
  BY <1>2, <1>3, <1>4, <1>5, <1>9, <1>10, <1>11, <1>12 DEF SocketsInv

\* close leaves a cleared descriptor.
LEMMA CloseStep == ASSUME SocketsInv, NEW fd \in Fds, Close(fd) PROVE SocketsInv'
<1>1. ~ Cleared.bound /\ ~ Cleared.listening
  BY DEF Cleared
<1> QED BY <1>1, ClearedSock, ReplaceStep, Zenon DEF Close

\* dup2 leaves a copy of a descriptor that keeps what it has.
LEMMA Dup2Step ==
    ASSUME SocketsInv, NEW oldfd \in Fds, NEW newfd \in Fds, Dup2(oldfd, newfd)
    PROVE  SocketsInv'
<1>1. fds[oldfd] \in Socks /\ Sound(fds[oldfd]) /\ oldfd \in Fds \ {newfd}
  BY DEF SocketsInv, Dup2
<1>2. /\ fds[oldfd].bound => Has(oldfd, fds[oldfd].type, fds[oldfd].lport)
      /\ fds[oldfd].listening => Listens(oldfd, fds[oldfd].lport)
  BY DEF Has, Listens
<1> QED BY <1>1, <1>2, ReplaceStep, Zenon DEF Dup2
----------------------------------------------------------------------------
\* A later kernel_entry leaves what the first one did.
LEMMA ResetStep == Reset => SocketsInv'
<1>1. Reset => Init'
  BY DEF Reset, Init, UdpInit, TcpInit
<1>2. Init' => SocketsInv'
  BY SocketsInvInit, PTL
<1> QED BY <1>1, <1>2

\* Every call keeps the invariant.
LEMMA SocketsInvNext == SocketsInv /\ [Next]_vars => SocketsInv'
<1> SUFFICES ASSUME SocketsInv, [Next]_vars PROVE SocketsInv'
  OBVIOUS
<1>1. CASE UNCHANGED vars
  BY <1>1 DEF vars, SocketsInv, Has, Listens
<1>2. CASE Next
  <2>1. 1 \in Ports
    BY SocketsAssumption
  <2> QED
    BY <1>2, <2>1, SocketStep, BindStep, ConnectStep, ConnectLocalStep, ListenStep,
       AcceptStep, RecvDgramStep, CloseStep, Dup2Step, ResetStep DEF Next, Calls
<1> QED BY <1>1, <1>2

\* The descriptors are sound and agree with the port bitmaps, the UDP table and
\* the listeners in every reachable state.
THEOREM SocketsInvariant == Spec => []SocketsInv
BY SocketsInvInit, SocketsInvNext, PTL DEF Spec

\* A port is marked and bound exactly while a descriptor has it (fd_clear and
\* the roll-backs of bind, connect and send).
THEOREM SocketPortsAgree == Spec => []PortsAgree
BY SocketsInvariant, SocketsInvMeans, PTL

\* The network core listens exactly where a descriptor does (listen, fd_clear).
THEOREM SocketListenersAgree == Spec => []ListenersAgree
BY SocketsInvariant, SocketsInvMeans, PTL
----------------------------------------------------------------------------
\* The connection id is established, from port a to port b.
Live(id, a, b) ==
    /\ g_tcp_conns[id].used /\ g_tcp_conns[id].state = "ESTABLISHED"
    /\ g_tcp_conns[id].local_port = a /\ g_tcp_conns[id].remote_port = b

\* What a descriptor and its queue name is established between their ports, and
\* only bound streams name anything.
EndsOk(s) ==
    /\ s.conn # NoConnId =>
          /\ s.type = "STREAM" /\ s.bound
          /\ Live(s.conn, s.lport, s.rport) \/ Live(s.conn, s.rport, s.lport)
    /\ \A i \in DOMAIN s.pending :
          /\ s.type = "STREAM" /\ s.bound
          /\ Live(s.pending[i].conn, s.pending[i].rport, s.lport)

\* The inductive invariant beside SocketsInv.
ConnInv ==
    /\ g_tcp_conns \in [ConnIds -> Connections]
    /\ \A fd \in Fds : EndsOk(fds[fd])
    /\ copied \in BOOLEAN
    /\ AcceptedOnce

\* ConnInv says more than ConnectionsAgree.
LEMMA ConnInvMeans == ConnInv => ConnectionsAgree /\ AcceptedOnce
<1> SUFFICES ASSUME ConnInv PROVE ConnectionsAgree
  BY DEF ConnInv
<1> SUFFICES ASSUME NEW fd \in Fds
             PROVE  /\ fds[fd].conn # NoConnId =>
                          LET conn == g_tcp_conns[fds[fd].conn] IN
                          /\ conn.used /\ conn.state = "ESTABLISHED"
                          /\ {conn.local_port, conn.remote_port} = {fds[fd].lport, fds[fd].rport}
                    /\ \A i \in DOMAIN fds[fd].pending :
                          LET conn == g_tcp_conns[fds[fd].pending[i].conn] IN
                          /\ conn.used /\ conn.state = "ESTABLISHED"
                          /\ conn.local_port = fds[fd].pending[i].rport
                          /\ conn.remote_port = fds[fd].lport
  BY Zenon DEF ConnectionsAgree
<1>1. PICK s : s = fds[fd]
  OBVIOUS
<1>2. EndsOk(s)
  BY <1>1 DEF ConnInv
<1>3. s.conn # NoConnId => Live(s.conn, s.lport, s.rport) \/ Live(s.conn, s.rport, s.lport)
  BY <1>2 DEF EndsOk
<1>4. s.conn # NoConnId =>
         /\ g_tcp_conns[s.conn].used /\ g_tcp_conns[s.conn].state = "ESTABLISHED"
         /\ {g_tcp_conns[s.conn].local_port, g_tcp_conns[s.conn].remote_port} = {s.lport, s.rport}
  BY <1>3 DEF Live
<1>5. \A i \in DOMAIN s.pending : Live(s.pending[i].conn, s.pending[i].rport, s.lport)
  BY <1>2 DEF EndsOk
<1> QED BY <1>1, <1>4, <1>5, Zenon DEF Live

\* AcceptedOnce, one place at a time: a connection waits in one place of one
\* queue (the append of connect).
LEMMA QueuedOnce ==
    ASSUME ConnInv, ~ copied, NEW fd1 \in Fds, NEW fd2 \in Fds,
           NEW i \in DOMAIN fds[fd1].pending, NEW j \in DOMAIN fds[fd2].pending,
           fds[fd2].pending[j].conn = fds[fd1].pending[i].conn
    PROVE  fd1 = fd2 /\ i = j
<1>1. AcceptedOnce
  BY DEF ConnInv
<1> QED BY <1>1 DEF AcceptedOnce

\* And while it waits, the descriptors that name it are the connecting end.
LEMMA AcceptedFrom ==
    ASSUME ConnInv, ~ copied, NEW fd1 \in Fds, NEW fd2 \in Fds,
           NEW i \in DOMAIN fds[fd1].pending,
           fds[fd2].conn = fds[fd1].pending[i].conn
    PROVE  fds[fd2].rport = g_tcp_conns[fds[fd1].pending[i].conn].remote_port
<1>1. AcceptedOnce
  BY DEF ConnInv
<1> QED BY <1>1 DEF AcceptedOnce

\* No descriptor holds a connection at the start.
LEMMA ConnInvInit == Init => ConnInv
<1> SUFFICES ASSUME Init PROVE ConnInv
  OBVIOUS
<1>1. Cleared.conn = NoConnId /\ Cleared.pending = <<>> /\ DOMAIN Cleared.pending = {}
  BY DEF Cleared
<1>2. \A fd \in Fds : fds[fd] = Cleared
  BY DEF Init
<1>3. g_tcp_conns \in [ConnIds -> Connections]
  BY DEF Init, TcpInit, NoConn, Connections, TcpStates, RtoCap, MaxRetries
<1> HIDE DEF Cleared
<1> QED BY <1>1, <1>2, <1>3, Zenon DEF Init, ConnInv, EndsOk, AcceptedOnce
----------------------------------------------------------------------------
\* A descriptor that names anything names what it did, from the same ports.
KeepsAtMost(new, old) ==
    /\ new.pending # <<>> => /\ new.pending = old.pending
                             /\ new.type = old.type /\ new.bound /\ new.lport = old.lport
    /\ new.conn # NoConnId => /\ new.conn = old.conn /\ new.rport = old.rport
                              /\ new.type = old.type /\ new.bound /\ new.lport = old.lport

\* A descriptor that keeps at most what it named is still right, as long as the
\* connections in use stay.
LEMMA EndsKept ==
    ASSUME NEW new \in Socks, NEW old \in Socks, EndsOk(old), KeepsAtMost(new, old),
           \A id \in ConnIds, a, b \in Ports \cup {0} : Live(id, a, b) => Live(id, a, b)'
    PROVE  EndsOk(new)'
<1>0. /\ new.lport \in Ports \cup {0} /\ new.rport \in Ports \cup {0}
      /\ new.conn \in ConnIds \cup {NoConnId} /\ new.pending \in Seq(Queued)
  BY DEF Socks
<1>1. ASSUME new.conn # NoConnId
      PROVE  /\ new.type = "STREAM" /\ new.bound
             /\ Live(new.conn, new.lport, new.rport)' \/ Live(new.conn, new.rport, new.lport)'
  <2>1. /\ old.type = "STREAM" /\ new.conn = old.conn
        /\ Live(new.conn, new.lport, new.rport) \/ Live(new.conn, new.rport, new.lport)
    BY <1>1 DEF EndsOk, KeepsAtMost
  <2>2. new.conn \in ConnIds
    BY <1>0, <1>1
  <2> QED BY <1>0, <1>1, <2>1, <2>2, Zenon DEF KeepsAtMost
<1>2. ASSUME NEW i \in DOMAIN new.pending
      PROVE  /\ new.type = "STREAM" /\ new.bound
             /\ Live(new.pending[i].conn, new.pending[i].rport, new.lport)'
  <2>1. new.pending # <<>>
    BY <1>2
  <2>2. new.pending[i].conn \in ConnIds /\ new.pending[i].rport \in Ports
    <3>1. new.pending[i] \in Queued
      BY <1>0, <1>2
    <3> QED BY <3>1 DEF Queued
  <2>3. /\ old.type = "STREAM" /\ new.type = "STREAM" /\ new.bound
        /\ Live(new.pending[i].conn, new.pending[i].rport, new.lport)
    BY <1>2, <2>1 DEF EndsOk, KeepsAtMost
  <2> QED BY <1>0, <2>2, <2>3
<1> QED BY <1>1, <1>2 DEF EndsOk

\* When the connections stay, whatever was right stays right.
LEMMA EndsUnmoved ==
    ASSUME NEW s, EndsOk(s), g_tcp_conns' = g_tcp_conns
    PROVE  EndsOk(s)'
<1>1. \A id, a, b : Live(id, a, b) => Live(id, a, b)'
  BY DEF Live
<1> QED BY <1>1 DEF EndsOk

\* The calls that open and accept no connection and copy no descriptor.
LEMMA KeepStep ==
    ASSUME SocketsInv, SocketsInv', ConnInv,
           UNCHANGED <<g_tcp_conns, copied>>,
           \A i \in Fds : KeepsAtMost(fds'[i], fds[i])
    PROVE  ConnInv'
<1>1. \A id \in ConnIds, a, b \in Ports \cup {0} : Live(id, a, b) => Live(id, a, b)'
  BY DEF Live
<1>2. \A i \in Fds : fds[i] \in Socks /\ fds'[i] \in Socks
  BY DEF SocketsInv
<1>3. \A i \in Fds : EndsOk(fds[i])'
  <2> TAKE i \in Fds
  <2>1. PICK new : new = fds'[i]
    OBVIOUS
  <2>2. EndsOk(new)'
    BY <1>1, <1>2, <2>1, EndsKept DEF ConnInv
  <2> QED BY <2>1, <2>2 DEF EndsOk
<1>4. AcceptedOnce'
  <2> SUFFICES ASSUME ~ copied, NEW fd1 \in Fds, NEW fd2 \in Fds,
                      NEW i \in DOMAIN fds'[fd1].pending
               PROVE  /\ \A j \in DOMAIN fds'[fd2].pending :
                            fds'[fd2].pending[j].conn = fds'[fd1].pending[i].conn
                            => fd1 = fd2 /\ i = j
                      /\ fds'[fd2].conn = fds'[fd1].pending[i].conn =>
                            fds'[fd2].rport = g_tcp_conns[fds'[fd1].pending[i].conn].remote_port
    BY DEF AcceptedOnce
  <2>1. fds'[fd1].pending = fds[fd1].pending
    BY DEF KeepsAtMost
  <2>2. \A j \in DOMAIN fds'[fd2].pending : fds'[fd2].pending = fds[fd2].pending
    BY DEF KeepsAtMost
  <2>3. fds[fd1].pending[i].conn # NoConnId
    <3>1. fds[fd1].pending \in Seq(Queued)
      BY <1>2 DEF Socks
    <3>2. fds[fd1].pending[i] \in Queued
      BY <2>1, <3>1
    <3> QED BY <3>2, SocketsAssumption DEF Queued, ConnIds, NoConnId
  <2>4. fds'[fd2].conn # NoConnId => fds'[fd2].conn = fds[fd2].conn /\ fds'[fd2].rport = fds[fd2].rport
    BY DEF KeepsAtMost
  <2>5. PICK id : id = fds[fd1].pending[i].conn
    OBVIOUS
  <2>6. i \in DOMAIN fds[fd1].pending
    BY <2>1
  <2>7. /\ \A j \in DOMAIN fds[fd2].pending : fds[fd2].pending[j].conn = id => fd1 = fd2 /\ i = j
        /\ fds[fd2].conn = id => fds[fd2].rport = g_tcp_conns[id].remote_port
    BY <2>5, <2>6 DEF ConnInv, AcceptedOnce
  <2>8. \A j \in DOMAIN fds'[fd2].pending : fds'[fd2].pending[j].conn = id => fd1 = fd2 /\ i = j
    BY <2>2, <2>7
  <2>9. fds'[fd2].conn = id => fds'[fd2].rport = g_tcp_conns[id].remote_port
    BY <2>3, <2>4, <2>5, <2>7
  <2> QED BY <2>1, <2>5, <2>8, <2>9
<1> QED BY <1>3, <1>4 DEF ConnInv

\* A descriptor that names nothing, or goes on, keeps at most what it named.
LEMMA NamesNothing ==
    ASSUME NEW new, NEW old
    PROVE  /\ new.conn = NoConnId /\ new.pending = <<>> => KeepsAtMost(new, old)
           /\ new = old /\ SocketsInv /\ (\E i \in Fds : old = fds[i]) /\ EndsOk(old)
                 => KeepsAtMost(new, old)
<1>1. ASSUME new = old, SocketsInv, NEW i \in Fds, old = fds[i], EndsOk(old)
      PROVE  KeepsAtMost(new, old)
  <2>1. old.pending \in Seq(Queued)
    BY <1>1 DEF SocketsInv, Socks
  <2>2. old.pending # <<>> => 1 \in DOMAIN old.pending
    BY <2>1
  <2> QED BY <1>1, <2>2 DEF KeepsAtMost, EndsOk
<1> QED BY <1>1 DEF KeepsAtMost

\* So one call that only touches the descriptor fd keeps ConnInv.
LEMMA OneKeepStep ==
    ASSUME SocketsInv, SocketsInv', ConnInv, NEW fd \in Fds,
           UNCHANGED <<g_tcp_conns, copied>>,
           KeepsAtMost(fds'[fd], fds[fd]), \A i \in Fds \ {fd} : fds'[i] = fds[i]
    PROVE  ConnInv'
<1>1. \A i \in Fds : KeepsAtMost(fds'[i], fds[i])
  BY NamesNothing DEF ConnInv
<1> QED BY <1>1, KeepStep

\* bind, connect without a listener here, and send: the port stays when there
\* is one, and the descriptor names no connection afterwards.
LEMMA ReboundStep ==
    ASSUME SocketsInv, SocketsInv', ConnInv, NEW fd \in Fds, NEW port, NEW rport,
           UNCHANGED <<g_tcp_conns, copied>>,
           Rebound(fds', fd, port, rport, NoConnId),
           fds[fd].lport # 0 => port = fds[fd].lport
    PROVE  ConnInv'
<1>1. fds[fd].pending \in Seq(Queued) /\ Sound(fds[fd]) /\ EndsOk(fds[fd])
  BY Zenon DEF SocketsInv, Socks, ConnInv
<1>2. fds[fd].pending # <<>> => 1 \in DOMAIN fds[fd].pending
  BY <1>1
<1>3. fds[fd].pending # <<>> => fds[fd].bound
  BY <1>1, <1>2 DEF EndsOk
<1>4. fds[fd].pending # <<>> => port = fds[fd].lport
  BY <1>1, <1>3 DEF Sound
<1>5. KeepsAtMost(fds'[fd], fds[fd])
  BY <1>4 DEF KeepsAtMost, Rebound
<1> QED BY <1>5, OneKeepStep DEF Rebound

\* socket, bind and listen
LEMMA OwnConnStep ==
    ASSUME SocketsInv, SocketsInv', ConnInv,
           \/ \E type \in SockTypes : Socket(type)
           \/ \E fd \in Fds, port \in Ports :
                 BindRaw(fd, port) \/ BindStream(fd, port) \/ BindDgram(fd, port)
           \/ \E fd \in Fds, backlog \in Backlogs : Listen(fd, backlog)
    PROVE  ConnInv'
<1>1. ASSUME NEW type \in SockTypes, Socket(type) PROVE ConnInv'
  <2> DEFINE i == Min(FreeFds)
             new == [Cleared EXCEPT !.type = type]
  <2>1. i \in Fds /\ UNCHANGED <<g_tcp_conns, copied>> /\ fds' = [fds EXCEPT ![i] = new]
    BY <1>1, FreeFd DEF Socket, tcp
  <2>2. new.conn = NoConnId /\ new.pending = <<>>
    BY DEF Cleared
  <2> HIDE DEF i, new
  <2>3. fds'[i] = new /\ \A j \in Fds \ {i} : fds'[j] = fds[j]
    BY <2>1 DEF SocketsInv
  <2> QED BY <2>1, <2>2, <2>3, NamesNothing, OneKeepStep
<1>2. ASSUME NEW fd \in Fds, NEW port \in Ports,
             BindRaw(fd, port) \/ BindStream(fd, port) \/ BindDgram(fd, port)
      PROVE  ConnInv'
  <2>1. /\ fds' = BoundTo(fd, port) /\ ~ fds[fd].bound
        /\ UNCHANGED <<g_tcp_conns, copied>>
    BY <1>2 DEF BindRaw, BindStream, BindDgram, tcp
  <2>2. fds[fd].lport = 0 /\ fds[fd].conn = NoConnId
    BY <2>1, Zenon DEF SocketsInv, Sound, ConnInv, EndsOk
  <2>3. Rebound(fds', fd, port, fds[fd].rport, NoConnId)
    BY <2>1, <2>2, BoundToIs
  <2> QED BY <2>1, <2>2, <2>3, ReboundStep
<1>3. ASSUME NEW fd \in Fds, NEW backlog \in Backlogs, Listen(fd, backlog) PROVE ConnInv'
  <2> DEFINE b == Min({backlog, PendingMax})
             r == [fds[fd] EXCEPT !.listening = TRUE, !.backlog = b]
  <2>1. fds' = [fds EXCEPT ![fd] = r] /\ fds[fd] \in Socks /\ fds[fd].bound
    BY <1>3, Zenon DEF Listen, SocketsInv
  <2> HIDE DEF b
  <2>2. /\ r.type = fds[fd].type /\ r.bound /\ r.lport = fds[fd].lport
        /\ r.conn = fds[fd].conn /\ r.rport = fds[fd].rport /\ r.pending = fds[fd].pending
    BY <2>1 DEF Socks
  <2> HIDE DEF r
  <2>3. fds'[fd] = r /\ \A j \in Fds \ {fd} : fds'[j] = fds[j]
    BY <2>1 DEF SocketsInv
  <2>4. UNCHANGED <<g_tcp_conns, copied>>
    BY <1>3, Zenon DEF Listen, TcpListen
  <2> QED BY <2>2, <2>3, <2>4, OneKeepStep DEF KeepsAtMost
<1> QED BY <1>1, <1>2, <1>3

\* connect without a listener here, and send
LEMMA FarConnStep ==
    ASSUME SocketsInv, SocketsInv', ConnInv, NEW fd \in Fds, NEW rport \in Ports,
           \/ ConnectGateway(fd, rport) \/ ConnectDgram(fd, rport)
           \/ SendDgram(fd, rport) \/ ConnectRaw(fd)
    PROVE  ConnInv'
<1>1. /\ fds[fd].conn \in ConnIds \cup {NoConnId} /\ fds[fd].lport \in Ports \cup {0}
      /\ UNCHANGED <<g_tcp_conns, copied>>
  BY Zenon DEF SocketsInv, Socks, ConnectGateway, ConnectDgram, SendDgram, ConnectRaw, tcp
<1>2. fds[fd].type = "DGRAM" => fds[fd].conn = NoConnId
  BY Zenon DEF ConnInv, EndsOk
<1>3. HasLocalPort(fd) => LocalPort(fd) \in Ports /\ (fds[fd].lport # 0 => LocalPort(fd) = fds[fd].lport)
  BY LocalPortIs, Zenon
<1>4. CASE ConnectGateway(fd, rport)
  <2>1. Rebound(fds', fd, LocalPort(fd), 0, NoConnId)
    BY <1>3, <1>4, JoinedIs, Zenon DEF ConnectGateway
  <2> QED BY <1>1, <1>3, <1>4, <2>1, ReboundStep, Zenon DEF ConnectGateway
<1>5. CASE ConnectDgram(fd, rport)
  <2>1. Rebound(fds', fd, LocalPort(fd), rport, NoConnId)
    BY <1>1, <1>2, <1>3, <1>5, JoinedIs, Zenon DEF ConnectDgram, OfType
  <2> QED BY <1>1, <1>3, <1>5, <2>1, ReboundStep, Zenon DEF ConnectDgram
<1>6. CASE SendDgram(fd, rport)
  <2>1. Rebound(fds', fd, LocalPort(fd), fds[fd].rport, NoConnId)
    BY <1>2, <1>3, <1>6, BoundToIs, Zenon DEF SendDgram, OfType
  <2> QED BY <1>1, <1>3, <1>6, <2>1, ReboundStep, Zenon DEF SendDgram
<1>7. CASE ConnectRaw(fd)
  <2> DEFINE port == IF fds[fd].lport = 0 THEN 1 ELSE fds[fd].lport
  <2>1. port \in Ports /\ (fds[fd].lport # 0 => port = fds[fd].lport)
    BY <1>1, SocketsAssumption
  <2>2. fds' = Joined(fd, port, 0, NoConnId)
    BY <1>7 DEF ConnectRaw
  <2> HIDE DEF port
  <2>3. Rebound(fds', fd, port, 0, NoConnId)
    BY <2>1, <2>2, JoinedIs
  <2> QED BY <1>1, <2>1, <2>3, ReboundStep, Zenon
<1> QED BY <1>4, <1>5, <1>6, <1>7

\* close
LEMMA CloseConnStep ==
    ASSUME SocketsInv, SocketsInv', ConnInv, NEW fd \in Fds, Close(fd)
    PROVE  ConnInv'
<1>1. Cleared.conn = NoConnId /\ Cleared.pending = <<>>
  BY DEF Cleared
<1>2. fds' = [fds EXCEPT ![fd] = Cleared] /\ UNCHANGED <<g_tcp_conns, copied>>
  BY DEF Close, GiveBack
<1>3. fds'[fd] = Cleared /\ \A j \in Fds \ {fd} : fds'[j] = fds[j]
  BY <1>2 DEF SocketsInv
<1> QED BY <1>1, <1>2, <1>3, NamesNothing, OneKeepStep
----------------------------------------------------------------------------
\* connect to a listener here: the new id is one that nobody holds, so neither
\* queue nor descriptor can already name it.
LEMMA LinkStep ==
    ASSUME SocketsInv, SocketsInv', ConnInv, NEW fd \in Fds, NEW rport \in Ports,
           ConnectLocal(fd, rport)
    PROVE  ConnInv'
<1>1. PICK l \in Fds \ {fd}, id \in ConnIds, port \in Ports : LinkedTo(fd, rport, l, id, port)
  BY ConnectLocalIs
<1>2. \A i \in Fds : fds[i] \in Socks /\ fds'[i] \in Socks /\ fds[i].pending \in Seq(Queued)
  BY Zenon DEF SocketsInv, Socks
<1> DEFINE conn == [Opened(port, rport) EXCEPT !.state = "ESTABLISHED"]
<1>3. /\ conn \in Connections /\ conn.used = TRUE /\ conn.state = "ESTABLISHED"
      /\ conn.local_port = port /\ conn.remote_port = rport
  <2> DEFINE opened == Opened(port, rport)
  <2>1. 500 \in 0 .. RtoCap /\ 0 \in 0 .. MaxRetries /\ {"SYN_SENT", "ESTABLISHED"} \subseteq TcpStates
    BY DEF RtoCap, MaxRetries, TcpStates
  <2>2. /\ opened \in Connections /\ opened.used = TRUE
        /\ opened.local_port = port /\ opened.remote_port = rport
    BY <2>1 DEF Opened, FirstRto, Connections
  <2> HIDE DEF opened
  <2>3. conn = [opened EXCEPT !.state = "ESTABLISHED"]
    BY DEF opened
  <2> QED BY <2>1, <2>2, <2>3 DEF Connections
<1>4. g_tcp_conns' = [g_tcp_conns EXCEPT ![id] = conn] /\ ~ g_tcp_conns[id].used
  BY <1>1 DEF LinkedTo
<1> HIDE DEF conn
<1>5. /\ g_tcp_conns' \in [ConnIds -> Connections] /\ g_tcp_conns'[id] = conn
      /\ \A c \in ConnIds \ {id} : g_tcp_conns'[c] = g_tcp_conns[c]
  BY <1>3, <1>4 DEF ConnInv
<1>6. \A c \in ConnIds, a, b \in Ports \cup {0} : Live(c, a, b) => c # id /\ Live(c, a, b)'
  BY <1>4, <1>5 DEF Live
<1>7. Live(id, port, rport)'
  BY <1>3, <1>5 DEF Live
<1>8. \A i \in Fds : fds[i].conn # id
  <2> TAKE i \in Fds
  <2>1. id # NoConnId
    BY DEF ConnIds, NoConnId
  <2>2. EndsOk(fds[i])
    BY DEF ConnInv
  <2>3. fds[i].conn # NoConnId => g_tcp_conns[fds[i].conn].used
    BY <2>2, Zenon DEF EndsOk, Live
  <2> QED BY <1>4, <2>1, <2>3
<1>9. \A i \in Fds : \A k \in DOMAIN fds[i].pending : fds[i].pending[k].conn # id
  <2> TAKE i \in Fds
  <2>1. EndsOk(fds[i])
    BY DEF ConnInv
  <2>2. \A k \in DOMAIN fds[i].pending : g_tcp_conns[fds[i].pending[k].conn].used
    BY <2>1, Zenon DEF EndsOk, Live
  <2> QED BY <1>4, <2>2
<1>10. \A i \in Fds : fds[i].pending # <<>> => fds[i].type = "STREAM" /\ fds[i].bound
  BY <1>2 DEF ConnInv, EndsOk
<1> DEFINE q == fds[l].pending
           entry == [rport |-> port, conn |-> id]
<1>11. \A i \in Fds \ {l} : fds'[i].pending = fds[i].pending
  BY <1>1 DEF LinkedTo
<1>12. /\ DOMAIN fds'[l].pending = 1 .. Len(q) + 1 /\ DOMAIN q = 1 .. Len(q) /\ Len(q) \in Nat
       /\ fds'[l].pending[Len(q) + 1] = entry
       /\ \A k \in DOMAIN q : fds'[l].pending[k] = q[k]
  <2>1. fds'[l].pending = Append(q, entry) /\ q \in Seq(Queued) /\ entry \in Queued
    BY <1>1, <1>2, Zenon DEF LinkedTo, Queued
  <2> HIDE DEF q, entry
  <2> QED BY <2>1
<1> HIDE DEF q
<1>13. \A i \in Fds : \A k \in DOMAIN fds'[i].pending :
          \/ k \in DOMAIN fds[i].pending /\ fds'[i].pending[k] = fds[i].pending[k]
          \/ i = l /\ k = Len(q) + 1 /\ fds'[i].pending[k] = entry
  BY <1>11, <1>12 DEF q
<1>14. EndsOk(fds[fd])'
  <2>1. /\ fds'[fd].type = "STREAM" /\ fds'[fd].bound /\ fds'[fd].lport = port
        /\ fds'[fd].rport = rport /\ fds'[fd].conn = id
    BY <1>1, Zenon DEF LinkedTo, ConnectLocal, OfType
  <2>2. \A k \in DOMAIN fds'[fd].pending :
           Live(fds[fd].pending[k].conn, fds[fd].pending[k].rport, fds[fd].lport)'
    <3> TAKE k \in DOMAIN fds'[fd].pending
    <3>1. k \in DOMAIN fds[fd].pending /\ fds'[fd].pending[k] = fds[fd].pending[k]
      BY <1>13
    <3>2. fds[fd].pending[k] \in Queued
      BY <1>2, <3>1
    <3>3. fds[fd].bound /\ Live(fds[fd].pending[k].conn, fds[fd].pending[k].rport, fds[fd].lport)
      BY <3>1 DEF ConnInv, EndsOk
    <3>4. fds[fd].lport = port
      BY <1>1, <3>3 DEF LinkedTo, SocketsInv, Sound
    <3> QED BY <1>6, <2>1, <3>1, <3>2, <3>3, <3>4 DEF Queued
  <2> QED BY <1>7, <2>1, <2>2 DEF EndsOk
<1>15. EndsOk(fds[l])'
  <2>1. /\ SameButQueue(fds'[l], fds[l]) /\ fds[l].lport = rport /\ fds[l].listening
    BY <1>1 DEF LinkedTo
  <2>2. fds[l].type = "STREAM" /\ fds[l].bound
    BY <2>1 DEF SocketsInv, Sound
  <2>3. fds[l].conn # NoConnId =>
           /\ fds[l].conn \in ConnIds /\ fds[l].rport \in Ports \cup {0}
           /\ Live(fds[l].conn, rport, fds[l].rport) \/ Live(fds[l].conn, fds[l].rport, rport)
    BY <1>2, <2>1, Zenon DEF ConnInv, EndsOk, Socks
  <2>4. fds[l].conn # NoConnId =>
           Live(fds[l].conn, rport, fds[l].rport)' \/ Live(fds[l].conn, fds[l].rport, rport)'
    BY <1>6, <2>1, <2>3, Zenon DEF SameButQueue
  <2>5. \A k \in DOMAIN fds'[l].pending :
           Live(fds[l].pending[k].conn, fds[l].pending[k].rport, rport)'
    <3> TAKE k \in DOMAIN fds'[l].pending
    <3>1. CASE fds'[l].pending[k] = entry
      BY <1>7, <3>1
    <3>2. CASE k \in DOMAIN fds[l].pending /\ fds'[l].pending[k] = fds[l].pending[k]
      <4>1. fds[l].pending[k] \in Queued
        BY <1>2, <3>2
      <4>2. Live(fds[l].pending[k].conn, fds[l].pending[k].rport, rport)
        BY <2>1, <3>2 DEF ConnInv, EndsOk
      <4> QED BY <1>6, <3>2, <4>1, <4>2 DEF Queued
    <3> QED BY <1>13, <3>1, <3>2
  <2> QED BY <2>1, <2>2, <2>4, <2>5 DEF EndsOk, SameButQueue
<1>16. ASSUME NEW i \in Fds \ {fd, l} PROVE EndsOk(fds[i])'
  <2>1. fds'[i] = fds[i] /\ EndsOk(fds[i]) /\ fds[i] \in Socks
    BY <1>1, <1>2 DEF LinkedTo, ConnInv
  <2>2. PICK new : new = fds[i]
    OBVIOUS
  <2>3. KeepsAtMost(new, fds[i])
    BY <2>1, <2>2, NamesNothing
  <2>4. EndsOk(new)'
    BY <1>6, <2>1, <2>2, <2>3, EndsKept
  <2> QED BY <2>1, <2>2, <2>4, Zenon DEF EndsOk
<1>17. AcceptedOnce'
  <2> SUFFICES ASSUME ~ copied, NEW fd1 \in Fds, NEW fd2 \in Fds,
                      NEW i \in DOMAIN fds'[fd1].pending
               PROVE  /\ \A j \in DOMAIN fds'[fd2].pending :
                            fds'[fd2].pending[j].conn = fds'[fd1].pending[i].conn
                            => fd1 = fd2 /\ i = j
                      /\ fds'[fd2].conn = fds'[fd1].pending[i].conn =>
                            fds'[fd2].rport = g_tcp_conns'[fds'[fd1].pending[i].conn].remote_port
    BY Zenon DEF AcceptedOnce, ConnectLocal
  <2>1. \A j \in DOMAIN fds'[fd2].pending :
           fds'[fd2].pending[j].conn = fds'[fd1].pending[i].conn => fd1 = fd2 /\ i = j
    <3> SUFFICES ASSUME NEW j \in DOMAIN fds'[fd2].pending,
                        fds'[fd2].pending[j].conn = fds'[fd1].pending[i].conn
                 PROVE  fd1 = fd2 /\ i = j
      OBVIOUS
    <3> DEFINE Old(d, k) == k \in DOMAIN fds[d].pending /\ fds'[d].pending[k] = fds[d].pending[k]
               New(d, k) == d = l /\ k = Len(q) + 1 /\ fds'[d].pending[k] = entry
    <3>1. Old(fd1, i) \/ New(fd1, i)
      BY <1>13
    <3>2. Old(fd2, j) \/ New(fd2, j)
      BY <1>13
    <3>3. CASE Old(fd1, i) /\ Old(fd2, j)
      BY <3>3, QueuedOnce
    <3>4. CASE New(fd1, i) /\ New(fd2, j)
      BY <3>4
    <3>5. /\ Old(fd1, i) => fds'[fd1].pending[i].conn # id
          /\ Old(fd2, j) => fds'[fd2].pending[j].conn # id
      BY <1>9
    <3>6. entry.conn = id
      OBVIOUS
    <3>7. /\ New(fd1, i) => fds'[fd1].pending[i].conn = id
          /\ New(fd2, j) => fds'[fd2].pending[j].conn = id
      BY <3>6
    <3> HIDE DEF Old, New
    <3> QED BY <3>1, <3>2, <3>3, <3>4, <3>5, <3>7
  <2>2. fds'[fd].conn = id /\ fds'[fd].rport = rport
    BY <1>1 DEF LinkedTo
  <2>3. \A j \in Fds \ {fd} : fds'[j].conn = fds[j].conn /\ fds'[j].rport = fds[j].rport
    BY <1>1 DEF LinkedTo, SameButQueue
  <2>4. ASSUME fds'[fd2].conn = fds'[fd1].pending[i].conn
        PROVE  fds'[fd2].rport = g_tcp_conns'[fds'[fd1].pending[i].conn].remote_port
    <3>1. CASE fd2 = fd
      BY <1>3, <1>5, <2>2, <2>4, <3>1
    <3>2. CASE fd2 # fd
      <4>1. fds'[fd1].pending[i].conn = fds[fd2].conn /\ fds[fd2].conn # id
        BY <1>8, <2>3, <2>4, <3>2
      <4>2. i \in DOMAIN fds[fd1].pending /\ fds'[fd1].pending[i] = fds[fd1].pending[i]
        BY <1>13, <4>1
      <4>3. fds[fd1].pending[i].conn \in ConnIds \ {id}
        <5>1. fds[fd1].pending[i] \in Queued
          BY <1>2, <4>2
        <5> QED BY <4>1, <4>2, <5>1 DEF Queued
      <4>4. fds[fd2].rport = g_tcp_conns[fds[fd1].pending[i].conn].remote_port
        BY <4>1, <4>2, AcceptedFrom, Zenon
      <4> QED BY <1>5, <2>3, <3>2, <4>2, <4>3, <4>4
    <3> QED BY <3>1, <3>2
  <2> QED BY <2>1, <2>4, Zenon
<1> QED BY <1>5, <1>14, <1>15, <1>16, <1>17, Zenon DEF ConnInv, ConnectLocal

\* accept: the connection leaves the one place of the one queue it was in.
LEMMA TakeConnStep ==
    ASSUME SocketsInv, SocketsInv', ConnInv, NEW fd \in Fds, Accept(fd)
    PROVE  ConnInv'
<1>1. PICK i \in Fds \ {fd} : TakenBy(fd, i)
  BY AcceptIs
<1>2. UNCHANGED <<g_tcp_conns, copied>>
  BY DEF Accept, tcp
<1> DEFINE q == fds[fd].pending
<1>3. \A c, a, b : Live(c, a, b) <=> Live(c, a, b)'
  BY <1>2 DEF Live
<1>4. /\ q \in Seq(Queued) /\ 1 \in DOMAIN q /\ Head(q) = q[1]
      /\ \A k \in DOMAIN Tail(q) :
            k \in Nat \ {0} /\ k + 1 \in DOMAIN q /\ Tail(q)[k] = q[k + 1]
  <2>1. q \in Seq(Queued) /\ q # <<>>
    BY <1>1 DEF TakenBy
  <2> HIDE DEF q
  <2> QED BY <2>1
<1>5. /\ fds'[fd].pending = Tail(q) /\ SameButQueue(fds'[fd], fds[fd])
      /\ fds[fd].type = "STREAM" /\ fds[fd].bound
      /\ \A j \in Fds \ {i, fd} : fds'[j] = fds[j]
  BY <1>1 DEF TakenBy
<1>6. /\ fds'[i].pending = <<>> /\ fds'[i].type = "STREAM" /\ fds'[i].bound
      /\ fds'[i].lport = fds[fd].lport
      /\ fds'[i].conn = q[1].conn /\ fds'[i].rport = q[1].rport
  BY <1>1, <1>4 DEF TakenBy
<1>7. \A k \in DOMAIN q : Live(q[k].conn, q[k].rport, fds[fd].lport)
  BY DEF ConnInv, EndsOk
<1> HIDE DEF q
<1>8. EndsOk(fds[i])'
  <2>1. Live(q[1].conn, q[1].rport, fds[fd].lport)
    BY <1>4, <1>7
  <2>2. Live(fds[i].conn, fds[i].rport, fds[i].lport)'
    BY <1>2, <1>6, <2>1 DEF Live
  <2> QED BY <1>6, <2>2 DEF EndsOk
<1>9. EndsOk(fds[fd])'
  <2>1. \A k \in DOMAIN fds'[fd].pending :
           Live(fds[fd].pending[k].conn, fds[fd].pending[k].rport, fds[fd].lport)'
    <3> TAKE k \in DOMAIN fds'[fd].pending
    <3>1. Live(q[k + 1].conn, q[k + 1].rport, fds[fd].lport) /\ fds'[fd].pending[k] = q[k + 1]
      BY <1>4, <1>5, <1>7
    <3> QED BY <1>2, <1>5, <3>1 DEF Live, SameButQueue
  <2>2. EndsOk(fds[fd])
    BY DEF ConnInv
  <2>3. fds[fd].conn # NoConnId =>
           Live(fds[fd].conn, fds[fd].lport, fds[fd].rport)' \/ Live(fds[fd].conn, fds[fd].rport, fds[fd].lport)'
    <3>1. fds[fd].conn # NoConnId =>
             \/ Live(fds[fd].conn, fds[fd].lport, fds[fd].rport)
             \/ Live(fds[fd].conn, fds[fd].rport, fds[fd].lport)
      BY <2>2 DEF EndsOk
    <3>2. /\ fds'[fd].conn = fds[fd].conn /\ fds'[fd].lport = fds[fd].lport
          /\ fds'[fd].rport = fds[fd].rport
      BY <1>5 DEF SameButQueue
    <3> QED BY <1>2, <3>1, <3>2 DEF Live
  <2> QED BY <1>5, <2>1, <2>3 DEF EndsOk, SameButQueue
<1>10. ASSUME NEW j \in Fds \ {i, fd} PROVE EndsOk(fds[j])'
  <2>1. fds'[j] = fds[j] /\ EndsOk(fds[j])
    BY <1>5, Zenon DEF ConnInv
  <2>2. PICK new : new = fds[j]
    OBVIOUS
  <2>3. EndsOk(new)'
    BY <1>2, <2>1, <2>2, EndsUnmoved
  <2> QED BY <2>1, <2>2, <2>3, Zenon DEF EndsOk
<1> DEFINE Before(j, k) == IF j = fd THEN k + 1 ELSE k
<1>11. \A j \in Fds : \A k \in DOMAIN fds'[j].pending :
          /\ j # i /\ Before(j, k) \in DOMAIN fds[j].pending
          /\ fds'[j].pending[k] = fds[j].pending[Before(j, k)]
          /\ j = fd => k \in Nat \ {0}
  <2> SUFFICES ASSUME NEW j \in Fds, NEW k \in DOMAIN fds'[j].pending
               PROVE  /\ j # i /\ Before(j, k) \in DOMAIN fds[j].pending
                      /\ fds'[j].pending[k] = fds[j].pending[Before(j, k)]
                      /\ j = fd => k \in Nat \ {0}
    BY Zenon
  <2>1. j # i
    <3>1. DOMAIN <<>> = {}
      OBVIOUS
    <3>2. DOMAIN fds'[i].pending = {}
      BY <1>6, <3>1, Zenon
    <3> QED BY <3>2, Zenon
  <2>2. CASE j = fd
    BY <1>4, <1>5, <2>1, <2>2, Zenon DEF q
  <2>3. CASE j # fd
    BY <1>5, <2>1, <2>3
  <2> QED BY <2>1, <2>2, <2>3, Zenon
<1>12. AcceptedOnce'
  <2> SUFFICES ASSUME ~ copied, NEW fd1 \in Fds, NEW fd2 \in Fds,
                      NEW m \in DOMAIN fds'[fd1].pending
               PROVE  /\ \A n \in DOMAIN fds'[fd2].pending :
                            fds'[fd2].pending[n].conn = fds'[fd1].pending[m].conn
                            => fd1 = fd2 /\ m = n
                      /\ fds'[fd2].conn = fds'[fd1].pending[m].conn =>
                            fds'[fd2].rport = g_tcp_conns[fds'[fd1].pending[m].conn].remote_port
    BY <1>2 DEF AcceptedOnce
  <2>1. /\ Before(fd1, m) \in DOMAIN fds[fd1].pending
        /\ fds'[fd1].pending[m] = fds[fd1].pending[Before(fd1, m)]
        /\ fd1 = fd => m \in Nat \ {0}
    BY <1>11
  <2>2. ASSUME NEW n \in DOMAIN fds'[fd2].pending,
               fds'[fd2].pending[n].conn = fds'[fd1].pending[m].conn
        PROVE  fd1 = fd2 /\ m = n
    <3>1. /\ Before(fd2, n) \in DOMAIN fds[fd2].pending
          /\ fds'[fd2].pending[n] = fds[fd2].pending[Before(fd2, n)]
          /\ fd2 = fd => n \in Nat \ {0}
      BY <1>11
    <3>2. fd1 = fd2 /\ Before(fd1, m) = Before(fd2, n)
      <4> HIDE DEF Before
      <4> QED BY <2>1, <2>2, <3>1, QueuedOnce
    <3> QED BY <2>1, <3>1, <3>2
  <2>3. ASSUME fds'[fd2].conn = fds'[fd1].pending[m].conn
        PROVE  fds'[fd2].rport = g_tcp_conns[fds'[fd1].pending[m].conn].remote_port
    <3>1. CASE fd2 = i
      <4>1. q[1].conn = fds[fd1].pending[Before(fd1, m)].conn
        BY <1>6, <2>1, <2>3, <3>1
      <4>2. fd1 = fd /\ Before(fd1, m) = 1
        <5> HIDE DEF Before
        <5>1. 1 \in DOMAIN fds[fd].pending /\ q[1] = fds[fd].pending[1]
          BY <1>4 DEF q
        <5> QED BY <2>1, <4>1, <5>1, QueuedOnce
      <4> QED BY <2>1, <4>2
    <3>2. CASE fd2 # i
      <4>1. fds'[fd2].conn = fds[fd2].conn /\ fds'[fd2].rport = fds[fd2].rport
        BY <1>5, <3>2 DEF SameButQueue
      <4>2. PICK b \in DOMAIN fds[fd1].pending : fds'[fd1].pending[m] = fds[fd1].pending[b]
        BY <2>1
      <4>3. fds[fd2].conn = fds[fd1].pending[b].conn
        BY <2>3, <4>1, <4>2, Zenon
      <4>4. fds[fd2].rport = g_tcp_conns[fds[fd1].pending[b].conn].remote_port
        BY <4>3, AcceptedFrom
      <4> QED BY <4>1, <4>2, <4>4
    <3> QED BY <3>1, <3>2
  <2> QED BY <2>2, <2>3
<1> QED BY <1>2, <1>8, <1>9, <1>10, <1>12 DEF ConnInv

\* dup2: a copy names what the original does; a copied queue is remembered.
LEMMA CopyConnStep ==
    ASSUME SocketsInv, SocketsInv', ConnInv, NEW oldfd \in Fds, NEW newfd \in Fds,
           Dup2(oldfd, newfd)
    PROVE  ConnInv'
<1>1. /\ fds' = [fds EXCEPT ![newfd] = fds[oldfd]] /\ g_tcp_conns' = g_tcp_conns
      /\ copied' = (copied \/ fds[oldfd].pending # <<>>)
  BY DEF Dup2, GiveBack
<1>2. fds'[newfd] = fds[oldfd] /\ \A j \in Fds \ {newfd} : fds'[j] = fds[j]
  BY <1>1, Zenon DEF SocketsInv
<1>3. \A j \in Fds : EndsOk(fds[j])'
  <2> TAKE j \in Fds
  <2>1. PICK old \in Fds : fds'[j] = fds[old]
    BY <1>2
  <2>2. EndsOk(fds[old])
    BY DEF ConnInv
  <2>3. PICK new : new = fds[old]
    OBVIOUS
  <2>4. EndsOk(new)'
    BY <1>1, <2>2, <2>3, EndsUnmoved
  <2> QED BY <2>1, <2>3, <2>4 DEF EndsOk
<1>4. AcceptedOnce'
  <2>1. CASE fds[oldfd].pending # <<>>
    BY <1>1, <2>1, Zenon DEF AcceptedOnce
  <2>2. CASE fds[oldfd].pending = <<>>
    <3>1. DOMAIN fds'[newfd].pending = {}
      BY <1>2, <2>2
    <3>2. \A j \in Fds : \E old \in Fds : fds'[j].conn = fds[old].conn /\ fds'[j].rport = fds[old].rport
      BY <1>2
    <3> SUFFICES ASSUME ~ copied', NEW fd1 \in Fds, NEW fd2 \in Fds,
                        NEW i \in DOMAIN fds'[fd1].pending
                 PROVE  /\ \A j \in DOMAIN fds'[fd2].pending :
                              fds'[fd2].pending[j].conn = fds'[fd1].pending[i].conn
                              => fd1 = fd2 /\ i = j
                        /\ fds'[fd2].conn = fds'[fd1].pending[i].conn =>
                              fds'[fd2].rport = g_tcp_conns'[fds'[fd1].pending[i].conn].remote_port
      BY DEF AcceptedOnce
    <3>0. ~ copied
      BY <1>1, Zenon
    <3>3. fds'[fd1] = fds[fd1] /\ i \in DOMAIN fds[fd1].pending
      BY <1>2, <3>1
    <3>4. \A j \in DOMAIN fds'[fd2].pending : fds'[fd2] = fds[fd2]
      BY <1>2, <3>1
    <3>5. \A j \in DOMAIN fds'[fd2].pending :
             fds'[fd2].pending[j].conn = fds'[fd1].pending[i].conn => fd1 = fd2 /\ i = j
      BY <3>0, <3>3, <3>4, QueuedOnce
    <3>6. PICK old \in Fds : fds'[fd2].conn = fds[old].conn /\ fds'[fd2].rport = fds[old].rport
      BY <3>2
    <3>7. fds[old].conn = fds[fd1].pending[i].conn =>
             fds[old].rport = g_tcp_conns[fds[fd1].pending[i].conn].remote_port
      BY <3>0, <3>3, AcceptedFrom
    <3>8. fds'[fd2].conn = fds'[fd1].pending[i].conn =>
             fds'[fd2].rport = g_tcp_conns'[fds'[fd1].pending[i].conn].remote_port
      BY <1>1, <3>3, <3>6, <3>7
    <3> QED BY <3>5, <3>8
  <2> QED BY <2>1, <2>2
<1>5. copied' \in BOOLEAN
  BY <1>1 DEF ConnInv
<1> QED BY <1>1, <1>3, <1>4, <1>5 DEF ConnInv
----------------------------------------------------------------------------
\* A later kernel_entry leaves no ids behind.
LEMMA ResetConnStep == Reset => ConnInv'
<1>1. Reset => Init'
  BY DEF Reset, Init, UdpInit, TcpInit
<1>2. Init' => ConnInv'
  BY ConnInvInit, PTL
<1> QED BY <1>1, <1>2

\* Every call keeps it.
LEMMA ConnInvNext == SocketsInv /\ SocketsInv' /\ ConnInv /\ [Next]_vars => ConnInv'
<1> SUFFICES ASSUME SocketsInv, SocketsInv', ConnInv, [Next]_vars PROVE ConnInv'
  OBVIOUS
<1>0. UNCHANGED <<fds, g_tcp_conns, copied>> => ConnInv'
  BY NamesNothing, KeepStep DEF ConnInv
<1>1. CASE UNCHANGED vars
  BY <1>0, <1>1 DEF vars
<1>2. ASSUME NEW fd \in Fds, RecvDgram(fd) PROVE ConnInv'
  BY <1>0, <1>2 DEF RecvDgram, tcp
<1>3. CASE Next
  <2>1. 1 \in Ports
    BY SocketsAssumption
  <2> QED
    BY <1>2, <1>3, <2>1, OwnConnStep, FarConnStep, LinkStep, TakeConnStep, CloseConnStep,
       CopyConnStep, ResetConnStep DEF Next, Calls
<1> QED BY <1>1, <1>3

\* The ids that descriptors and queues hold are right in every reachable state.
THEOREM ConnInvariant == Spec => []ConnInv
BY SocketsInvariant, ConnInvInit, ConnInvNext, PTL DEF Spec

\* A held connection id names an established connection between just these two
\* ports (connect, accept and dup2 over qos_net_tcp_connect).
THEOREM ConnectionsAlwaysAgree == Spec => []ConnectionsAgree
BY ConnInvariant, ConnInvMeans, PTL

\* Unless dup2 copied a queue, every connection is accepted once (the pending
\* queue of connect and accept).
THEOREM ConnectionsAcceptedOnce == Spec => []AcceptedOnce
BY ConnInvariant, ConnInvMeans, PTL
----------------------------------------------------------------------------
\* At most n ports are in a table.
FitsIn(S, n) == IsFiniteSet(S) /\ Cardinality(S) <= n

\* The datagrams g are for ports in P, or cleared.
Entries == Datagrams \cup {Hole}
HeldFor(g, P) ==
    /\ g \in Seq(Entries) /\ Len(g) <= UdpMaxDatagrams
    /\ \A i \in DOMAIN g : g[i].dst_port \in P \cup {0}

\* The inductive invariant beside SocketsInv and ConnInv: the tables of net.c do not
\* overflow and hold nothing for a port that is not bound.
RoomInv ==
    /\ FitsIn(g_udp_ports, UdpPortMax) /\ FitsIn(g_tcp_listeners, TcpMaxListeners)
    /\ HeldFor(g_udp_datagrams, g_udp_ports)

\* The three invariants say what NothingDangles says.
LEMMA RoomInvMeans == SocketsInv /\ ConnInv /\ RoomInv => NothingDangles
<1> SUFFICES ASSUME SocketsInv, ConnInv, RoomInv PROVE NothingDangles
  OBVIOUS
<1>1. ConnectionsAgree
  BY ConnInvMeans
<1>2. UdpTypeOK
  BY DEF SocketsInv, RoomInv, FitsIn, HeldFor, Entries, UdpTypeOK
<1>3. TcpTypeOK
  BY DEF SocketsInv, ConnInv, RoomInv, FitsIn, TcpTypeOK
<1>4. TypeOK
  BY <1>2, <1>3, Zenon DEF SocketsInv, ConnInv, TypeOK, Socks, Queued, Tables
<1>5. \A i \in DOMAIN g_udp_datagrams :
         g_udp_datagrams[i] # Hole => g_udp_datagrams[i].dst_port \in g_udp_ports
  <2> SUFFICES ASSUME NEW i \in DOMAIN g_udp_datagrams, g_udp_datagrams[i] # Hole
               PROVE  g_udp_datagrams[i].dst_port \in g_udp_ports
    OBVIOUS
  <2>1. g_udp_datagrams[i] \in Entries /\ g_udp_datagrams[i].dst_port \in g_udp_ports \cup {0}
    BY DEF RoomInv, HeldFor
  <2>2. g_udp_datagrams[i].dst_port # 0
    BY <2>1, SocketsAssumption DEF Entries, Datagrams
  <2> QED BY <2>1, <2>2
<1> QED BY <1>1, <1>4, <1>5 DEF NothingDangles

\* qos_net_udp_bind and qos_net_tcp_listen: a port that is there already, or that there is
\* room for, fits.
LEMMA OneMore ==
    ASSUME NEW S, NEW n \in Nat, FitsIn(S, n), NEW p, p \in S \/ Cardinality(S) < n
    PROVE  FitsIn(S \cup {p}, n)
<1>1. IsFiniteSet(S) /\ Cardinality(S) \in Nat /\ Cardinality(S) <= n
  BY FS_CardinalityType DEF FitsIn
<1>2. CASE p \in S
  BY <1>2 DEF FitsIn
<1>3. CASE p \notin S
  <2>1. IsFiniteSet(S \cup {p}) /\ Cardinality(S \cup {p}) = Cardinality(S) + 1
    BY <1>1, <1>3, FS_AddElement
  <2> QED BY <1>1, <1>3, <2>1 DEF FitsIn
<1> QED BY <1>2, <1>3

\* qos_net_udp_unbind and qos_net_tcp_unlisten: a port less leaves room.
LEMMA OneLess ==
    ASSUME NEW S, NEW n \in Nat, FitsIn(S, n), NEW p
    PROVE  FitsIn(S \ {p}, n)
<1>1. IsFiniteSet(S) /\ Cardinality(S) \in Nat /\ Cardinality(S) <= n
  BY FS_CardinalityType DEF FitsIn
<1>2. IsFiniteSet(S \ {p}) /\ Cardinality(S \ {p}) <= Cardinality(S)
  BY <1>1, FS_Subset
<1>3. Cardinality(S \ {p}) \in Nat
  BY <1>2, FS_CardinalityType
<1> QED BY <1>1, <1>2, <1>3 DEF FitsIn

\* qos_net_udp_send: the new datagram is for a bound port.
LEMMA HeldMore ==
    ASSUME NEW g, NEW P, HeldFor(g, P), NEW d \in Entries, d.dst_port \in P,
           Len(g) < UdpMaxDatagrams
    PROVE  HeldFor(Append(g, d), P)
<1>1. g \in Seq(Entries) /\ Len(g) \in Nat /\ \A i \in 1 .. Len(g) : g[i].dst_port \in P \cup {0}
  BY DEF HeldFor
<1>2. PICK h : h = Append(g, d)
  BY Zenon
<1>3. /\ h \in Seq(Entries) /\ Len(h) = Len(g) + 1 /\ DOMAIN h = 1 .. Len(g) + 1
      /\ h[Len(g) + 1] = d /\ \A i \in 1 .. Len(g) : h[i] = g[i]
  BY <1>1, <1>2
<1>4. \A i \in DOMAIN h : h[i].dst_port \in P \cup {0}
  BY <1>1, <1>3
<1>5. Len(h) <= UdpMaxDatagrams
  BY <1>1, <1>3, SocketsAssumption
<1> QED BY <1>2, <1>3, <1>4, <1>5 DEF HeldFor

\* More ports keep what is held.
LEMMA HeldWider ==
    ASSUME NEW g, NEW P, HeldFor(g, P), NEW Q, P \subseteq Q
    PROVE  HeldFor(g, Q)
BY DEF HeldFor

\* qos_net_udp_recv only moves what is held.
LEMMA HeldLess ==
    ASSUME NEW g, NEW P, HeldFor(g, P), NEW m \in 1 .. Len(g), NEW h,
           h = [j \in 1 .. Len(g) - 1 |-> g[IF j < m THEN j ELSE j + 1]]
    PROVE  HeldFor(h, P)
<1>1. /\ g \in Seq(Entries) /\ Len(g) \in Nat /\ Len(g) <= UdpMaxDatagrams
      /\ \A i \in 1 .. Len(g) : g[i] \in Entries /\ g[i].dst_port \in P \cup {0}
  BY DEF HeldFor
<1>2. \A j \in 1 .. Len(g) - 1 : \E i \in 1 .. Len(g) : h[j] = g[i]
  BY <1>1
<1>3. Len(g) - 1 \in Nat /\ Len(g) - 1 <= UdpMaxDatagrams
  BY <1>1, SocketsAssumption
<1>4. \A j \in 1 .. Len(g) - 1 : h[j] \in Entries /\ h[j].dst_port \in P \cup {0}
  BY <1>1, <1>2
<1>5. h = [j \in 1 .. Len(g) - 1 |-> h[j]]
  OBVIOUS
<1>6. h \in [1 .. Len(g) - 1 -> Entries]
  BY <1>4, <1>5, Zenon
<1>7. h \in Seq(Entries) /\ Len(h) = Len(g) - 1 /\ DOMAIN h = 1 .. Len(g) - 1
  <2>1. PICK n \in Nat : n = Len(g) - 1
    BY <1>3
  <2>2. h \in [1 .. n -> Entries]
    BY <1>6, <2>1
  <2>3. h \in Seq(Entries) /\ Len(h) = n /\ DOMAIN h = 1 .. n
    BY <2>2
  <2> QED BY <2>1, <2>3
<1> QED BY <1>3, <1>4, <1>7 DEF HeldFor

\* udp_drop_port_datagrams keeps nothing for the port that is closed.
LEMMA HeldNoMore ==
    ASSUME NEW port \in Ports, HeldFor(g_udp_datagrams, g_udp_ports)
    PROVE  HeldFor(DropDatagrams(port), g_udp_ports \ {port})
<1>1. PICK g, P : g = g_udp_datagrams /\ P = g_udp_ports
  OBVIOUS
<1>2. PICK K : K = Kept(port)
  OBVIOUS
<1>3. PICK c : c = Cardinality(K)
  OBVIOUS
<1>4. /\ g \in Seq(Entries) /\ Len(g) \in Nat /\ Len(g) <= UdpMaxDatagrams
      /\ DOMAIN g = 1 .. Len(g)
      /\ \A i \in 1 .. Len(g) : g[i] \in Entries /\ g[i].dst_port \in P \cup {0}
  BY <1>1 DEF HeldFor
<1>5. K \subseteq 1 .. Len(g) /\ \A i \in K : g[i].dst_port # port
  BY <1>1, <1>2, <1>4 DEF Kept
<1>6. K \subseteq Nat /\ IsFiniteSet(K)
  <2>1. IsFiniteSet(1 .. Len(g))
    BY <1>4, FS_Interval
  <2>2. IsFiniteSet(K)
    BY <1>5, <2>1, FS_Subset, Zenon
  <2>3. K \subseteq Nat
    BY <1>5
  <2> QED BY <2>2, <2>3
<1>7. \A n \in 1 .. c : Nth(K, n) \in K
  BY <1>3, <1>6, NthPlace, Zenon
<1>8. c \in Nat
  BY <1>3, <1>6, FS_CardinalityType
<1>9. PICK h : h = DropDatagrams(port)
  OBVIOUS
<1>10. h = [i \in 1 .. Len(g) |-> IF i <= c THEN g[Nth(K, i)] ELSE Hole]
  BY <1>1, <1>2, <1>3, <1>4, <1>9 DEF DropDatagrams
<1>11. \A i \in 1 .. Len(g) : h[i] = Hole \/ \E k \in K : h[i] = g[k]
  <2> TAKE i \in 1 .. Len(g)
  <2>1. CASE i <= c
    <3>1. i \in 1 .. c
      BY <1>4, <1>8, <2>1
    <3> QED BY <1>7, <1>10, <2>1, <3>1
  <2>2. CASE ~ (i <= c)
    BY <1>10, <2>2
  <2> QED BY <2>1, <2>2
<1>12. \A i \in 1 .. Len(g) : h[i] \in Entries /\ h[i].dst_port \in (P \ {port}) \cup {0}
  BY <1>4, <1>5, <1>11 DEF Entries, Hole
<1>13. h = [i \in 1 .. Len(g) |-> h[i]]
  BY <1>10
<1>14. h \in [1 .. Len(g) -> Entries]
  BY <1>12, <1>13, Zenon
<1>15. h \in Seq(Entries) /\ Len(h) = Len(g) /\ DOMAIN h = 1 .. Len(g)
  BY <1>4, <1>14
<1>16. HeldFor(h, P \ {port})
  BY <1>4, <1>12, <1>15 DEF HeldFor
<1> QED BY <1>1, <1>9, <1>16

\* The network core of one call: what it does to the three tables.
RoomStep ==
    /\ FitsIn(g_udp_ports', UdpPortMax) /\ FitsIn(g_tcp_listeners', TcpMaxListeners)
    /\ HeldFor(g_udp_datagrams', g_udp_ports')

\* What a call leaves in the tables is the invariant of the next state.
LEMMA RoomStepIs == RoomStep => RoomInv'
BY DEF RoomStep, RoomInv, FitsIn, HeldFor

\* The sizes of the tables are numbers.
LEMMA SizesNat == UdpPortMax \in Nat /\ TcpMaxListeners \in Nat /\ UdpMaxDatagrams \in Nat
BY SocketsAssumption

\* socket, accept, and bind and connect of streams and raw sockets leave the tables alone.
LEMMA RoomKept ==
    ASSUME RoomInv, UNCHANGED <<g_udp_ports, g_udp_datagrams, g_tcp_listeners>>
    PROVE  RoomStep
BY DEF RoomInv, RoomStep

\* A datagram socket has its port in the table, or there is room for it.
LEMMA DgramRoom ==
    ASSUME SocketsInv, RoomInv, NEW fd \in OfType("DGRAM"), HasLocalPort(fd),
           fds[fd].lport # 0 \/ UdpMayBind(LocalPort(fd))
    PROVE  /\ FitsIn(g_udp_ports \cup {LocalPort(fd)}, UdpPortMax)
           /\ HeldFor(g_udp_datagrams, g_udp_ports \cup {LocalPort(fd)})
<1>1. fd \in Fds /\ fds[fd].type = "DGRAM"
  BY DEF OfType
<1>2. LocalPort(fd) \in g_udp_ports \/ Cardinality(g_udp_ports) < UdpPortMax
  <2>1. CASE fds[fd].lport # 0
    <3>1. fds[fd].lport \in Ports /\ fds[fd].bound
      BY <1>1, <2>1 DEF SocketsInv, Socks, Sound
    <3>2. fds[fd].lport \in g_udp_ports
      BY <1>1, <3>1 DEF SocketsInv, Has
    <3> QED BY <2>1, <3>2 DEF LocalPort
  <2>2. CASE UdpMayBind(LocalPort(fd))
    BY <2>2 DEF UdpMayBind
  <2> QED BY <2>1, <2>2
<1> QED BY <1>2, SizesNat, OneMore, HeldWider DEF RoomInv

\* connect and send of a datagram socket, its port bound on the way.
LEMMA DgramRoomStep ==
    ASSUME SocketsInv, RoomInv, NEW fd \in Fds, NEW rport \in Ports,
           ConnectDgram(fd, rport) \/ SendDgram(fd, rport)
    PROVE  RoomStep
<1>1. PICK port : port = LocalPort(fd)
  OBVIOUS
<1>2. /\ fd \in OfType("DGRAM") /\ HasLocalPort(fd) /\ g_tcp_listeners' = g_tcp_listeners
      /\ fds[fd].lport # 0 \/ UdpMayBind(LocalPort(fd))
      /\ g_udp_ports' = g_udp_ports \cup {port}
  BY <1>1, Zenon DEF ConnectDgram, SendDgram, tcp
<1>3. FitsIn(g_udp_ports', UdpPortMax) /\ HeldFor(g_udp_datagrams, g_udp_ports')
  <2>1. /\ FitsIn(g_udp_ports \cup {LocalPort(fd)}, UdpPortMax)
        /\ HeldFor(g_udp_datagrams, g_udp_ports \cup {LocalPort(fd)})
    BY <1>2, DgramRoom, Zenon
  <2>2. g_udp_ports' = g_udp_ports \cup {LocalPort(fd)}
    BY <1>1, <1>2
  <2> QED BY <2>1, <2>2, Zenon
<1>4. CASE g_udp_datagrams' = g_udp_datagrams
  BY <1>2, <1>3, <1>4, Zenon DEF RoomStep, RoomInv
<1>5. CASE /\ rport \in g_udp_ports' /\ Len(g_udp_datagrams) < UdpMaxDatagrams
           /\ g_udp_datagrams' = Append(g_udp_datagrams, [dst_port |-> rport, data |-> 1])
  <2>1. PICK d : d = [dst_port |-> rport, data |-> 1]
    BY Zenon
  <2>2. d \in Entries /\ d.dst_port = rport
    BY <2>1 DEF Entries, Datagrams, Data
  <2>3. HeldFor(g_udp_datagrams', g_udp_ports')
    BY <1>3, <1>5, <2>1, <2>2, HeldMore
  <2> QED BY <1>2, <1>3, <2>3 DEF RoomStep, RoomInv
<1> QED BY <1>4, <1>5 DEF ConnectDgram, SendDgram

\* recv of a datagram socket: qos_net_udp_recv closes the gap.
LEMMA RecvRoomStep ==
    ASSUME SocketsInv, RoomInv, NEW fd \in Fds, RecvDgram(fd)
    PROVE  RoomStep
<1>1. PICK g : g = g_udp_datagrams
  OBVIOUS
<1>2. PICK port : port = fds[fd].lport
  OBVIOUS
<1>3. g \in Seq(Entries) /\ HeldFor(g, g_udp_ports)
  BY <1>1 DEF RoomInv, HeldFor
<1>4. /\ For(port) # {} /\ For(port) \subseteq 1 .. Len(g)
      /\ g_udp_ports' = g_udp_ports /\ g_tcp_listeners' = g_tcp_listeners
  <2>1. UdpRecv(port) /\ UNCHANGED tcp
    BY <1>2 DEF RecvDgram
  <2>2. For(port) # {} /\ g_udp_ports' = g_udp_ports
    BY <2>1 DEF UdpRecv
  <2>3. For(port) \subseteq 1 .. Len(g)
    BY <1>1, <1>3 DEF For
  <2> QED BY <2>1, <2>2, <2>3 DEF tcp
<1>5. PICK m \in 1 .. Len(g) : m = Min(For(port))
  <2>1. For(port) \subseteq Nat
    BY <1>3, <1>4
  <2> QED BY <1>4, <2>1, MinIn
<1>6. PICK h : h = g_udp_datagrams'
  OBVIOUS
<1>7. h = [j \in 1 .. Len(g) - 1 |-> g[IF j < m THEN j ELSE j + 1]]
  BY <1>1, <1>2, <1>5, <1>6 DEF RecvDgram, UdpRecv, MovedUp
<1>8. HeldFor(h, g_udp_ports)
  BY <1>3, <1>7, HeldLess
<1> QED BY <1>4, <1>6, <1>8 DEF RoomStep, RoomInv

\* fd_clear, in close and dup2.
LEMMA GiveBackRoomStep ==
    ASSUME SocketsInv, RoomInv, NEW fd \in Fds, GiveBack(fd)
    PROVE  RoomStep
<1>1. PICK port : port = fds[fd].lport
  OBVIOUS
<1>2. /\ g_tcp_listeners' = g_tcp_listeners \/ g_tcp_listeners' = g_tcp_listeners \ {port}
      /\ UNCHANGED udp \/ UdpUnbind(port)
  BY <1>1 DEF GiveBack
<1>3. FitsIn(g_tcp_listeners', TcpMaxListeners)
  BY <1>2, SizesNat, OneLess DEF RoomInv
<1>4. CASE UNCHANGED udp
  BY <1>3, <1>4 DEF udp, RoomInv, RoomStep
<1>5. CASE UdpUnbind(port)
  <2>1. /\ port \in g_udp_ports /\ g_udp_ports' = g_udp_ports \ {port}
        /\ g_udp_datagrams' = DropDatagrams(port)
    BY <1>5 DEF UdpUnbind
  <2>2. port \in Ports
    BY <2>1 DEF SocketsInv
  <2>3. FitsIn(g_udp_ports', UdpPortMax)
    BY <2>1, SizesNat, OneLess DEF RoomInv
  <2>4. HeldFor(g_udp_datagrams', g_udp_ports')
    BY <2>1, <2>2, HeldNoMore DEF RoomInv
  <2> QED BY <1>3, <2>3, <2>4 DEF RoomStep
<1> QED BY <1>2, <1>4, <1>5

\* qos_net_reset, and the state before it: the tables are empty.
LEMMA RoomEmpty == (Init => RoomInv) /\ (Reset => RoomStep)
<1>1. FitsIn({}, UdpPortMax) /\ FitsIn({}, TcpMaxListeners)
  BY FS_EmptySet, SizesNat DEF FitsIn
<1>2. HeldFor(<<>>, {})
  BY SizesNat DEF HeldFor
<1> QED BY <1>1, <1>2, Zenon DEF Init, UdpInit, TcpInit, Reset, RoomInv, RoomStep

\* Every call keeps the tables of net.c within their sizes and free of stale entries.
LEMMA RoomInvNext == SocketsInv /\ RoomInv /\ [Next]_vars => RoomInv'
<1> SUFFICES ASSUME SocketsInv, RoomInv, [Next]_vars PROVE RoomStep
  BY RoomStepIs
<1>1. CASE UNCHANGED <<g_udp_ports, g_udp_datagrams, g_tcp_listeners>>
  BY <1>1, RoomKept
<1>2. ASSUME NEW fd \in Fds, NEW port \in Ports, BindDgram(fd, port) PROVE RoomStep
  <2>1. /\ g_udp_ports' = g_udp_ports \cup {port} /\ g_udp_datagrams' = g_udp_datagrams
        /\ g_tcp_listeners' = g_tcp_listeners /\ Cardinality(g_udp_ports) < UdpPortMax
    BY <1>2 DEF BindDgram, UdpBind, UdpMayBind, tcp
  <2> QED BY <2>1, SizesNat, OneMore, HeldWider DEF RoomInv, RoomStep
<1>3. ASSUME NEW fd \in Fds, NEW backlog \in Backlogs, Listen(fd, backlog) PROVE RoomStep
  <2>1. PICK port : port = fds[fd].lport
    OBVIOUS
  <2>2. /\ g_tcp_listeners' = g_tcp_listeners \cup {port} /\ UNCHANGED udp
        /\ Cardinality(g_tcp_listeners) < TcpMaxListeners
    BY <1>3, <2>1 DEF Listen, TcpListen, TcpMayListen
  <2> QED BY <2>2, SizesNat, OneMore DEF udp, RoomInv, RoomStep
<1>4. CASE \E type \in SockTypes : Socket(type)
  BY <1>1, <1>4 DEF Socket, udp, tcp
<1>5. ASSUME NEW fd \in Fds, NEW port \in Ports,
             \/ BindRaw(fd, port) \/ BindStream(fd, port) \/ ConnectGateway(fd, port)
             \/ ConnectLocal(fd, port) \/ Accept(fd) \/ ConnectRaw(fd)
      PROVE  RoomStep
  BY <1>1, <1>5
  DEF BindRaw, BindStream, ConnectGateway, ConnectLocal, Accept, ConnectRaw, udp, tcp
<1>6. ASSUME NEW fd \in Fds, Close(fd) PROVE RoomStep
  BY <1>6, GiveBackRoomStep DEF Close
<1>7. ASSUME NEW oldfd \in Fds, NEW newfd \in Fds, Dup2(oldfd, newfd) PROVE RoomStep
  BY <1>7, GiveBackRoomStep DEF Dup2
<1>8. CASE UNCHANGED vars
  BY <1>1, <1>8 DEF vars
<1>9. CASE Next
  <2>1. 1 \in Ports
    BY SocketsAssumption
  <2> QED
    BY <1>2, <1>3, <1>4, <1>5, <1>6, <1>7, <1>9, <2>1, DgramRoomStep, RecvRoomStep, RoomEmpty
    DEF Next, Calls
<1> QED BY <1>8, <1>9

\* The sockets of syscall.c and the tables of net.c stay well formed together: no table
\* overflows, a stream socket has its connection or none, and a datagram in the queue is for
\* a port that is bound, however the calls that bind, connect, send, close and dup2 follow
\* each other.
THEOREM SocketsNothingDangles == Spec => []NothingDangles
<1>1. Init => RoomInv
  BY RoomEmpty
<1>2. Spec => []RoomInv
  BY <1>1, RoomInvNext, SocketsInvariant, PTL DEF Spec
<1> QED BY <1>2, SocketsInvariant, ConnInvariant, RoomInvMeans, PTL
============================================================================
