------------------------------- MODULE Sockets -------------------------------
(***************************************************************************)
(* The socket system calls of c-os/kernel/syscall/syscall.c over the tables *)
(* of net.c: the descriptors, the two port bitmaps, and what a descriptor   *)
(* holds there (a bound port, a listener, a connection).                    *)
(*                                                                         *)
(* A system call runs to completion; a call that is rejected undoes what it *)
(* had taken, changes nothing and is no step.  The remote address is not    *)
(* kept: a call that depends on it is either rejected or goes to the        *)
(* gateway, which is where a connected stream without a connection id       *)
(* points.  The remote port is kept for connections and for connected       *)
(* datagram sockets; nothing reads it elsewhere.  The bytes of a connection *)
(* are in SocketStreams; the answers the kernel makes up itself (an echo, a *)
(* page from the gateway) are data and left out.                            *)
(***************************************************************************)
EXTENDS Integers, Sequences, FiniteSets, FiniteSetsExt

CONSTANTS FdMax,            \* QOS_FD_MAX
          PendingMax,       \* QOS_SOCK_PENDING_MAX
          Backlogs,         \* the backlogs callers ask for
          Ports,            \* the port numbers callers use, without 0
          PortMin,          \* QOS_SOCK_PORT_MIN, QOS_NET_PORT_MIN_DYNAMIC
          EphemeralMin,     \* where socket_port_alloc starts: 49152
          UdpPortMax, UdpMaxDatagrams, TcpMaxListeners, TcpMaxConns

ASSUME SocketsAssumption ==
    /\ {FdMax, PendingMax, UdpPortMax, UdpMaxDatagrams, TcpMaxListeners} \subseteq Nat
    /\ TcpMaxConns \in Nat \ {0}
    /\ Backlogs \subseteq Nat \ {0}
    /\ Ports \subseteq Nat \ {0} /\ 1 \in Ports
    /\ PortMin \in Nat \ {0}

VARIABLES fds,              \* the g_fd_* arrays, one record per descriptor
          ports,            \* g_sock_ports_stream and g_sock_ports_dgram
          g_udp_ports, g_udp_datagrams, g_tcp_listeners, g_tcp_conns,
          copied            \* history: dup2 has copied a queue of connections

Data == {1}

INSTANCE Udp
INSTANCE Tcp

vars == <<fds, ports, g_udp_ports, g_udp_datagrams, g_tcp_listeners, g_tcp_conns, copied>>
udp == <<g_udp_ports, g_udp_datagrams>>
tcp == <<g_tcp_listeners, g_tcp_conns>>

Fds == 0 .. FdMax - 1
SockTypes == {"STREAM", "DGRAM", "RAW"}
NoConnId == -1

\* What fd_alloc and fd_clear leave, with the type as g_fd_used
Cleared == [type |-> "none", bound |-> FALSE, listening |-> FALSE, connected |-> FALSE,
            lport |-> 0, rport |-> 0, conn |-> NoConnId, backlog |-> 0, pending |-> <<>>]

FreeFds == {fd \in Fds : fds[fd].type = "none"}
OfType(type) == {fd \in Fds : fds[fd].type = type}

Init ==
    /\ fds = [fd \in Fds |-> Cleared]
    /\ ports = [type \in {"STREAM", "DGRAM"} |-> {}]
    /\ UdpInit /\ TcpInit
    /\ copied = FALSE
----------------------------------------------------------------------------
\* socket_port_mark would succeed
MayMark(type, port) == port >= PortMin /\ port \notin ports[type]

\* socket_port_alloc: the least free port from EphemeralMin, else from PortMin
MayAlloc(type) == {port \in Ports : MayMark(type, port)}
AllocPort(type) ==
    LET high == {port \in MayAlloc(type) : port >= EphemeralMin}
    IN  Min(IF high # {} THEN high ELSE MayAlloc(type))

\* The local port of a connect or send: the one it has, else a new one
HasLocalPort(fd) == fds[fd].lport # 0 \/ MayAlloc(fds[fd].type) # {}
LocalPort(fd) == IF fds[fd].lport # 0 THEN fds[fd].lport ELSE AllocPort(fds[fd].type)

\* Local ports other than a raw one's are marked.
Marked(type, port) == [ports EXCEPT ![type] = @ \cup {port}]

\* socket
Socket(type) ==
    /\ FreeFds # {}
    /\ fds' = [fds EXCEPT ![Min(FreeFds)] = [Cleared EXCEPT !.type = type]]
    /\ UNCHANGED <<ports, copied, udp, tcp>>

BoundTo(fd, port) == [fds EXCEPT ![fd] = [@ EXCEPT !.bound = TRUE, !.lport = port]]

BindRaw(fd, port) ==
    /\ fd \in OfType("RAW") /\ ~ fds[fd].bound
    /\ fds' = BoundTo(fd, port)
    /\ UNCHANGED <<ports, copied, udp, tcp>>

BindStream(fd, port) ==
    /\ fd \in OfType("STREAM") /\ ~ fds[fd].bound
    /\ MayMark("STREAM", port)
    /\ ports' = Marked("STREAM", port)
    /\ fds' = BoundTo(fd, port)
    /\ UNCHANGED <<copied, udp, tcp>>

BindDgram(fd, port) ==
    /\ fd \in OfType("DGRAM") /\ ~ fds[fd].bound
    /\ MayMark("DGRAM", port)
    /\ UdpBind(port)
    /\ ports' = Marked("DGRAM", port)
    /\ fds' = BoundTo(fd, port)
    /\ UNCHANGED <<copied, tcp>>

\* listen: a bound stream always has a port
Listen(fd, backlog) ==
    /\ fd \in OfType("STREAM") /\ fds[fd].bound /\ fds[fd].lport # 0
    /\ TcpListen(fds[fd].lport)
    /\ fds' = [fds EXCEPT ![fd] = [@ EXCEPT !.listening = TRUE,
                                            !.backlog = Min({backlog, PendingMax})]]
    /\ UNCHANGED <<ports, copied, udp>>

\* Mutant: the connection stays in the queue.
AcceptNoPop(fd) ==
    /\ fds[fd].listening /\ fds[fd].pending # <<>> /\ FreeFds # {}
    /\ LET peer == Head(fds[fd].pending) IN
       fds' = [fds EXCEPT
          ![Min(FreeFds)] = [Cleared EXCEPT !.type = "STREAM", !.bound = TRUE,
                                !.connected = TRUE, !.lport = fds[fd].lport,
                                !.rport = peer.rport, !.conn = peer.conn]]
    /\ UNCHANGED <<ports, copied, udp, tcp>>

\* accept
Accept(fd) ==
    /\ fds[fd].listening /\ fds[fd].pending # <<>> /\ FreeFds # {}
    /\ LET peer == Head(fds[fd].pending) IN
       fds' = [fds EXCEPT
          ![fd].pending = Tail(@),
          ![Min(FreeFds)] = [Cleared EXCEPT !.type = "STREAM", !.bound = TRUE,
                                !.connected = TRUE, !.lport = fds[fd].lport,
                                !.rport = peer.rport, !.conn = peer.conn]]
    /\ UNCHANGED <<ports, copied, udp, tcp>>
----------------------------------------------------------------------------
\* The descriptors connect finds listening on a port
Listeners(fd, rport) ==
    {i \in OfType("STREAM") \ {fd} : fds[i].listening /\ fds[i].lport = rport}

Joined(fd, lport, rport, conn) ==
    [fds EXCEPT ![fd] = [@ EXCEPT !.bound = TRUE, !.connected = TRUE, !.lport = lport,
                                  !.rport = rport, !.conn = conn]]

\* Mutant: the id of an earlier connection stays.
ConnectGatewayStaleId(fd, rport) ==
    /\ fd \in OfType("STREAM") /\ Listeners(fd, rport) = {} /\ HasLocalPort(fd)
    /\ fds' = Joined(fd, LocalPort(fd), 0, fds[fd].conn)
    /\ ports' = Marked("STREAM", LocalPort(fd))
    /\ UNCHANGED <<copied, udp, tcp>>

\* connect of a stream nobody here listens for: the gateway answers
ConnectGateway(fd, rport) ==
    /\ fd \in OfType("STREAM") /\ Listeners(fd, rport) = {} /\ HasLocalPort(fd)
    /\ fds' = Joined(fd, LocalPort(fd), 0, NoConnId)
    /\ ports' = Marked("STREAM", LocalPort(fd))
    /\ UNCHANGED <<copied, udp, tcp>>

\* connect of a stream to a listener: qos_net_tcp_connect, the SYN-ACK, and
\* the entry in the listener's queue.  When the queue is full after all, a new
\* port is given back but the descriptor keeps it.
ConnectLocal(fd, rport) ==
    /\ fd \in OfType("STREAM") /\ Listeners(fd, rport) # {} /\ HasLocalPort(fd)
    /\ TcpMayConnect(LocalPort(fd), rport)
    /\ LET listener == Min(Listeners(fd, rport))
           lport == LocalPort(fd)
           id == Min(Unused)
           queue == fds[listener].pending
           pushed == Len(queue) < PendingMax
       IN
       /\ Len(queue) < fds[listener].backlog
       /\ g_tcp_conns' = [g_tcp_conns EXCEPT
                             ![id] = [Opened(lport, rport) EXCEPT !.state = "ESTABLISHED"]]
       /\ fds' = IF pushed
                 THEN [Joined(fd, lport, rport, id) EXCEPT
                          ![listener].pending = Append(@, [rport |-> lport, conn |-> id])]
                 ELSE Joined(fd, lport, rport, id)
       /\ ports' = IF pushed \/ fds[fd].lport # 0 THEN Marked("STREAM", lport) ELSE ports
    /\ UNCHANGED <<g_tcp_listeners, copied, udp>>

\* connect of a datagram socket, bound on the way when it has no port
ConnectDgram(fd, rport) ==
    /\ fd \in OfType("DGRAM") /\ HasLocalPort(fd)
    /\ fds[fd].lport # 0 \/ UdpMayBind(LocalPort(fd))
    /\ fds' = Joined(fd, LocalPort(fd), rport, fds[fd].conn)
    /\ ports' = Marked("DGRAM", LocalPort(fd))
    /\ g_udp_ports' = g_udp_ports \cup {LocalPort(fd)}
    /\ UNCHANGED <<g_udp_datagrams, copied, tcp>>

ConnectRaw(fd) ==
    /\ fd \in OfType("RAW")
    /\ fds' = Joined(fd, IF fds[fd].lport = 0 THEN 1 ELSE fds[fd].lport, 0, NoConnId)
    /\ UNCHANGED <<ports, copied, udp, tcp>>
----------------------------------------------------------------------------
\* send or write of a datagram; rport is the address argument of an unconnected
\* send.  The port it is bound to on the way stays when nobody takes the datagram.
SendDgram(fd, rport) ==
    /\ fd \in OfType("DGRAM") /\ HasLocalPort(fd)
    /\ fds[fd].connected => rport = fds[fd].rport
    /\ fds[fd].lport # 0 \/ UdpMayBind(LocalPort(fd))
    /\ fds' = BoundTo(fd, LocalPort(fd))
    /\ ports' = Marked("DGRAM", LocalPort(fd))
    /\ g_udp_ports' = g_udp_ports \cup {LocalPort(fd)}
    /\ g_udp_datagrams' =
          IF rport \in g_udp_ports' /\ Len(g_udp_datagrams) < UdpMaxDatagrams
          THEN Append(g_udp_datagrams, [dst_port |-> rport, data |-> 1])
          ELSE g_udp_datagrams
    /\ UNCHANGED <<copied, tcp>>

RecvDgram(fd) ==
    /\ fd \in OfType("DGRAM") /\ fds[fd].lport # 0
    /\ UdpRecv(fds[fd].lport)
    /\ UNCHANGED <<fds, ports, copied, tcp>>
----------------------------------------------------------------------------
\* socket_port_in_use and socket_listener_in_use, fd aside
PortInUse(fd, port, type) ==
    \E i \in OfType(type) \ {fd} : fds[i].bound /\ fds[i].lport = port

\* Mutant: any descriptor bound to the port keeps the listener.
ListenerInUseBound(fd, port) ==
    \E i \in OfType("STREAM") \ {fd} : fds[i].bound /\ fds[i].lport = port

ListenerInUse(fd, port) ==
    \E i \in OfType("STREAM") \ {fd} : fds[i].listening /\ fds[i].lport = port

\* Mutant: the port goes back although another descriptor has it.
GiveBackEagerly(fd) ==
    LET s == fds[fd]
    IN  /\ g_tcp_listeners' = IF s.listening THEN g_tcp_listeners \ {s.lport}
                              ELSE g_tcp_listeners
        /\ UNCHANGED g_tcp_conns
        /\ ports' = IF s.bound /\ s.type # "RAW"
                    THEN [ports EXCEPT ![s.type] = @ \ {s.lport}] ELSE ports
        /\ IF s.bound /\ s.type = "DGRAM" THEN UdpUnbind(s.lport) ELSE UNCHANGED udp

\* fd_clear: what the descriptor held goes back when no other descriptor has it
GiveBack(fd) ==
    LET s == fds[fd]
        unlisten == s.type = "STREAM" /\ s.listening /\ ~ ListenerInUse(fd, s.lport)
        unmark == s.type \in DOMAIN ports /\ s.bound /\ ~ PortInUse(fd, s.lport, s.type)
    IN  /\ g_tcp_listeners' = IF unlisten THEN g_tcp_listeners \ {s.lport}
                              ELSE g_tcp_listeners
        /\ UNCHANGED g_tcp_conns
        /\ ports' = IF unmark THEN [ports EXCEPT ![s.type] = @ \ {s.lport}] ELSE ports
        /\ IF unmark /\ s.type = "DGRAM" /\ s.lport \in g_udp_ports
           THEN UdpUnbind(s.lport)
           ELSE UNCHANGED udp

\* close
Close(fd) ==
    /\ fd \notin FreeFds
    /\ GiveBack(fd)
    /\ fds' = [fds EXCEPT ![fd] = Cleared]
    /\ UNCHANGED copied

\* dup2: the whole descriptor is copied, its queue of connections included
Dup2(oldfd, newfd) ==
    /\ oldfd \notin FreeFds /\ oldfd # newfd
    /\ GiveBack(newfd)
    /\ fds' = [fds EXCEPT ![newfd] = fds[oldfd]]
    /\ copied' = (copied \/ fds[oldfd].pending # <<>>)

\* A later kernel_entry: qos_syscall_reset and net_init
Reset ==
    /\ fds' = [fd \in Fds |-> Cleared]
    /\ ports' = [type \in {"STREAM", "DGRAM"} |-> {}]
    /\ g_udp_ports' = {} /\ g_udp_datagrams' = <<>>
    /\ g_tcp_listeners' = {} /\ g_tcp_conns' = [c \in ConnIds |-> NoConn]
    /\ copied' = FALSE
----------------------------------------------------------------------------
Calls ==
    \/ \E type \in SockTypes : Socket(type)
    \/ \E fd \in Fds, port \in Ports :
          \/ BindRaw(fd, port) \/ BindStream(fd, port) \/ BindDgram(fd, port)
          \/ ConnectGateway(fd, port) \/ ConnectLocal(fd, port) \/ ConnectDgram(fd, port)
          \/ SendDgram(fd, port)
    \/ \E fd \in Fds, backlog \in Backlogs : Listen(fd, backlog)
    \/ \E fd \in Fds :
          Accept(fd) \/ ConnectRaw(fd) \/ RecvDgram(fd) \/ Close(fd)
    \/ \E oldfd, newfd \in Fds : Dup2(oldfd, newfd)

Next == Calls \/ Reset

Spec == Init /\ [][Next]_vars
----------------------------------------------------------------------------
TypeOK ==
    /\ fds \in [Fds -> [type : SockTypes \cup {"none"}, bound : BOOLEAN,
                        listening : BOOLEAN, connected : BOOLEAN,
                        lport : Ports \cup {0}, rport : Ports \cup {0},
                        conn : ConnIds \cup {NoConnId}, backlog : 0 .. PendingMax,
                        pending : Seq([rport : Ports, conn : ConnIds])]]
    /\ ports \in [{"STREAM", "DGRAM"} -> SUBSET Ports]
    /\ UdpTypeOK /\ TcpTypeOK
    /\ copied \in BOOLEAN

LocalPorts(type) == {fds[fd].lport : fd \in {i \in OfType(type) : fds[i].bound}}

\* A port is marked, and bound in the UDP table, exactly while some descriptor
\* is bound to it, whatever binds, connects, accepts, copies and closes there
\* were: fd_clear neither takes the port from a sibling nor leaks it, and the
\* roll-backs of bind, connect and send leave the tables in step.
PortsAgree ==
    /\ ports["STREAM"] = LocalPorts("STREAM")
    /\ ports["DGRAM"] = LocalPorts("DGRAM")
    /\ g_udp_ports = LocalPorts("DGRAM")

\* The network core listens on a port exactly while some descriptor does, and
\* the descriptors that do (copies of one another) are all bound to it.
ListenersAgree ==
    /\ g_tcp_listeners =
          {fds[fd].lport : fd \in {i \in OfType("STREAM") : fds[i].listening}}
    /\ \A fd \in Fds : fds[fd].listening => fds[fd].bound

\* A connection id a descriptor or a queue holds names an established
\* connection between just these two ports, seen from one end or the other,
\* however the descriptors were copied, closed and connected again.
ConnectionsAgree ==
    \A fd \in Fds :
       /\ fds[fd].conn # NoConnId =>
             LET conn == g_tcp_conns[fds[fd].conn] IN
             /\ conn.used /\ conn.state = "ESTABLISHED"
             /\ {conn.local_port, conn.remote_port} = {fds[fd].lport, fds[fd].rport}
       /\ \A i \in DOMAIN fds[fd].pending :
             LET conn == g_tcp_conns[fds[fd].pending[i].conn] IN
             /\ conn.used /\ conn.state = "ESTABLISHED"
             /\ conn.local_port = fds[fd].pending[i].rport
             /\ conn.remote_port = fds[fd].lport

\* No reference between the tables dangles: all have their types,
\* ConnectionsAgree, and no datagram waits for a port that nobody has bound.
NothingDangles ==
    /\ TypeOK
    /\ ConnectionsAgree
    /\ \A i \in DOMAIN g_udp_datagrams :
          g_udp_datagrams[i] # Hole => g_udp_datagrams[i].dst_port \in g_udp_ports

\* Unless dup2 copied a queue, a connection is accepted once: it waits in at
\* most one place of one queue, and not when its accepting end is a descriptor.
AcceptedOnce ==
    ~ copied =>
       \A fd1, fd2 \in Fds : \A i \in DOMAIN fds[fd1].pending :
          LET id == fds[fd1].pending[i].conn IN
          /\ \A j \in DOMAIN fds[fd2].pending :
                fds[fd2].pending[j].conn = id => fd1 = fd2 /\ i = j
          /\ fds[fd2].conn = id => fds[fd2].rport = g_tcp_conns[id].remote_port
============================================================================
