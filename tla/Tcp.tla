-------------------------------- MODULE Tcp ---------------------------------
(***************************************************************************)
(* The TCP part of c-os/kernel/net/net.c: listening ports and connections.  *)
(*                                                                         *)
(* A slot of g_tcp_listeners is only searched for its port, so the table is *)
(* the set of listening ports.  The index of a connection is its id, so     *)
(* g_tcp_conns keeps its slots.  Nothing but qos_net_reset gives a slot     *)
(* back.  Rejected calls and events that a state ignores are no steps.      *)
(***************************************************************************)
EXTENDS Naturals, FiniteSetsExt

CONSTANTS Ports,              \* the port numbers callers use, without 0
          PortMin,            \* QOS_NET_PORT_MIN_DYNAMIC
          TcpMaxListeners,    \* QOS_NET_TCP_MAX_LISTENERS
          TcpMaxConns         \* QOS_NET_TCP_MAX_CONNS

VARIABLES g_tcp_listeners, g_tcp_conns

tcpVars == <<g_tcp_listeners, g_tcp_conns>>

ConnIds == 0 .. TcpMaxConns - 1

MaxRetries == 5
FirstRto == 500
RtoCap == 60000

TcpEvents == {"RX_SYN", "RX_SYN_ACK", "RX_ACK", "RX_FIN", "APP_CLOSE", "TIMEOUT"}
TcpStates == {"CLOSED", "LISTEN", "SYN_SENT", "SYN_RECEIVED", "ESTABLISHED",
              "FIN_WAIT_1", "FIN_WAIT_2", "CLOSE_WAIT", "CLOSING", "LAST_ACK",
              "TIME_WAIT"}

\* memset to 0: not used, state CLOSED
NoConn == [used |-> FALSE, state |-> "CLOSED", local_port |-> 0, remote_port |-> 0,
           rto_ms |-> 0, retries |-> 0]

Used == {c \in ConnIds : g_tcp_conns[c].used}
Unused == ConnIds \ Used

TcpInit == g_tcp_listeners = {} /\ g_tcp_conns = [c \in ConnIds |-> NoConn]
----------------------------------------------------------------------------
TcpMayListen(port) ==
    /\ port >= PortMin
    /\ port \notin g_tcp_listeners
    /\ Cardinality(g_tcp_listeners) < TcpMaxListeners

\* qos_net_tcp_listen
TcpListen(port) ==
    /\ TcpMayListen(port)
    /\ g_tcp_listeners' = g_tcp_listeners \cup {port}
    /\ UNCHANGED g_tcp_conns

\* qos_net_tcp_unlisten
TcpUnlisten(port) ==
    /\ port \in g_tcp_listeners
    /\ g_tcp_listeners' = g_tcp_listeners \ {port}
    /\ UNCHANGED g_tcp_conns

TcpMayConnect(lport, rport) ==
    /\ lport >= PortMin
    /\ rport \in g_tcp_listeners
    /\ Unused # {}

\* A connection as qos_net_tcp_connect leaves it
Opened(lport, rport) ==
    [used |-> TRUE, state |-> "SYN_SENT", local_port |-> lport, remote_port |-> rport,
     rto_ms |-> FirstRto, retries |-> 0]

\* qos_net_tcp_connect: the first unused slot
TcpConnect(lport, rport) ==
    /\ TcpMayConnect(lport, rport)
    /\ g_tcp_conns' = [g_tcp_conns EXCEPT ![Min(Unused)] = Opened(lport, rport)]
    /\ UNCHANGED g_tcp_listeners
----------------------------------------------------------------------------
\* tcp_next_rto
NextRto(rto) == IF rto > RtoCap \div 2 THEN RtoCap ELSE rto * 2

\* Mutant: a SYN-ACK is also taken after the connection was given up.
ArrowsLateAnswer ==
    {<<"SYN_SENT", "RX_SYN_ACK", "ESTABLISHED">>, <<"CLOSED", "RX_SYN_ACK", "ESTABLISHED">>}

\* The switch of qos_net_tcp_step: state, event, next state.
Arrows ==
    {<<"LISTEN",       "RX_SYN",     "SYN_RECEIVED">>,
     <<"SYN_SENT",     "RX_SYN_ACK", "ESTABLISHED">>,
     <<"SYN_RECEIVED", "RX_ACK",     "ESTABLISHED">>,
     <<"ESTABLISHED",  "APP_CLOSE",  "FIN_WAIT_1">>,
     <<"ESTABLISHED",  "RX_FIN",     "CLOSE_WAIT">>,
     <<"FIN_WAIT_1",   "RX_ACK",     "FIN_WAIT_2">>,
     <<"FIN_WAIT_1",   "RX_FIN",     "CLOSING">>,
     <<"FIN_WAIT_2",   "RX_FIN",     "TIME_WAIT">>,
     <<"CLOSE_WAIT",   "APP_CLOSE",  "LAST_ACK">>,
     <<"CLOSING",      "RX_ACK",     "TIME_WAIT">>,
     <<"LAST_ACK",     "RX_ACK",     "CLOSED">>}

\* Mutant: the retry counter is not tested before it is raised.
TimedOutForever(conn) ==
    CASE conn.state = "TIME_WAIT" -> [conn EXCEPT !.state = "CLOSED"]
      [] conn.state = "SYN_SENT" ->
            [conn EXCEPT !.retries = (@ + 1) % 256, !.rto_ms = NextRto(@)]
      [] OTHER -> conn

\* The timeout branch of qos_net_tcp_step: only TIME_WAIT and SYN_SENT have a
\* timer.
TimedOut(conn) ==
    CASE conn.state = "TIME_WAIT" -> [conn EXCEPT !.state = "CLOSED"]
      [] conn.state = "SYN_SENT" /\ conn.retries >= MaxRetries ->
            [conn EXCEPT !.state = "CLOSED"]
      [] conn.state = "SYN_SENT" /\ conn.retries < MaxRetries ->
            [conn EXCEPT !.retries = @ + 1, !.rto_ms = NextRto(@)]
      [] OTHER -> conn

TcpTimeout(c) ==
    /\ g_tcp_conns[c].used
    /\ g_tcp_conns[c].state \in {"TIME_WAIT", "SYN_SENT"}
    /\ g_tcp_conns' = [g_tcp_conns EXCEPT ![c] = TimedOut(@)]
    /\ UNCHANGED g_tcp_listeners

TcpStep(c, event) ==
    /\ g_tcp_conns[c].used
    /\ \E next \in TcpStates :
          /\ <<g_tcp_conns[c].state, event, next>> \in Arrows
          /\ g_tcp_conns' = [g_tcp_conns EXCEPT ![c].state = next]
    /\ UNCHANGED g_tcp_listeners
----------------------------------------------------------------------------
TcpNext ==
    \/ \E port \in Ports : TcpListen(port) \/ TcpUnlisten(port)
    \/ \E lport, rport \in Ports : TcpConnect(lport, rport)
    \/ \E c \in ConnIds : TcpTimeout(c)
    \/ \E c \in ConnIds, event \in TcpEvents : TcpStep(c, event)

Connections ==
    [used : BOOLEAN, state : TcpStates, local_port : Ports \cup {0},
     remote_port : Ports \cup {0}, rto_ms : 0 .. RtoCap, retries : 0 .. MaxRetries]

TcpTypeOK ==
    /\ g_tcp_listeners \subseteq Ports
    /\ Cardinality(g_tcp_listeners) <= TcpMaxListeners
    /\ g_tcp_conns \in [ConnIds -> Connections]
============================================================================
