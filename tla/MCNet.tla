-------------------------------- MODULE MCNet --------------------------------
(***************************************************************************)
(* A small instance of Net for TLC.                                         *)
(*                                                                         *)
(* focus is the part the callers of a behaviour use: the parts share no     *)
(* state and no property relates two of them, so exploring them one at a    *)
(* time loses nothing.  Connections are all opened from the last port.      *)
(***************************************************************************)
EXTENDS Net

VARIABLE focus

MCInit == NetInit /\ focus \in {"udp", "tcp", "ring", "arp"}

MCNext ==
    /\ NetNext
    /\ UNCHANGED focus
    /\ focus # "udp" => UNCHANGED <<g_udp_ports, g_udp_datagrams>>
    /\ focus # "tcp" => UNCHANGED <<g_tcp_listeners, g_tcp_conns>>
    /\ focus # "ring" => UNCHANGED <<g_packets, g_head, g_tail, g_count>>
    /\ focus # "arp" => UNCHANGED g_arp
    /\ \A c \in ConnIds : g_tcp_conns'[c].used => g_tcp_conns'[c].local_port = Max(Ports)

MCSpec == MCInit /\ [][MCNext]_<<vars, focus>>
============================================================================
