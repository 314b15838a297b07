------------------------------ MODULE MCSockets ------------------------------
(***************************************************************************)
(* A small instance of Sockets for TLC.                                     *)
(*                                                                         *)
(* callers bounds a behaviour: either all its sockets are streams, or they  *)
(* are of any type and none listens.  Sockets of different types share the  *)
(* descriptor table and the port numbers, which the second kind covers.     *)
(***************************************************************************)
EXTENDS Sockets

VARIABLE callers

MCInit == Init /\ callers \in {"streams", "mixed"}

MCNext ==
    /\ Next
    /\ UNCHANGED callers
    /\ callers = "streams" => \A fd \in Fds : fds'[fd].type \in {"STREAM", "none"}
    /\ callers = "mixed" => g_tcp_listeners' = {}

MCSpec == MCInit /\ [][MCNext]_<<vars, callers>>
============================================================================
