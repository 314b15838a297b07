--------------------------- MODULE MCSocketStreams --------------------------
(***************************************************************************)
(* A small instance of SocketStreams for TLC.                               *)
(***************************************************************************)
EXTENDS SocketStreams
============================================================================
