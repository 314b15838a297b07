------------------------------ MODULE MCSched ------------------------------
(* Sched with five pids for four places on two levels: a level can hold the *)
(* watched task behind three others, and the table can be full.              *)
EXTENDS Sched
============================================================================
