------------------------------ MODULE MCProc -------------------------------
(* Proc with two slots, so that slots and pids are reused and the table      *)
(* fills, and one signal of each kind that matters here.                     *)
EXTENDS Proc, TLC

PidSymmetry == Permutations(Pids)
============================================================================
