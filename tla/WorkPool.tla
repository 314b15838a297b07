------------------------------ MODULE WorkPool ------------------------------
(***************************************************************************)
(* What qos_workqueue_enqueue, _cancel and the workqueue softirq promise,   *)
(* without slots, ring or softirq: a pool of accepted work from which works *)
(* are started one at a time, each at most once and never after a cancel.   *)
(***************************************************************************)
EXTENDS Naturals

CONSTANT MaxWorkId

VARIABLES pool,       \* ids of the accepted works that wait
          current,    \* {id} while a work runs, else {}
          completed,  \* works whose function returned
          next        \* next id to hand out

poolVars == <<pool, current, completed, next>>

PoolInit == pool = {} /\ current = {} /\ completed = 0 /\ next = 1

Accept ==
    /\ next <= MaxWorkId
    /\ pool' = pool \cup {next}
    /\ next' = next + 1
    /\ UNCHANGED <<current, completed>>

Reject ==
    /\ next <= MaxWorkId
    /\ next' = next + 1
    /\ UNCHANGED <<pool, current, completed>>

Withdraw(id) ==
    /\ id \in pool
    /\ pool' = pool \ {id}
    /\ UNCHANGED <<current, completed, next>>

Start(id) ==
    /\ current = {}
    /\ id \in pool
    /\ pool' = pool \ {id}
    /\ current' = {id}
    /\ UNCHANGED <<completed, next>>

Finish ==
    /\ current # {}
    /\ current' = {}
    /\ completed' = completed + 1
    /\ UNCHANGED <<pool, next>>

Reset ==
    /\ current = {}
    /\ pool' = {}
    /\ current' = {}
    /\ completed' = 0
    /\ next' = 1

PoolNext ==
    \/ Accept \/ Reject \/ Finish \/ Reset
    \/ \E id \in pool : Withdraw(id) \/ Start(id)

PoolSpec == PoolInit /\ [][PoolNext]_poolVars
============================================================================
