--------------------------- MODULE WorkqueueRing ---------------------------
(***************************************************************************)
(* Workqueue with the ring as workqueue.c stores it: an array of slots with *)
(* a head, a tail and a count.  Every step moves the sequence g_queue of    *)
(* Workqueue and the array side by side.                                    *)
(***************************************************************************)
EXTENDS Workqueue

VARIABLES ring, g_qhead, g_qtail, g_qcount

ringVars == <<ring, g_qhead, g_qtail, g_qcount>>

RingInit ==
    /\ WorkSystemInit
    /\ ring = [i \in WSlots |-> 0]
    /\ g_qhead = 0
    /\ g_qtail = 0
    /\ g_qcount = 0

RingReset ==
    /\ ring' = [i \in WSlots |-> 0]
    /\ g_qhead' = 0
    /\ g_qtail' = 0
    /\ g_qcount' = 0

\* Mutant: the tail does not move.
PushSamePlace(s) ==
    /\ g_qcount < WorkSlots
    /\ ring' = [ring EXCEPT ![g_qtail] = s]
    /\ g_qcount' = g_qcount + 1
    /\ UNCHANGED <<g_qhead, g_qtail>>

\* queue_push
Push(s) ==
    /\ g_qcount < WorkSlots
    /\ ring' = [ring EXCEPT ![g_qtail] = s]
    /\ g_qtail' = (g_qtail + 1) % WorkSlots
    /\ g_qcount' = g_qcount + 1
    /\ UNCHANGED g_qhead

\* queue_pop
Pop ==
    /\ g_qcount > 0
    /\ g_qhead' = (g_qhead + 1) % WorkSlots
    /\ g_qcount' = g_qcount - 1
    /\ UNCHANGED <<ring, g_qtail>>

RingHandler ==
    \/ WorkPop /\ Pop
    \/ (WorkFnReturn \/ WorkHandlerReturn) /\ UNCHANGED ringVars

RingNext ==
    \/ (~in_run \/ running # {}) /\ Enqueue /\ Push(FirstFreeWork)
    \/ /\ ~in_run \/ running # {}
       /\ EnqueueRingFull \/ \E s \in WSlots : CancelWork(s)
       /\ UNCHANGED ringVars
    \/ (RunEnter \/ RunDispatch \/ RunExit) /\ UNCHANGED <<workVars, ringVars>>
    \/ RingHandler
    \/ ~in_run /\ SoftirqReset /\ WorkReset /\ RingReset

\* The fairness of Workqueue.
RingSpec ==
    /\ RingInit
    /\ [][RingNext]_<<workSystem, ringVars>>
    /\ WF_workSystem(RunEnter /\ UNCHANGED <<workVars, ringVars>>)
    /\ WF_workSystem((RunDispatch \/ RunExit) /\ UNCHANGED <<workVars, ringVars>>)
    /\ WF_workSystem(RingHandler)

\* The array holds the sequence (workqueue.c:33-51): from the head on, count
\* elements, wrapping at the end of the array; so Push appends and Pop takes the
\* first, and the ring is full exactly when the sequence is.
RingIsQueue ==
    /\ g_queue = [i \in 1 .. g_qcount |-> ring[(g_qhead + i - 1) % WorkSlots]]
    /\ g_qtail = (g_qhead + g_qcount) % WorkSlots
============================================================================
