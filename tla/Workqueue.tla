----------------------------- MODULE Workqueue -----------------------------
(***************************************************************************)
(* The deferred-work queue of c-os/kernel/workqueue/workqueue.c.            *)
(*                                                                         *)
(* g_entries[s] is the id of the work in slot s, 0 when the slot is free:   *)
(* the code sets and clears used, pending, id, fn and arg together.         *)
(* g_queue is the ring of slots, as the sequence of its g_qcount elements   *)
(* from g_qhead on (WorkqueueRing shows that the array implements it).      *)
(* running is {id} while the handler is inside fn(arg) of that work; it is  *)
(* there that client code can enqueue and cancel in the middle of a drain.  *)
(***************************************************************************)
EXTENDS Softirq, Sequences

CONSTANTS WorkSlots,   \* QOS_WORKQUEUE_MAX
          MaxWorkId    \* bound on the ids handed out; g_next_id is 32 bits wide

ASSUME WorkAssumption == WorkSlots \in Nat \ {0} /\ MaxWorkId \in Nat

VARIABLES g_entries, g_queue, g_next_id, g_completed, running

workVars == <<g_entries, g_queue, g_next_id, g_completed, running>>

WSlots == 0 .. WorkSlots - 1
LiveSlots == {s \in WSlots : g_entries[s] # 0}
LiveWork == {g_entries[s] : s \in LiveSlots}
FreeWorks == WSlots \ LiveSlots

WorkInit ==
    /\ g_entries = [s \in WSlots |-> 0]
    /\ g_queue = <<>>
    /\ g_next_id = 1
    /\ g_completed = 0
    /\ running = {}

----------------------------------------------------------------------------
\* The slot the scan of qos_workqueue_enqueue stops at.
FirstFreeWork == CHOOSE s \in FreeWorks : \A t \in FreeWorks : s <= t

\* Mutant: the new slot is put in front of the others.
EnqueueFront ==
    /\ g_next_id <= MaxWorkId
    /\ FreeWorks # {}
    /\ Len(g_queue) < WorkSlots
    /\ g_entries' = [g_entries EXCEPT ![FirstFreeWork] = g_next_id]
    /\ g_queue' = <<FirstFreeWork>> \o g_queue
    /\ g_next_id' = g_next_id + 1
    /\ g_pending_mask' = Raised(WORKQUEUE)
    /\ UNCHANGED <<g_handlers, in_run, active, g_completed, running>>

\* qos_workqueue_enqueue, success: entry filled, slot pushed, vector raised.
\* With no free entry the call returns -1 and changes nothing.
Enqueue ==
    /\ g_next_id <= MaxWorkId
    /\ FreeWorks # {}
    /\ Len(g_queue) < WorkSlots
    /\ g_entries' = [g_entries EXCEPT ![FirstFreeWork] = g_next_id]
    /\ g_queue' = Append(g_queue, FirstFreeWork)
    /\ g_next_id' = g_next_id + 1
    /\ g_pending_mask' = Raised(WORKQUEUE)
    /\ UNCHANGED <<g_handlers, in_run, active, g_completed, running>>

\* qos_workqueue_enqueue, queue_push fails: an entry is free, yet the ring is
\* full of slots whose work was cancelled.  The entry is cleared again, the id
\* is used up, and the call returns -1.
EnqueueRingFull ==
    /\ g_next_id <= MaxWorkId
    /\ FreeWorks # {}
    /\ Len(g_queue) >= WorkSlots
    /\ g_next_id' = g_next_id + 1
    /\ UNCHANGED <<softirqVars, g_entries, g_queue, g_completed, running>>

\* qos_workqueue_cancel: the entry is cleared, its slot stays in the ring.
CancelWork(s) ==
    /\ s \in LiveSlots
    /\ g_entries' = [g_entries EXCEPT ![s] = 0]
    /\ UNCHANGED <<softirqVars, g_queue, g_next_id, g_completed, running>>

\* Mutant: the entry is not cleared before fn is called.
WorkPopKeepsEntry ==
    /\ active = {WORKQUEUE}
    /\ running = {}
    /\ g_queue # <<>>
    /\ g_queue' = Tail(g_queue)
    /\ running' = {g_entries[Head(g_queue)]} \ {0}
    /\ UNCHANGED <<softirqVars, g_entries, g_next_id, g_completed>>

\* One turn of workqueue_softirq_handler's loop: pop a slot, clear its entry
\* and, when there was work in it, call fn.
WorkPop ==
    /\ active = {WORKQUEUE}
    /\ running = {}
    /\ g_queue # <<>>
    /\ g_queue' = Tail(g_queue)
    /\ running' = {g_entries[Head(g_queue)]} \ {0}
    /\ g_entries' = [g_entries EXCEPT ![Head(g_queue)] = 0]
    /\ UNCHANGED <<softirqVars, g_next_id, g_completed>>

\* fn returns.
WorkFnReturn ==
    /\ active = {WORKQUEUE}
    /\ running # {}
    /\ running' = {}
    /\ g_completed' = g_completed + 1
    /\ UNCHANGED <<softirqVars, g_entries, g_queue, g_next_id>>

\* Mutant: the handler returns after any work.
WorkHandlerReturnEarly ==
    /\ running = {}
    /\ HandlerReturn(WORKQUEUE)
    /\ UNCHANGED <<g_pending_mask, workVars>>

\* The ring is empty: the handler returns.
WorkHandlerReturn ==
    /\ running = {}
    /\ g_queue = <<>>
    /\ HandlerReturn(WORKQUEUE)
    /\ UNCHANGED <<g_pending_mask, workVars>>

\* Mutant: ids restart, the entries stay.
WorkResetIdsOnly ==
    /\ g_next_id' = 1
    /\ UNCHANGED <<g_entries, g_queue, g_completed, running>>

\* workqueue_init inside kernel_entry: everything is cleared.
WorkReset ==
    /\ g_entries' = [s \in WSlots |-> 0]
    /\ g_queue' = <<>>
    /\ g_next_id' = 1
    /\ g_completed' = 0
    /\ running' = {}

WorkApi == Enqueue \/ EnqueueRingFull \/ \E s \in WSlots : CancelWork(s)
WorkHandler == WorkPop \/ WorkFnReturn \/ WorkHandlerReturn
----------------------------------------------------------------------------
\* The queue on its own.  The API is called from the main line or, during a
\* drain, from the fn that the handler is in.
WorkSystemInit == SoftirqInit /\ WorkInit

WorkSystemNext ==
    \/ (~in_run \/ running # {}) /\ WorkApi
    \/ (RunEnter \/ RunDispatch \/ RunExit) /\ UNCHANGED workVars
    \/ WorkHandler
    \/ ~in_run /\ SoftirqReset /\ WorkReset

workSystem == <<softirqVars, workVars>>

WorkSafety == WorkSystemInit /\ [][WorkSystemNext]_workSystem

\* The main line calls qos_softirq_run again and again, the dispatcher and the
\* handler run to completion, and every fn returns.
WorkSpec ==
    /\ WorkSafety
    /\ WF_workSystem(RunEnter /\ UNCHANGED workVars)
    /\ WF_workSystem((RunDispatch \/ RunExit) /\ UNCHANGED workVars)
    /\ WF_workSystem(WorkHandler)
----------------------------------------------------------------------------
WorkTypeOK ==
    /\ SoftirqTypeOK
    /\ g_entries \in [WSlots -> 0 .. MaxWorkId]
    /\ g_queue \in Seq(WSlots)
    /\ Len(g_queue) <= WorkSlots
    /\ g_next_id \in 1 .. MaxWorkId + 1
    /\ g_completed \in Nat
    /\ running = {} \/ \E id \in 1 .. MaxWorkId : running = {id}
    /\ running # {} => active = {WORKQUEUE}

\* No accepted work is lost (workqueue.c:53-136): the slot of every live entry
\* is somewhere in the ring, whatever mix of cancels and enqueues recycled the
\* slots, and a non-empty ring has the softirq raised or being handled.
NoLostWork ==
    /\ \A s \in LiveSlots : \E i \in DOMAIN g_queue : g_queue[i] = s
    /\ g_queue # <<>> => WORKQUEUE \in g_pending_mask \/ active = {WORKQUEUE}

\* Live works have distinct ids, all handed out before the next one, and the
\* work that runs is not live any more (workqueue.c:111,64-79): a cancel by id
\* can only hit the work it names.
IdsDistinct ==
    /\ \A s, t \in LiveSlots : g_entries[s] = g_entries[t] => s = t
    /\ \A id \in LiveWork \cup running : id < g_next_id
    /\ running \cap LiveWork = {}

\* Cancelling leaves the slot in the ring, so a recycled slot can run early
\* (workqueue.c:138-153).  What remains of first-in first-out: as long as no
\* slot is in the ring twice, live work leaves the ring in the order of its ids.
FifoUnlessRecycled ==
    (\A i, j \in DOMAIN g_queue : g_queue[i] = g_queue[j] => i = j)
    => \A i, j \in DOMAIN g_queue :
           /\ i < j
           /\ {g_queue[i], g_queue[j]} \subseteq LiveSlots
           => g_entries[g_queue[i]] < g_entries[g_queue[j]]

\* Why: the last place of each slot in the ring is the place of its live work,
\* and those places are in the order of the ids.
LastPlacesOrdered ==
    \A s, t \in LiveSlots :
        g_entries[s] < g_entries[t] =>
            \E j \in DOMAIN g_queue :
                /\ g_queue[j] = t
                /\ \A i \in DOMAIN g_queue : g_queue[i] = s => i < j

\* An unordered pool of work: what the queue promises to its callers.
Pool == INSTANCE WorkPool WITH
            pool <- LiveWork, current <- running,
            completed <- g_completed, next <- g_next_id

\* Every accepted work runs at most once, a cancelled work never starts, work
\* is counted as completed once its fn has returned (workqueue.c:53-153).
ImplementsPool == Pool!PoolSpec

\* Every work that is accepted is eventually run or cancelled (workqueue.c:53-82,
\* 103-136), also one that is accepted while the handler drains the ring.
WorkIsServed ==
    \A id \in 1 .. MaxWorkId : (id \in LiveWork) ~> (id \notin LiveWork)
============================================================================
