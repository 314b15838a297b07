------------------------- MODULE DeferredWorkProofs -------------------------
(***************************************************************************)
(* Proofs about the deferred-work side of the kernel: the workqueue, its    *)
(* ring, the timers, and the three vectors together, for every size of the  *)
(* tables and every bound.                                                  *)
(***************************************************************************)
EXTENDS DeferredWork, WorkqueueRing, SlotLemmas

(***************************************************************************)
(* The workqueue.  The inductive invariant is WorkInv.                      *)
(***************************************************************************)

\* The inductive strengthening: the typing, the three safety properties as
\* they stand, and that no handler is ever unregistered (softirq.c:26-33), by
\* which clearing the workqueue bit always enters the handler.
WorkInv ==
    /\ WorkTypeOK
    /\ NoLostWork
    /\ IdsDistinct
    /\ LastPlacesOrdered
    /\ g_handlers = {TIMER, NET_RX, WORKQUEUE}

\* The entry scan of qos_workqueue_enqueue (workqueue.c:108-109) returns a
\* free slot when there is one.
LEMMA FirstFreeIsFree ==
    ASSUME FreeWorks # {}
    PROVE  FirstFreeWork \in FreeWorks /\ FirstFreeWork \in WSlots
<1>1. FreeWorks \subseteq Nat
  BY WorkAssumption DEF FreeWorks, WSlots
<1>2. \E s \in FreeWorks : \A t \in FreeWorks : s <= t
  BY <1>1, LeastSlot
<1> QED
  BY <1>2 DEF FirstFreeWork, FreeWorks

\* The dispatch scan of qos_softirq_run (softirq.c:51-63) picks a set bit.
LEMMA LowestIsSet ==
    ASSUME NEW mask, mask \subseteq Nat, mask # {}
    PROVE  Lowest(mask) \in mask
BY LeastSlot DEF Lowest

\* The tables are empty after workqueue_init (workqueue.c:85-101,170-173).
LEMMA WorkInvInit == WorkSystemInit => WorkInv
<1> SUFFICES ASSUME WorkSystemInit PROVE WorkInv
  OBVIOUS
<1> USE WorkAssumption, NumVectorsAssumption
    DEF WorkSystemInit, SoftirqInit, WorkInit, WSlots, Vectors, TIMER, NET_RX, WORKQUEUE
<1>1. LiveSlots = {}
  BY DEF LiveSlots
<1>2. WorkTypeOK
  BY DEF WorkTypeOK, SoftirqTypeOK
<1>3. NoLostWork /\ IdsDistinct /\ LastPlacesOrdered
  BY <1>1 DEF NoLostWork, IdsDistinct, LastPlacesOrdered, LiveWork
<1> QED
  BY <1>2, <1>3 DEF WorkInv

\* qos_workqueue_enqueue, success (workqueue.c:103-136).
LEMMA EnqueueInv == WorkInv /\ Enqueue => WorkInv'
<1> SUFFICES ASSUME WorkInv, Enqueue PROVE WorkInv'
  OBVIOUS
<1> USE WorkAssumption, NumVectorsAssumption
<1> DEFINE n == FirstFreeWork
<1>1. n \in WSlots /\ n \in FreeWorks /\ g_entries[n] = 0
  BY FirstFreeIsFree DEF Enqueue, FreeWorks, LiveSlots
<1> HIDE DEF n
<1>2. /\ g_entries' = [g_entries EXCEPT ![n] = g_next_id]
      /\ g_queue' = Append(g_queue, n)
      /\ g_next_id' = g_next_id + 1
      /\ g_next_id <= MaxWorkId
      /\ Len(g_queue) < WorkSlots
      /\ g_pending_mask' = g_pending_mask \cup {WORKQUEUE}
      /\ UNCHANGED <<g_handlers, in_run, active, g_completed, running>>
  BY DEF Enqueue, n, Raised
<1>3. WorkTypeOK
  BY DEF WorkInv
<1>4. /\ g_queue \in Seq(WSlots)
      /\ g_queue' \in Seq(WSlots)
      /\ g_queue' # <<>>
      /\ Len(g_queue) \in Nat
      /\ Len(g_queue') = Len(g_queue) + 1
      /\ DOMAIN g_queue = 1 .. Len(g_queue)
      /\ DOMAIN g_queue' = 1 .. Len(g_queue) + 1
      /\ \A i \in 1 .. Len(g_queue) : g_queue'[i] = g_queue[i]
      /\ g_queue'[Len(g_queue) + 1] = n
  BY <1>1, <1>2, <1>3 DEF WorkTypeOK
<1>5. /\ g_entries \in [WSlots -> 0 .. MaxWorkId]
      /\ g_next_id \in 1 .. MaxWorkId
      /\ g_entries' \in [WSlots -> 0 .. MaxWorkId]
  BY <1>1, <1>2, <1>3 DEF WorkTypeOK
<1>6. LiveSlots' = LiveSlots \cup {n} /\ n \notin LiveSlots
  BY <1>1, <1>2, <1>5 DEF LiveSlots
<1>7. \A s \in LiveSlots : s # n /\ s \in WSlots /\ g_entries'[s] = g_entries[s]
  BY <1>2, <1>5, <1>6 DEF LiveSlots
<1>8. g_entries'[n] = g_next_id
  BY <1>1, <1>2, <1>5
<1>a. WorkTypeOK'
  BY <1>2, <1>3, <1>4, <1>5 DEF WorkTypeOK, SoftirqTypeOK, Vectors, WORKQUEUE
<1>b. NoLostWork'
  <2>1. \A s \in LiveSlots' : \E i \in DOMAIN g_queue' : g_queue'[i] = s
    BY <1>4, <1>6 DEF WorkInv, NoLostWork
  <2> QED
    BY <2>1, <1>2 DEF NoLostWork
<1>c. IdsDistinct'
  <2>1. \A s \in LiveSlots : g_entries[s] \in Nat /\ g_entries[s] < g_next_id
    BY <1>5 DEF WorkInv, IdsDistinct, LiveWork, LiveSlots
  <2>2. \A s, t \in LiveSlots' : g_entries'[s] = g_entries'[t] => s = t
    BY <2>1, <1>5, <1>6, <1>7, <1>8 DEF WorkInv, IdsDistinct
  <2>3. LiveWork' = LiveWork \cup {g_next_id}
    BY <1>6, <1>7, <1>8 DEF LiveWork
  <2>4. g_next_id \notin running
    BY <1>5, <1>3 DEF WorkInv, IdsDistinct, WorkTypeOK
  <2>5. \A id \in LiveWork' \cup running' : id < g_next_id'
    <3>1. \A id \in LiveWork \cup running : id \in Nat /\ id < g_next_id
      BY <2>1, <1>3 DEF WorkInv, IdsDistinct, LiveWork, WorkTypeOK
    <3> QED
      BY <3>1, <2>3, <1>2, <1>5
  <2> QED
    BY <2>2, <2>3, <2>4, <2>5, <1>2 DEF WorkInv, IdsDistinct
<1>d. LastPlacesOrdered'
  <2>1. SUFFICES ASSUME NEW s \in LiveSlots', NEW t \in LiveSlots',
                        g_entries'[s] < g_entries'[t]
                 PROVE  \E j \in DOMAIN g_queue' :
                            /\ g_queue'[j] = t
                            /\ \A i \in DOMAIN g_queue' : g_queue'[i] = s => i < j
    BY DEF LastPlacesOrdered
  <2>2. \A u \in LiveSlots : g_entries[u] \in Nat /\ g_entries[u] < g_next_id
    BY <1>5 DEF WorkInv, IdsDistinct, LiveWork, LiveSlots
  <2>3. s \in LiveSlots
    BY <2>1, <2>2, <1>5, <1>6, <1>7, <1>8
  <2>4. CASE t = n
    BY <2>3, <2>4, <1>4, <1>7
  <2>5. CASE t \in LiveSlots
    BY <2>1, <2>3, <2>5, <1>4, <1>7 DEF WorkInv, LastPlacesOrdered
  <2> QED
    BY <2>4, <2>5, <1>6
<1> QED
  BY <1>2, <1>a, <1>b, <1>c, <1>d DEF WorkInv

\* qos_workqueue_enqueue when the ring is full (workqueue.c:119-126).
LEMMA EnqueueRingFullInv == WorkInv /\ EnqueueRingFull => WorkInv'
<1> SUFFICES ASSUME WorkInv, EnqueueRingFull PROVE WorkInv'
  OBVIOUS
<1> USE WorkAssumption DEF EnqueueRingFull, softirqVars, WorkInv
<1>1. LiveSlots' = LiveSlots /\ LiveWork' = LiveWork
  BY DEF LiveSlots, LiveWork
<1>2. WorkTypeOK'
  BY DEF WorkTypeOK, SoftirqTypeOK
<1>3. NoLostWork' /\ LastPlacesOrdered'
  BY <1>1 DEF NoLostWork, LastPlacesOrdered
<1>4. IdsDistinct'
  <2>1. \A id \in LiveWork \cup running : id \in Nat
    BY DEF LiveWork, LiveSlots, WorkTypeOK
  <2> QED
    BY <1>1, <2>1 DEF IdsDistinct, WorkTypeOK
<1> QED
  BY <1>2, <1>3, <1>4

\* qos_workqueue_cancel (workqueue.c:138-153): one live slot fewer.
LEMMA CancelInv == ASSUME NEW c \in WSlots PROVE WorkInv /\ CancelWork(c) => WorkInv'
<1> SUFFICES ASSUME WorkInv, CancelWork(c) PROVE WorkInv'
  OBVIOUS
<1> USE WorkAssumption DEF CancelWork, softirqVars, WorkInv
<1>1. g_entries \in [WSlots -> 0 .. MaxWorkId] /\ g_entries' \in [WSlots -> 0 .. MaxWorkId]
  BY DEF WorkTypeOK
<1>2. /\ LiveSlots' = LiveSlots \ {c}
      /\ \A s \in LiveSlots' : g_entries'[s] = g_entries[s]
  BY <1>1 DEF LiveSlots
<1>3. LiveWork' \subseteq LiveWork
  BY <1>2 DEF LiveWork
<1>4. WorkTypeOK'
  BY <1>1 DEF WorkTypeOK, SoftirqTypeOK
<1>5. NoLostWork' /\ LastPlacesOrdered' /\ IdsDistinct'
  BY <1>2, <1>3 DEF NoLostWork, LastPlacesOrdered, IdsDistinct
<1> QED
  BY <1>4, <1>5

\* One turn of workqueue_softirq_handler (workqueue.c:53-82).
LEMMA WorkPopInv == WorkInv /\ WorkPop => WorkInv'
<1> SUFFICES ASSUME WorkInv, WorkPop PROVE WorkInv'
  OBVIOUS
<1> USE WorkAssumption DEF WorkPop, softirqVars, WorkInv
<1> DEFINE h == Head(g_queue)
<1>1. /\ g_queue \in Seq(WSlots)
      /\ Len(g_queue) \in Nat \ {0}
      /\ DOMAIN g_queue = 1 .. Len(g_queue)
      /\ h \in WSlots
      /\ h = g_queue[1]
      /\ g_queue' \in Seq(WSlots)
      /\ Len(g_queue') = Len(g_queue) - 1
      /\ DOMAIN g_queue' = 1 .. Len(g_queue) - 1
      /\ \A i \in 1 .. Len(g_queue) - 1 : g_queue'[i] = g_queue[i + 1]
  BY DEF WorkTypeOK
<1> HIDE DEF h
<1>2. /\ g_entries' = [g_entries EXCEPT ![h] = 0]
      /\ running' = {g_entries[h]} \ {0}
  BY DEF h
<1>3. /\ g_entries \in [WSlots -> 0 .. MaxWorkId]
      /\ g_entries' \in [WSlots -> 0 .. MaxWorkId]
  BY <1>1, <1>2 DEF WorkTypeOK
<1>4. /\ LiveSlots' = LiveSlots \ {h}
      /\ \A s \in LiveSlots' : s \in LiveSlots /\ s # h /\ g_entries'[s] = g_entries[s]
  BY <1>1, <1>2, <1>3 DEF LiveSlots
<1>5. LiveWork' \subseteq LiveWork
  BY <1>4 DEF LiveWork
<1>6. WorkTypeOK'
  BY <1>1, <1>2, <1>3 DEF WorkTypeOK, SoftirqTypeOK
<1>7. \A s \in LiveSlots' : \E i \in DOMAIN g_queue' : g_queue'[i] = s
  <2> SUFFICES ASSUME NEW s \in LiveSlots'
               PROVE  \E i \in DOMAIN g_queue' : g_queue'[i] = s
    OBVIOUS
  <2>1. PICK i \in DOMAIN g_queue : g_queue[i] = s
    BY <1>4 DEF NoLostWork
  <2>2. i - 1 \in DOMAIN g_queue' /\ g_queue'[i - 1] = s
    BY <2>1, <1>1, <1>4
  <2> QED
    BY <2>2
<1>8. LastPlacesOrdered'
  <2> SUFFICES ASSUME NEW s \in LiveSlots', NEW t \in LiveSlots',
                      g_entries'[s] < g_entries'[t]
               PROVE  \E j \in DOMAIN g_queue' :
                          /\ g_queue'[j] = t
                          /\ \A i \in DOMAIN g_queue' : g_queue'[i] = s => i < j
    BY DEF LastPlacesOrdered
  <2>1. PICK j \in DOMAIN g_queue :
            /\ g_queue[j] = t
            /\ \A i \in DOMAIN g_queue : g_queue[i] = s => i < j
    BY <1>4 DEF LastPlacesOrdered
  <2>2. j - 1 \in DOMAIN g_queue' /\ g_queue'[j - 1] = t
    BY <2>1, <1>1, <1>4
  <2>3. \A i \in DOMAIN g_queue' : g_queue'[i] = s => i < j - 1
    BY <2>1, <1>1
  <2> QED
    BY <2>2, <2>3
<1>9. IdsDistinct'
  <2>1. \A s, t \in LiveSlots' : g_entries'[s] = g_entries'[t] => s = t
    BY <1>4 DEF IdsDistinct
  <2>2. running' \subseteq LiveWork
    BY <1>1, <1>2, <1>3 DEF LiveWork, LiveSlots
  <2>3. running' \cap LiveWork' = {}
    BY <1>1, <1>2, <1>4 DEF IdsDistinct, LiveWork, LiveSlots
  <2> QED
    BY <2>1, <2>2, <2>3, <1>5 DEF IdsDistinct
<1>10. NoLostWork'
  BY <1>7 DEF NoLostWork
<1> QED
  BY <1>6, <1>8, <1>9, <1>10

\* fn returns, and the handler returns on an empty ring (workqueue.c:53-82).
LEMMA WorkReturnInv == WorkInv /\ (WorkFnReturn \/ WorkHandlerReturn) => WorkInv'
<1> SUFFICES ASSUME WorkInv, WorkFnReturn \/ WorkHandlerReturn PROVE WorkInv'
  OBVIOUS
<1> USE DEF WorkFnReturn, WorkHandlerReturn, HandlerReturn, softirqVars, workVars, WorkInv
<1>1. LiveSlots' = LiveSlots /\ LiveWork' = LiveWork
  BY DEF LiveSlots, LiveWork
<1>2. WorkTypeOK'
  <2>1. CASE WorkFnReturn
    BY <2>1 DEF WorkTypeOK, SoftirqTypeOK
  <2>2. CASE WorkHandlerReturn
    BY <2>2 DEF WorkTypeOK, SoftirqTypeOK
  <2> QED
    BY <2>1, <2>2
<1>3. NoLostWork'
  BY <1>1 DEF NoLostWork
<1>4. LastPlacesOrdered'
  BY <1>1 DEF LastPlacesOrdered
<1>5. IdsDistinct'
  BY <1>1 DEF IdsDistinct
<1> QED
  BY <1>2, <1>3, <1>4, <1>5

\* qos_softirq_run around the handlers (softirq.c:47-67).  The dispatch of the
\* workqueue bit enters the handler, so the ring stays covered.
LEMMA RunInv ==
    WorkInv /\ (RunEnter \/ RunDispatch \/ RunExit) /\ UNCHANGED workVars => WorkInv'
<1> SUFFICES ASSUME WorkInv, RunEnter \/ RunDispatch \/ RunExit, UNCHANGED workVars
             PROVE  WorkInv'
  OBVIOUS
<1> USE DEF workVars, WorkInv
<1>1. LiveSlots' = LiveSlots /\ LiveWork' = LiveWork
  BY DEF LiveSlots, LiveWork
<1>2. LastPlacesOrdered' /\ IdsDistinct'
  BY <1>1 DEF LastPlacesOrdered, IdsDistinct
<1>3. ASSUME RunEnter \/ RunExit PROVE WorkInv'
  BY <1>1, <1>2, <1>3 DEF RunEnter, RunExit, WorkTypeOK, SoftirqTypeOK, NoLostWork
<1>4. ASSUME RunDispatch PROVE WorkInv'
  <2> DEFINE v == Lowest(g_pending_mask)
  <2>1. v \in g_pending_mask
    <3>1. g_pending_mask \subseteq Nat /\ g_pending_mask # {}
      BY <1>4, NumVectorsAssumption DEF RunDispatch, WorkTypeOK, SoftirqTypeOK, Vectors
    <3> QED
      BY <3>1, LowestIsSet
  <2>2. /\ g_pending_mask' = g_pending_mask \ {v}
        /\ active' = {v} \cap g_handlers
        /\ active = {}
        /\ in_run
        /\ UNCHANGED <<g_handlers, in_run>>
    BY <1>4 DEF RunDispatch
  <2> HIDE DEF v
  <2>3. WorkTypeOK'
    <3>1. running = {}
      BY <2>2 DEF WorkTypeOK, WORKQUEUE
    <3>2. SoftirqTypeOK'
      BY <2>1, <2>2 DEF WorkTypeOK, SoftirqTypeOK
    <3> QED
      BY <3>1, <3>2 DEF WorkTypeOK
  <2>4. NoLostWork'
    BY <2>1, <2>2, <1>1 DEF NoLostWork
  <2> QED
    BY <2>2, <2>3, <2>4, <1>2
<1> QED
  BY <1>3, <1>4

\* softirq_init and workqueue_init inside kernel_entry.
LEMMA ResetInv == WorkInv /\ ~in_run /\ SoftirqReset /\ WorkReset => WorkInv'
<1> SUFFICES ASSUME WorkInv, ~in_run, SoftirqReset, WorkReset PROVE WorkInv'
  OBVIOUS
<1> USE WorkAssumption, NumVectorsAssumption
    DEF WorkInv, SoftirqReset, WorkReset, WSlots, Vectors, TIMER, NET_RX, WORKQUEUE
<1>1. LiveSlots' = {}
  BY DEF LiveSlots
<1>2. WorkTypeOK'
  BY DEF WorkTypeOK, SoftirqTypeOK
<1>3. NoLostWork' /\ IdsDistinct' /\ LastPlacesOrdered'
  BY <1>1 DEF NoLostWork, IdsDistinct, LastPlacesOrdered, LiveWork
<1> QED
  BY <1>2, <1>3

\* Every operation, handler step and dispatcher step keeps the invariant.
LEMMA WorkInvNext == WorkInv /\ [WorkSystemNext]_workSystem => WorkInv'
<1> SUFFICES ASSUME WorkInv, [WorkSystemNext]_workSystem PROVE WorkInv'
  OBVIOUS
<1>1. CASE WorkApi
  BY <1>1, EnqueueInv, EnqueueRingFullInv, CancelInv DEF WorkApi
<1>2. CASE (RunEnter \/ RunDispatch \/ RunExit) /\ UNCHANGED workVars
  BY <1>2, RunInv
<1>3. CASE WorkHandler
  BY <1>3, WorkPopInv, WorkReturnInv DEF WorkHandler
<1>4. CASE ~in_run /\ SoftirqReset /\ WorkReset
  BY <1>4, ResetInv
<1>5. CASE UNCHANGED workSystem
  <2>1. LiveSlots' = LiveSlots /\ LiveWork' = LiveWork
    BY <1>5 DEF LiveSlots, LiveWork, workSystem, workVars
  <2> QED
    BY <1>5, <2>1 DEF workSystem, softirqVars, workVars, WorkInv, WorkTypeOK, SoftirqTypeOK,
                      NoLostWork, IdsDistinct, LastPlacesOrdered
<1> QED
  BY <1>1, <1>2, <1>3, <1>4, <1>5 DEF WorkSystemNext

\* The inductive invariant holds in every reachable state of the queue.
THEOREM WorkInvariant == WorkSafety => []WorkInv
BY WorkInvInit, WorkInvNext, PTL DEF WorkSafety

\* Typing: among others, the ring never holds more than QOS_WORKQUEUE_MAX
\* slots and fn is on the stack only inside the workqueue softirq.
THEOREM WorkTypeCorrect == WorkSafety => []WorkTypeOK
<1>1. WorkInv => WorkTypeOK
  BY DEF WorkInv
<1> QED
  BY <1>1, WorkInvariant, PTL

\* No accepted work is lost by the ring, by slot recycling or by the softirq
\* bit (workqueue.c:53-136, softirq.c:47-67).
THEOREM WorkNotLost == WorkSafety => []NoLostWork
<1>1. WorkInv => NoLostWork
  BY DEF WorkInv
<1> QED
  BY <1>1, WorkInvariant, PTL

\* A work id names at most one work, and never one that already started
\* (workqueue.c:103-153).
THEOREM WorkIdsDistinct == WorkSafety => []IdsDistinct
<1>1. WorkInv => IdsDistinct
  BY DEF WorkInv
<1> QED
  BY <1>1, WorkInvariant, PTL

\* The order of the last places is the order of the ring while no slot is there twice.
LEMMA WorkInvFifo == WorkInv => FifoUnlessRecycled
<1> SUFFICES ASSUME WorkInv,
                    \A i, j \in DOMAIN g_queue : g_queue[i] = g_queue[j] => i = j,
                    NEW i \in DOMAIN g_queue, NEW j \in DOMAIN g_queue, i < j,
                    g_queue[i] \in LiveSlots, g_queue[j] \in LiveSlots
             PROVE  g_entries[g_queue[i]] < g_entries[g_queue[j]]
  BY DEF FifoUnlessRecycled
<1> DEFINE s == g_queue[i]
           t == g_queue[j]
<1>1. DOMAIN g_queue \subseteq Nat
  BY DEF WorkInv, WorkTypeOK
<1>2. s # t
  BY <1>1
<1>3. g_entries[s] \in Nat /\ g_entries[t] \in Nat /\ g_entries[s] # g_entries[t]
  BY <1>2 DEF WorkInv, IdsDistinct, WorkTypeOK, LiveSlots
<1>4. ~(g_entries[t] < g_entries[s])
  <2> SUFFICES ASSUME g_entries[t] < g_entries[s] PROVE FALSE
    OBVIOUS
  <2>1. PICK k \in DOMAIN g_queue :
            /\ g_queue[k] = s
            /\ \A m \in DOMAIN g_queue : g_queue[m] = t => m < k
    BY DEF WorkInv, LastPlacesOrdered
  <2>2. k = i /\ j < k
    BY <2>1
  <2> QED
    BY <2>2, <1>1
<1> QED
  BY <1>3, <1>4

\* Live work leaves the ring in the order it was accepted as long as no
\* cancelled slot was recycled (workqueue.c:103-153).
THEOREM WorkFifo == WorkSafety => []FifoUnlessRecycled
BY WorkInvFifo, WorkInvariant, PTL

\* What a step of the kernel can be for the queue: a call, a turn of its handler, the
\* reset of a later kernel_entry, or nothing.
WorkStep ==
    \/ WorkApi \/ WorkHandler \/ UNCHANGED workVars
    \/ ~in_run /\ SoftirqReset /\ WorkReset

\* Every such step of the code is a step of the pool or leaves it alone.
LEMMA PoolStep ==
    ASSUME WorkInv, WorkStep
    PROVE  [Pool!PoolNext]_(Pool!poolVars)
<1> USE DEF Pool!poolVars
<1>t. g_entries \in [WSlots -> 0 .. MaxWorkId] /\ g_queue \in Seq(WSlots)
  BY DEF WorkInv, WorkTypeOK
<1>1. CASE Enqueue
  <2>1. FirstFreeWork \in WSlots /\ FirstFreeWork \notin LiveSlots
    BY <1>1, FirstFreeIsFree DEF Enqueue, FreeWorks
  <2>2. LiveSlots' = LiveSlots \cup {FirstFreeWork}
    BY <1>1, <1>t, <2>1 DEF Enqueue, LiveSlots, WorkInv, WorkTypeOK
  <2>3. LiveWork' = LiveWork \cup {g_next_id}
    BY <1>1, <1>t, <2>1, <2>2 DEF Enqueue, LiveWork, LiveSlots
  <2> QED
    BY <1>1, <2>3 DEF Enqueue, Pool!PoolNext, Pool!Accept
<1>2. CASE EnqueueRingFull
  BY <1>2 DEF EnqueueRingFull, Pool!PoolNext, Pool!Reject, LiveWork, LiveSlots
<1>3. ASSUME NEW c \in WSlots, CancelWork(c) PROVE Pool!PoolNext
  <2>1. LiveWork' = LiveWork \ {g_entries[c]} /\ g_entries[c] \in LiveWork
    BY <1>3, <1>t DEF CancelWork, LiveWork, LiveSlots, WorkInv, IdsDistinct
  <2> QED
    BY <1>3, <2>1 DEF CancelWork, Pool!PoolNext, Pool!Withdraw
<1>4. CASE WorkPop
  <2> DEFINE h == Head(g_queue)
  <2>1. h \in WSlots
    BY <1>4, <1>t DEF WorkPop
  <2>2. CASE g_entries[h] = 0
    <3>1. LiveWork' = LiveWork
      BY <1>4, <1>t, <2>1, <2>2 DEF WorkPop, LiveWork, LiveSlots
    <3> QED
      BY <1>4, <2>2, <3>1 DEF WorkPop
  <2>3. CASE g_entries[h] # 0
    <3>1. LiveWork' = LiveWork \ {g_entries[h]} /\ g_entries[h] \in LiveWork
      BY <1>4, <1>t, <2>1, <2>3 DEF WorkPop, LiveWork, LiveSlots, WorkInv, IdsDistinct
    <3>2. running' = {g_entries[h]}
      BY <1>4, <2>3 DEF WorkPop
    <3> QED
      BY <1>4, <3>1, <3>2 DEF WorkPop, Pool!PoolNext, Pool!Start
  <2> QED
    BY <2>2, <2>3
<1>5. CASE WorkFnReturn
  BY <1>5 DEF WorkFnReturn, Pool!PoolNext, Pool!Finish, LiveWork, LiveSlots
<1>6. CASE UNCHANGED workVars
  BY <1>6 DEF workVars, LiveWork, LiveSlots
<1>7. CASE ~in_run /\ SoftirqReset /\ WorkReset
  <2>1. running = {}
    BY <1>7 DEF WorkInv, WorkTypeOK, SoftirqTypeOK
  <2>2. LiveWork' = {}
    BY <1>7 DEF WorkReset, LiveWork, LiveSlots
  <2> QED
    BY <1>7, <2>1, <2>2 DEF WorkReset, Pool!PoolNext, Pool!Reset
<1> QED
  BY <1>1, <1>2, <1>3, <1>4, <1>5, <1>6, <1>7
  DEF WorkStep, WorkApi, WorkHandler, WorkHandlerReturn

\* The pool starts empty.
LEMMA PoolStarts == WorkInit => Pool!PoolInit
BY DEF WorkInit, Pool!PoolInit, LiveWork, LiveSlots

\* The queue implements the unordered pool of WorkPool (workqueue.c:53-153).
THEOREM WorkImplementsPool == WorkSafety => ImplementsPool
<1>1. WorkSystemInit => Pool!PoolInit
  BY PoolStarts DEF WorkSystemInit
<1>2. [WorkSystemNext]_workSystem => WorkStep
  BY DEF WorkSystemNext, WorkStep, workSystem
<1>3. WorkInv /\ [WorkSystemNext]_workSystem => [Pool!PoolNext]_(Pool!poolVars)
  BY <1>2, PoolStep
<1> QED
  BY <1>1, <1>3, WorkInvariant, PTL DEF WorkSafety, ImplementsPool, Pool!PoolSpec

(***************************************************************************)
(* The ring.  The array with its head, tail and count holds the sequence    *)
(* the proofs above speak of.                                               *)
(***************************************************************************)

\* RingIsQueue with the ranges of the ring's variables.
RingInv ==
    /\ ring \in [WSlots -> WSlots]
    /\ g_qhead \in WSlots
    /\ g_qcount \in 0 .. WorkSlots
    /\ RingIsQueue

\* queue_push (workqueue.c:33-41) writes behind the last element and touches no
\* element that waits, also when the places wrap.
LEMMA PushAppends ==
    ASSUME RingInv, NEW n \in WSlots, Push(n), g_queue' = Append(g_queue, n)
    PROVE  RingInv'
<1> DEFINE c == g_qcount
           At(i) == (g_qhead + i - 1) % WorkSlots
<1>1. /\ WorkSlots \in Nat \ {0} /\ g_qhead \in Nat /\ g_qhead < WorkSlots
      /\ c \in Nat /\ c < WorkSlots /\ c <= WorkSlots /\ c + 1 \in Nat /\ c + 1 <= WorkSlots
      /\ 1 \in Nat /\ 1 <= WorkSlots
  BY WorkAssumption DEF RingInv, Push, WSlots
<1>2. /\ ring' = [ring EXCEPT ![g_qtail] = n] /\ g_qtail' = (g_qtail + 1) % WorkSlots
      /\ g_qcount' = c + 1 /\ g_qhead' = g_qhead
      /\ g_qtail = (g_qhead + c) % WorkSlots
      /\ g_queue = [i \in 1 .. c |-> ring[At(i)]]
  BY DEF Push, RingInv, RingIsQueue
<1>3. g_qtail = IF g_qhead + c < WorkSlots THEN g_qhead + c ELSE g_qhead + c - WorkSlots
  BY <1>1, <1>2, WrapOnce
<1>4. g_qtail \in WSlots
  BY <1>1, <1>3 DEF WSlots
<1>5. \A i \in 1 .. c + 1 :
         At(i) = IF g_qhead + i - 1 < WorkSlots THEN g_qhead + i - 1
                 ELSE g_qhead + i - 1 - WorkSlots
  <2> TAKE i \in 1 .. c + 1
  <2>1. i - 1 \in Nat /\ i - 1 <= WorkSlots
    BY <1>1
  <2>2. (g_qhead + (i - 1)) % WorkSlots = IF g_qhead + (i - 1) < WorkSlots
                                          THEN g_qhead + (i - 1)
                                          ELSE g_qhead + (i - 1) - WorkSlots
    BY <1>1, <2>1, WrapOnce
  <2>3. g_qhead + (i - 1) = g_qhead + i - 1
    BY <1>1
  <2> QED BY <2>2, <2>3
<1> HIDE DEF At
<1>6. At(c + 1) = g_qtail /\ \A i \in 1 .. c : At(i) \in WSlots /\ At(i) # g_qtail
  <2>1. At(c + 1) = g_qtail
    BY <1>1, <1>3, <1>5
  <2>2. ASSUME NEW i \in 1 .. c PROVE At(i) \in WSlots /\ At(i) # g_qtail
    BY <1>1, <1>3, <1>5 DEF WSlots
  <2> QED BY <2>1, <2>2
<1>7. ring' \in [WSlots -> WSlots]
  BY <1>2, <1>4 DEF RingInv
<1>8. /\ ring'[At(c + 1)] = n
      /\ \A i \in 1 .. c : ring'[At(i)] = ring[At(i)]
  BY <1>2, <1>4, <1>6 DEF RingInv
<1>9. g_queue' = [i \in 1 .. c + 1 |-> ring'[At(i)]]
  <2>1. \A i \in 1 .. c : ring[At(i)] \in WSlots
    BY <1>6 DEF RingInv
  <2>2. g_queue \in Seq(WSlots) /\ Len(g_queue) = c
    BY <1>1, <1>2, <2>1
  <2> HIDE DEF c
  <2>3. g_queue' = [i \in 1 .. c + 1 |-> IF i = c + 1 THEN n ELSE g_queue[i]]
    <3>1. g_queue' \in Seq(WSlots) /\ Len(g_queue') = c + 1
      BY <2>2
    <3>2. g_queue' = [i \in 1 .. c + 1 |-> g_queue'[i]]
      BY <3>1, SeqOfPlaces
    <3>3. \A i \in 1 .. c + 1 : g_queue'[i] = IF i = c + 1 THEN n ELSE g_queue[i]
      BY <1>1, <2>2
    <3> QED BY <3>2, <3>3
  <2>4. \A i \in 1 .. c + 1 : ring'[At(i)] = IF i = c + 1 THEN n ELSE g_queue[i]
    BY <1>1, <1>2, <1>8
  <2> QED BY <2>3, <2>4
<1>10. g_qtail' = (g_qhead' + g_qcount') % WorkSlots
  <2>1. (g_qtail + 1) % WorkSlots = IF g_qtail + 1 < WorkSlots THEN g_qtail + 1
                                    ELSE g_qtail + 1 - WorkSlots
    <3>1. g_qtail \in Nat /\ g_qtail < WorkSlots
      BY <1>1, <1>4 DEF WSlots
    <3> QED BY <1>1, <3>1, WrapOnce
  <2>2. (g_qhead + (c + 1)) % WorkSlots = IF g_qhead + (c + 1) < WorkSlots
                                          THEN g_qhead + (c + 1)
                                          ELSE g_qhead + (c + 1) - WorkSlots
    BY <1>1, WrapOnce
  <2> QED BY <1>1, <1>2, <1>3, <2>1, <2>2
<1>11. g_qcount' \in 0 .. WorkSlots /\ g_qhead' \in WSlots
  BY <1>1, <1>2 DEF RingInv
<1>12. RingIsQueue'
  BY <1>2, <1>9, <1>10 DEF RingIsQueue, At
<1> QED BY <1>7, <1>11, <1>12 DEF RingInv

\* queue_pop (workqueue.c:43-51) takes the first element off.
LEMMA PopTakesFirst ==
    ASSUME RingInv, Pop, g_queue' = Tail(g_queue)
    PROVE  RingInv'
<1> DEFINE c == g_qcount
           h == g_qhead
           At(i) == (h + i - 1) % WorkSlots
<1>1. /\ WorkSlots \in Nat \ {0} /\ h \in Nat /\ h < WorkSlots
      /\ c \in Nat \ {0} /\ c <= WorkSlots
      /\ 1 \in Nat /\ 1 <= WorkSlots
  BY WorkAssumption DEF RingInv, Pop, WSlots
<1>2. /\ g_qhead' = (h + 1) % WorkSlots /\ g_qcount' = c - 1
      /\ UNCHANGED <<ring, g_qtail>>
      /\ g_qtail = (h + c) % WorkSlots
      /\ g_queue = [i \in 1 .. c |-> ring[At(i)]]
  BY DEF Pop, RingInv, RingIsQueue
<1>3. g_qhead' = IF h + 1 < WorkSlots THEN h + 1 ELSE 0
  <2>1. (h + 1) % WorkSlots = IF h + 1 < WorkSlots THEN h + 1 ELSE h + 1 - WorkSlots
    BY <1>1, WrapOnce
  <2> QED BY <1>1, <1>2, <2>1
<1>4. ASSUME NEW k \in 0 .. c - 1
      PROVE  (g_qhead' + k) % WorkSlots = (h + (k + 1)) % WorkSlots
  <2>1. k \in Nat /\ k <= WorkSlots /\ k + 1 \in Nat /\ k + 1 <= WorkSlots
    BY <1>1
  <2>2. (h + (k + 1)) % WorkSlots = IF h + (k + 1) < WorkSlots THEN h + (k + 1)
                                    ELSE h + (k + 1) - WorkSlots
    BY <1>1, <2>1, WrapOnce
  <2>3. g_qhead' \in Nat /\ g_qhead' < WorkSlots
    BY <1>1, <1>3
  <2>4. (g_qhead' + k) % WorkSlots = IF g_qhead' + k < WorkSlots THEN g_qhead' + k
                                     ELSE g_qhead' + k - WorkSlots
    BY <1>1, <2>1, <2>3, WrapOnce
  <2> QED BY <1>1, <1>3, <2>1, <2>2, <2>4
<1>5. /\ g_queue' = [i \in 1 .. c - 1 |-> g_queue[i + 1]]
  <2>1. \A i \in 1 .. c : At(i) \in WSlots
    BY <1>1 DEF WSlots
  <2> HIDE DEF At, c
  <2>2. \A i \in 1 .. c : ring[At(i)] \in WSlots
    BY <2>1 DEF RingInv
  <2>3. g_queue \in Seq(WSlots) /\ Len(g_queue) = c
    BY <1>1, <1>2, <2>2
  <2>4. g_queue # <<>>
    BY <1>1, <2>3
  <2>5. Tail(g_queue) \in Seq(WSlots) /\ Len(Tail(g_queue)) = c - 1
    BY <1>1, <2>3, <2>4
  <2>6. Tail(g_queue) = [i \in 1 .. c - 1 |-> Tail(g_queue)[i]]
    BY <2>5, SeqOfPlaces
  <2>7. \A i \in 1 .. c - 1 : Tail(g_queue)[i] = g_queue[i + 1]
    BY <1>1, <2>3, <2>4
  <2> QED BY <2>6, <2>7
<1>6. ASSUME NEW i \in 1 .. c - 1
      PROVE  g_queue[i + 1] = ring[(g_qhead' + i - 1) % WorkSlots]
  <2>1. i - 1 \in 0 .. c - 1 /\ i + 1 \in 1 .. c /\ i \in Nat
    BY <1>1
  <2>2. (g_qhead' + (i - 1)) % WorkSlots = (h + ((i - 1) + 1)) % WorkSlots
    BY <1>4, <2>1
  <2>3. g_qhead' \in Nat
    BY <1>1, <1>3
  <2>4. g_qhead' + (i - 1) = g_qhead' + i - 1 /\ h + ((i - 1) + 1) = h + (i + 1) - 1
    BY <1>1, <2>1, <2>3
  <2> QED BY <1>2, <2>1, <2>2, <2>4
<1>7. g_qtail' = (g_qhead' + g_qcount') % WorkSlots
  <2>1. (g_qhead' + (c - 1)) % WorkSlots = (h + ((c - 1) + 1)) % WorkSlots
    BY <1>1, <1>4
  <2>2. (c - 1) + 1 = c
    BY <1>1
  <2> QED BY <1>2, <2>1, <2>2
<1>8. g_qhead' \in WSlots /\ g_qcount' \in 0 .. WorkSlots
  BY <1>1, <1>2, <1>3 DEF WSlots
<1>9. RingIsQueue'
  <2>1. g_queue' = [i \in 1 .. c - 1 |-> ring[(g_qhead' + i - 1) % WorkSlots]]
    BY <1>5, <1>6
  <2> QED BY <1>2, <1>7, <2>1 DEF RingIsQueue
<1> QED BY <1>2, <1>8, <1>9 DEF RingInv

\* Every step of the queue with its ring keeps the two in step.
LEMMA RingInvNext ==
    ASSUME RingInv, [RingNext]_<<workSystem, ringVars>>
    PROVE  RingInv'
<1>1. CASE Enqueue /\ Push(FirstFreeWork)
  <2>1. FirstFreeWork \in WSlots /\ g_queue' = Append(g_queue, FirstFreeWork)
    BY <1>1, FirstFreeIsFree DEF Enqueue
  <2>2. PICK n \in WSlots : n = FirstFreeWork
    BY <2>1
  <2> QED BY <1>1, <2>1, <2>2, PushAppends
<1>2. CASE WorkPop /\ Pop
  BY <1>2, PopTakesFirst DEF WorkPop
<1>3. CASE ~in_run /\ SoftirqReset /\ WorkReset /\ RingReset
  <2>1. /\ g_queue' = <<>> /\ ring' = [i \in WSlots |-> 0]
        /\ g_qhead' = 0 /\ g_qtail' = 0 /\ g_qcount' = 0
    BY <1>3 DEF WorkReset, RingReset
  <2> QED BY <2>1, WorkAssumption DEF RingInv, RingIsQueue, WSlots
<1>4. CASE UNCHANGED <<g_queue, ringVars>>
  BY <1>4 DEF ringVars, RingInv, RingIsQueue
<1>5. /\ (EnqueueRingFull \/ \E s \in WSlots : CancelWork(s)) => UNCHANGED g_queue
      /\ UNCHANGED workVars => UNCHANGED g_queue
      /\ WorkFnReturn \/ WorkHandlerReturn => UNCHANGED g_queue
      /\ UNCHANGED workSystem => UNCHANGED g_queue
  BY DEF EnqueueRingFull, CancelWork, workVars, WorkFnReturn, WorkHandlerReturn, workSystem
<1> QED BY <1>1, <1>2, <1>3, <1>4, <1>5 DEF RingNext, RingHandler

\* The array ring of workqueue.c:33-51 is the sequence, for every
\* QOS_WORKQUEUE_MAX and however often the places wrapped.
THEOREM RingAlwaysQueue == RingSpec => []RingIsQueue
<1>1. RingInit => RingInv
  <2> SUFFICES ASSUME RingInit PROVE RingInv
    OBVIOUS
  <2>1. /\ g_queue = <<>> /\ ring = [i \in WSlots |-> 0]
        /\ g_qhead = 0 /\ g_qtail = 0 /\ g_qcount = 0
    BY DEF RingInit, WorkSystemInit, WorkInit
  <2> QED BY <2>1, WorkAssumption DEF RingInv, RingIsQueue, WSlots
<1>2. RingInv => RingIsQueue
  BY DEF RingInv
<1> QED BY <1>1, <1>2, RingInvNext, PTL DEF RingSpec

\* The queue with its ring takes only steps of the queue, so what holds of the
\* sequence holds of the array.
THEOREM RingImplementsQueue == RingSpec => WorkSafety
<1>1. RingInit => WorkSystemInit
  BY DEF RingInit
<1>2. [RingNext]_<<workSystem, ringVars>> => [WorkSystemNext]_workSystem
  BY DEF RingNext, RingHandler, WorkSystemNext, WorkApi, WorkHandler
<1> QED BY <1>1, <1>2, PTL DEF RingSpec, WorkSafety

(***************************************************************************)
(* The timers.  The inductive invariant is TimerInv.                        *)
(***************************************************************************)

AllHandlers == {TIMER, NET_RX, WORKQUEUE}

\* What the code keeps true of the entry t of slot s: a mark is covered, or the
\* last pass could not reach its expiry; a mark is a timer that is due and a due
\* timer is marked, unless its rearm tore the two apart; the slot in its callback
\* is not torn; the expiry has its phase; and a one-shot that was fired is the one
\* in its callback.
SlotOk(s, t) ==
    t.used =>
      /\ t.pending =>
            \/ TIMER \in g_pending_mask
            \/ /\ active = {TIMER}
               /\ \/ index = -1
                  \/ s >= index /\ t.expires <= now /\ ~(cb /\ index = s)
            \/ t.torn /\ t.expires > now
      /\ t.pending /\ ~t.torn => t.expires <= g_jiffies
      /\ t.expires <= g_jiffies /\ ~t.torn => t.pending \/ (cb /\ index = s)
      /\ cb /\ index = s => ~t.torn
      /\ t.interval # 0 => t.expires % t.interval = t.phase
      /\ t.interval = 0 /\ t.fired => cb /\ index = s

Entries == [used : BOOLEAN, pending : BOOLEAN, expires : Nat, interval : Nat,
            fired : BOOLEAN, phase : Nat, torn : BOOLEAN]

\* The clock and the handler's cursor.
Cursor ==
    /\ g_jiffies \in 0 .. MaxJiffies
    /\ now \in 0 .. g_jiffies
    /\ index \in -1 .. TimerSlots
    /\ cb \in BOOLEAN
    /\ recycled \in BOOLEAN
    /\ index # -1 => active = {TIMER}
    /\ cb => index \in TSlots

\* The inductive invariant of the timers.  The slot in its callback was fired
\* unless the callback gave it away.
TimerInv ==
    /\ SoftirqTypeOK /\ g_handlers = AllHandlers
    /\ g_timers \in [TSlots -> Entries]
    /\ Cursor
    /\ \A s \in TSlots : SlotOk(s, g_timers[s])
    /\ cb => recycled \/ (g_timers[index].used /\ g_timers[index].fired)

\* It is as strong as the properties the runs check.
LEMMA TimerInvShows ==
    ASSUME TimerInv PROVE NoDrift /\ MarkIsCovered /\ DueIsMarked
<1> USE DEF TimerInv, UsedSlots
<1>0. TimerTypeOK
  BY DEF TimerTypeOK, SoftirqTypeOK, Cursor, Entries, Vectors,
         TIMER
<1>1. NoDrift
  BY <1>0 DEF NoDrift, SlotOk
<1>2. MarkIsCovered
  BY DEF MarkIsCovered, Ahead, ToFire, TIMER, SlotOk
<1>3. DueIsMarked
  BY DEF DueIsMarked, SlotOk
<1> QED BY <1>1, <1>2, <1>3

\* The scan of qos_timer_add (timer.c) stops at a free slot.
LEMMA FreeTimer ==
    ASSUME FreeTimers # {}
    PROVE  FirstFreeTimer \in FreeTimers /\ FirstFreeTimer \in TSlots
<1>1. FreeTimers \subseteq Nat
  BY TimerAssumption DEF FreeTimers, TSlots
<1>2. \E s \in FreeTimers : \A t \in FreeTimers : s <= t
  BY <1>1, LeastSlot
<1> QED BY <1>2 DEF FirstFreeTimer, FreeTimers

\* A period later, and no drift: the while loop of timer_softirq_handler.
LEMMA WholeIntervals ==
    ASSUME NEW e \in Nat, NEW i \in Nat \ {0}, NEW k \in Nat
    PROVE  (e + k * i) % i = e % i
<1> DEFINE q == e \div i
           r == e % i
<1>1. q \in Nat /\ r \in Nat /\ r < i /\ e = i * q + r
  OBVIOUS
<1> HIDE DEF q, r
<1>2. e + k * i = i * (q + k) + r
  BY <1>1
<1>3. (i * (q + k) + r) % i = r
  BY <1>1
<1> QED BY <1>1, <1>2, <1>3 DEF r

\* One interval more than fit into the delay carries the expiry past now: where
\* the loop of timer_softirq_handler (timer.c:39-41) stops.
LEMMA PastNow ==
    ASSUME NEW a \in Nat, NEW i \in Nat \ {0}
    PROVE  a \div i \in Nat /\ a < (a \div i + 1) * i
<1> DEFINE q == a \div i
           r == a % i
<1>1. q \in Nat /\ r \in Nat /\ r < i /\ a = i * q + r
  OBVIOUS
<1> HIDE DEF q, r
<1>2. (q + 1) * i = i * q + i
  BY <1>1
<1> QED BY <1>1, <1>2 DEF q

\* The numbers the steps compare.
LEMMA TimerNumbers ==
    ASSUME TimerInv
    PROVE  /\ g_jiffies \in Nat /\ g_jiffies <= MaxJiffies
           /\ now \in Nat /\ now <= g_jiffies
           /\ index \in Int
BY TimerAssumption DEF TimerInv, Cursor

\* The clock moves at every tick (timer.c:114-118).
LEMMA DelaysPositive == \A d \in Delays : d \in Nat \ {0}
BY TimerAssumption

\* timer_init leaves an empty table and a stopped clock.
LEMMA TimerInitInv == SoftirqInit /\ TimerInit => TimerInv
<1> SUFFICES ASSUME SoftirqInit, TimerInit PROVE TimerInv
  OBVIOUS
<1>1. NoTimer \in Entries /\ ~ NoTimer.used
  BY DEF NoTimer, Entries
<1>2. SoftirqTypeOK /\ g_handlers = AllHandlers
  <2>1. /\ g_pending_mask = {} /\ active = {} /\ in_run \in BOOLEAN
        /\ g_handlers = {TIMER, NET_RX, WORKQUEUE}
    BY DEF SoftirqInit
  <2>2. {TIMER, NET_RX, WORKQUEUE} \subseteq Vectors
    BY NumVectorsAssumption DEF Vectors, TIMER, NET_RX, WORKQUEUE
  <2> QED BY <2>1, <2>2 DEF SoftirqTypeOK, AllHandlers
<1>3. Cursor
  <2>1. ~ cb /\ cb \in BOOLEAN /\ recycled \in BOOLEAN
    BY DEF TimerInit
  <2>2. g_jiffies = 0 /\ now = 0 /\ index = -1
    BY DEF TimerInit
  <2> QED BY <2>1, <2>2, TimerAssumption DEF Cursor
<1>4. g_timers \in [TSlots -> Entries] /\ \A s \in TSlots : SlotOk(s, g_timers[s])
  BY <1>1 DEF SlotOk, TimerInit
<1> QED BY <1>2, <1>3, <1>4 DEF TimerInv, TimerInit

\* qos_timer_add (timer.c): the new timer is not due, and takes no other's slot.
LEMMA TimerAddInv ==
    ASSUME TimerInv, NEW delay \in Delays, NEW interval \in Intervals,
           AddTimer(delay, interval)
    PROVE  TimerInv'
<1> DEFINE n == FirstFreeTimer
           new == NewTimer(delay, interval)
<1>1. n \in TSlots /\ ~ g_timers[n].used
  BY FreeTimer DEF AddTimer, FreeTimers, UsedSlots
<1>2. g_jiffies \in Nat /\ delay \in Nat \ {0} /\ interval \in Nat
  BY TimerNumbers, DelaysPositive, TimerAssumption
<1>3. interval # 0 => (g_jiffies + delay) % interval \in Nat
  BY <1>2
<1>4. new \in Entries
  BY <1>2, <1>3 DEF NewTimer, Entries
<1>5. /\ new.used /\ ~ new.pending /\ ~ new.fired /\ ~ new.torn /\ ~ (new.expires <= g_jiffies)
      /\ new.interval # 0 => new.expires % new.interval = new.phase
  BY <1>2 DEF NewTimer
<1>6. /\ g_timers' = [g_timers EXCEPT ![n] = new]
      /\ UNCHANGED <<g_pending_mask, g_handlers, in_run, active, g_jiffies, now, index, cb,
                     recycled>>
  BY DEF AddTimer, softirqVars
<1> HIDE DEF n, new
<1>7. /\ SoftirqTypeOK' /\ (g_handlers = AllHandlers)' /\ Cursor'
      /\ (g_timers \in [TSlots -> Entries])'
  BY <1>1, <1>4, <1>6 DEF TimerInv, SoftirqTypeOK, Cursor
<1>8. ASSUME NEW s \in TSlots PROVE SlotOk(s, g_timers[s])'
  <2>1. CASE s = n
    <3>1. g_timers'[s] = new
      BY <2>1, <1>1, <1>6 DEF TimerInv
    <3> QED BY <3>1, <1>5, <1>6 DEF SlotOk
  <2>2. CASE s # n
    <3>1. g_timers'[s] = g_timers[s] /\ SlotOk(s, g_timers[s])
      BY <2>2, <1>6 DEF TimerInv
    <3> QED BY <3>1, <1>6 DEF SlotOk
  <2> QED BY <2>1, <2>2
<1>9. ASSUME cb'
      PROVE  recycled' \/ (g_timers'[index'].used /\ g_timers'[index'].fired)
  <2>1. index \in TSlots /\ cb /\ index' = index
    BY <1>6, <1>9 DEF TimerInv, Cursor
  <2>2. g_timers'[index] = IF index = n THEN new ELSE g_timers[index]
    BY <1>6, <2>1 DEF TimerInv
  <2> QED BY <1>1, <1>5, <1>6, <2>1, <2>2 DEF TimerInv
<1> QED BY <1>7, <1>8, <1>9 DEF TimerInv

\* qos_timer_cancel (timer.c).
LEMMA TimerCancelInv ==
    ASSUME TimerInv, NEW c \in TSlots, CancelTimer(c)
    PROVE  TimerInv'
<1>1. /\ g_timers' = [g_timers EXCEPT ![c] = NoTimer]
      /\ recycled' \in BOOLEAN /\ (recycled' <=> recycled \/ (cb /\ index = c))
      /\ UNCHANGED <<g_pending_mask, g_handlers, in_run, active, g_jiffies, now, index, cb>>
  BY DEF CancelTimer, softirqVars, TimerInv, Cursor
<1>2. NoTimer \in Entries /\ ~ NoTimer.used
  BY DEF NoTimer, Entries
<1>3. /\ SoftirqTypeOK' /\ (g_handlers = AllHandlers)' /\ Cursor'
      /\ (g_timers \in [TSlots -> Entries])'
  BY <1>1, <1>2 DEF TimerInv, SoftirqTypeOK, Cursor
<1>4. ASSUME NEW s \in TSlots PROVE SlotOk(s, g_timers[s])'
  <2>1. CASE s = c
    <3>1. g_timers'[s] = NoTimer
      BY <2>1, <1>1 DEF TimerInv
    <3> QED BY <3>1, <1>2 DEF SlotOk
  <2>2. CASE s # c
    <3>1. g_timers'[s] = g_timers[s] /\ SlotOk(s, g_timers[s])
      BY <2>2, <1>1 DEF TimerInv
    <3> QED BY <3>1, <1>1 DEF SlotOk
  <2> QED BY <2>1, <2>2
<1>5. ASSUME cb'
      PROVE  recycled' \/ (g_timers'[index'].used /\ g_timers'[index'].fired)
  <2>1. index \in TSlots /\ cb /\ index' = index
    BY <1>1, <1>5 DEF TimerInv, Cursor
  <2>2. g_timers'[index] = IF index = c THEN NoTimer ELSE g_timers[index]
    BY <1>1, <2>1 DEF TimerInv
  <2> QED BY <1>1, <1>2, <2>1, <2>2 DEF TimerInv
<1> QED BY <1>3, <1>4, <1>5 DEF TimerInv

\* qos_timer_tick (timer.c:114-130): what becomes due is marked, and the vector
\* raised for new marks.
LEMMA TimerTickInv ==
    ASSUME TimerInv, NEW elapsed \in Delays, Tick(elapsed)
    PROVE  TimerInv'
<1> DEFINE j == g_jiffies + elapsed
           Newly == {s \in UsedSlots : ~g_timers[s].pending /\ g_timers[s].expires <= j}
           Marked(s) == [g_timers[s] EXCEPT !.pending = TRUE, !.torn = FALSE]
<1>1. j <= MaxJiffies
  BY DEF Tick
<1>0. g_jiffies' = j /\ UNCHANGED <<g_handlers, in_run, active, now, index, cb, recycled>>
  BY DEF Tick
<1>2. /\ g_timers' = [s \in TSlots |->
             IF s \in Newly THEN Marked(s) ELSE g_timers[s]]
      /\ g_pending_mask' = IF Newly # {} THEN g_pending_mask \cup {TIMER} ELSE g_pending_mask
  BY DEF Tick, Raised, TIMER
<1>3. \A s \in TSlots : s \in Newly <=> /\ g_timers[s].used /\ ~g_timers[s].pending
                                          /\ g_timers[s].expires <= j
  BY DEF UsedSlots
<1>4. /\ g_jiffies \in Nat /\ now \in Nat /\ now <= g_jiffies
      /\ j \in Nat /\ g_jiffies < j
  BY TimerNumbers, DelaysPositive
<1>5. \A s \in TSlots : g_timers[s] \in Entries /\ SlotOk(s, g_timers[s])
  BY DEF TimerInv
<1>6. ASSUME NEW s \in TSlots
      PROVE  LET t == g_timers[s]
                 u == Marked(s)
             IN  /\ u \in Entries
                 /\ u.pending /\ ~ u.torn /\ u.expires = t.expires
                 /\ u.interval = t.interval /\ u.phase = t.phase
                 /\ (u.used <=> t.used) /\ (u.fired <=> t.fired)
  BY <1>5 DEF Entries
<1> HIDE DEF j, Newly, Marked
<1>7. g_timers' \in [TSlots -> Entries]
  BY <1>2, <1>5, <1>6
<1>8. TIMER \in Vectors /\ g_pending_mask \subseteq Vectors
  BY NumVectorsAssumption DEF TimerInv, SoftirqTypeOK, Vectors, TIMER
<1>9. SoftirqTypeOK' /\ (g_handlers = AllHandlers)'
  BY <1>0, <1>2, <1>8 DEF TimerInv, SoftirqTypeOK
<1>10. Cursor'
  <2>1. g_jiffies' \in 0 .. MaxJiffies /\ now' \in 0 .. g_jiffies'
    BY <1>0, <1>1, <1>4, TimerAssumption
  <2> QED BY <1>0, <2>1 DEF TimerInv, Cursor
<1>11. ASSUME NEW s \in TSlots PROVE SlotOk(s, g_timers[s])'
  <2> DEFINE t == g_timers[s]
             u == g_timers'[s]
  <2>1. CASE s \in Newly
    <3>1. u = Marked(s)
      BY <1>2, <2>1
    <3>2. /\ u.pending /\ ~ u.torn /\ u.expires = t.expires /\ u.interval = t.interval
          /\ u.phase = t.phase /\ (u.fired <=> t.fired)
      BY <3>1, <1>6
    <3>3. t.used /\ t.expires <= j /\ SlotOk(s, t)
      BY <1>3, <1>5, <2>1
    <3>4. TIMER \in g_pending_mask'
      BY <1>2, <2>1
    <3> HIDE DEF t
    <3> QED BY <3>2, <3>3, <3>4, <1>0 DEF SlotOk
  <2>2. CASE s \notin Newly
    <3>1. u = t
      BY <1>2, <2>2
    <3>2. /\ SlotOk(s, t) /\ t.expires \in Nat
          /\ t.used /\ t.expires <= j => t.pending
      BY <1>3, <1>5, <2>2 DEF Entries
    <3>3. TIMER \in g_pending_mask => TIMER \in g_pending_mask'
      BY <1>2
    <3>4. t.expires <= g_jiffies => t.expires <= j
      BY <1>4, <3>2
    <3> HIDE DEF t
    <3> QED BY <3>1, <3>2, <3>3, <3>4, <1>0 DEF SlotOk
  <2> QED BY <2>1, <2>2
<1>12. ASSUME cb'
      PROVE  recycled' \/ (g_timers'[index'].used /\ g_timers'[index'].fired)
  <2>1. index \in TSlots /\ cb /\ index' = index
    BY <1>0, <1>12 DEF TimerInv, Cursor
  <2>2. /\ g_timers'[index].used <=> g_timers[index].used
        /\ g_timers'[index].fired <=> g_timers[index].fired
    BY <1>2, <1>6, <2>1
  <2> QED BY <1>0, <2>1, <2>2 DEF TimerInv
<1> QED BY <1>7, <1>9, <1>10, <1>11, <1>12 DEF TimerInv

\* timer_softirq_handler starts (timer.c:24-28): every mark is due by the clock
\* it reads, so the pass reaches it.
LEMMA TimerEnterInv ==
    ASSUME TimerInv, HandlerEnter
    PROVE  TimerInv'
<1>1. /\ active = {TIMER} /\ index = -1 /\ index' = 0 /\ now' = g_jiffies
      /\ UNCHANGED <<g_pending_mask, g_handlers, in_run, active, g_timers, g_jiffies, cb,
                     recycled>>
  BY DEF HandlerEnter, softirqVars, TIMER
<1>2. ~ cb
  BY <1>1, TimerAssumption DEF TimerInv, Cursor, TSlots
<1>3. SoftirqTypeOK'
  BY <1>1 DEF TimerInv, SoftirqTypeOK
<1>4. Cursor'
  BY <1>1, <1>2, TimerNumbers, TimerAssumption DEF TimerInv, Cursor
<1>5. ASSUME NEW s \in TSlots PROVE SlotOk(s, g_timers[s])'
  <2>1. SlotOk(s, g_timers[s]) /\ s >= 0
    BY TimerAssumption DEF TimerInv, TSlots
  <2>2. g_timers[s].expires <= g_jiffies \/ g_timers[s].expires > g_jiffies
    <3>1. g_jiffies \in Nat
      BY TimerNumbers
    <3>2. g_timers[s] \in Entries
      BY DEF TimerInv
    <3>3. g_timers[s].expires \in Nat
      BY <3>2 DEF Entries
    <3> QED BY <3>1, <3>3
  <2> QED BY <1>1, <1>2, <2>1, <2>2 DEF SlotOk
<1> QED BY <1>1, <1>2, <1>3, <1>4, <1>5 DEF TimerInv

\* The loop reaches the next due slot (timer.c:29-36).
LEMMA TimerFireInv ==
    ASSUME TimerInv, Fire
    PROVE  TimerInv'
<1> DEFINE Due == ToFire
           n == CHOOSE s \in Due : \A t \in Due : s <= t
           Fired == [g_timers[n] EXCEPT !.pending = FALSE, !.fired = TRUE, !.torn = FALSE]
<1>1. \A s \in TSlots : s \in Due <=> /\ g_timers[s].used /\ s >= index
                                        /\ g_timers[s].pending /\ g_timers[s].expires <= now
  BY DEF ToFire, UsedSlots
<1>2. Due \subseteq TSlots /\ TSlots \subseteq Nat /\ Due # {}
  <2>1. TSlots \subseteq Nat
    BY TimerAssumption DEF TSlots
  <2>2. Due \subseteq TSlots
    BY DEF ToFire, UsedSlots
  <2>3. Due # {}
    BY DEF Fire
  <2> QED BY <2>1, <2>2, <2>3
<1> HIDE DEF Due
<1>3. n \in Due /\ \A t \in Due : n <= t
  <2>1. \E s \in Due : \A t \in Due : s <= t
    BY <1>2, LeastSlot
  <2> QED BY <2>1
<1>4. /\ active = {TIMER} /\ index >= 0 /\ ~ cb
      /\ UNCHANGED <<g_pending_mask, g_handlers, in_run, active, g_jiffies, now>>
  BY DEF Fire, softirqVars, TIMER
<1>5. index' = n /\ cb' /\ cb' \in BOOLEAN /\ recycled' \in BOOLEAN
  BY DEF Fire, Due
<1>6. g_timers[n] \in Entries /\ n \in TSlots
  BY <1>2, <1>3 DEF TimerInv
<1>7. g_timers' = [g_timers EXCEPT ![n] = Fired]
  <2>1. g_timers' = [g_timers EXCEPT ![n].pending = FALSE, ![n].fired = TRUE, ![n].torn = FALSE]
    BY DEF Fire, Due
  <2> HIDE DEF n
  <2> QED BY <2>1, <1>6 DEF TimerInv, Entries
<1>8. /\ Fired \in Entries /\ ~ Fired.pending /\ Fired.fired /\ ~ Fired.torn
      /\ Fired.interval = g_timers[n].interval /\ Fired.expires = g_timers[n].expires
      /\ Fired.phase = g_timers[n].phase /\ (Fired.used <=> g_timers[n].used)
  <2> HIDE DEF n
  <2> QED BY <1>6 DEF Entries
<1> HIDE DEF n, Fired
<1>9. SoftirqTypeOK' /\ (g_handlers = AllHandlers)' /\ (g_timers \in [TSlots -> Entries])'
  BY <1>4, <1>6, <1>7, <1>8 DEF TimerInv, SoftirqTypeOK
<1>10. Cursor'
  <2>1. index' \in TSlots /\ index' \in -1 .. TimerSlots
    BY <1>5, <1>6, TimerAssumption DEF TSlots
  <2> QED BY <1>4, <1>5, <2>1 DEF TimerInv, Cursor
<1>11. ASSUME NEW s \in TSlots PROVE SlotOk(s, g_timers[s])'
  <2>1. SlotOk(s, g_timers[s])
    BY DEF TimerInv
  <2>2. CASE s = n
    <3>1. g_timers'[s] = Fired
      BY <1>6, <1>7, <2>2 DEF TimerInv
    <3> QED BY <3>1, <2>1, <2>2, <1>4, <1>5, <1>8 DEF SlotOk
  <2>3. CASE s # n
    <3>1. g_timers'[s] = g_timers[s]
      BY <1>7, <2>3 DEF TimerInv
    <3>2. /\ g_timers[s].used /\ g_timers[s].pending /\ g_timers[s].expires <= now
          /\ s >= index
          => s >= n
      BY <1>1, <1>2, <1>3
    <3>3. index # -1
      BY <1>4
    <3> QED BY <3>1, <3>2, <3>3, <2>1, <2>3, <1>4, <1>5 DEF SlotOk
  <2> QED BY <2>2, <2>3
<1>12. /\ ~ g_timers'[n].pending
       /\ g_timers'[n].used /\ g_timers'[n].fired
  BY <1>1, <1>3, <1>6, <1>7, <1>8 DEF TimerInv
<1> QED BY <1>5, <1>9, <1>10, <1>11, <1>12 DEF TimerInv

\* The expiry the while loop ends with (timer.c:38-41): past the handler's clock,
\* and in phase.
LEMMA NextExpiryOk ==
    ASSUME NEW e \in Nat, NEW i \in Nat \ {0}, now \in Nat
    PROVE  /\ NextExpiry(e, i) \in Nat
           /\ NextExpiry(e, i) > now
           /\ NextExpiry(e, i) % i = e % i
<1>1. CASE e > now
  BY <1>1 DEF NextExpiry
<1>2. CASE e <= now
  <2> DEFINE k == (now - e) \div i + 1
  <2>1. now - e \in Nat
    BY <1>2
  <2>2. k \in Nat /\ now - e < k * i
    BY <2>1, PastNow
  <2>3. NextExpiry(e, i) = e + k * i
    BY <1>2 DEF NextExpiry
  <2> HIDE DEF k
  <2>4. k * i \in Nat
    BY <2>2
  <2>5. (e + k * i) % i = e % i
    BY <2>2, WholeIntervals
  <2> QED BY <2>2, <2>3, <2>4, <2>5, <1>2
<1> QED BY <1>1, <1>2

\* The callback returns (timer.c:37-51).
LEMMA TimerCallbackReturnInv ==
    ASSUME TimerInv, CallbackReturn
    PROVE  TimerInv'
<1> DEFINE t == g_timers[index]
           e == NextExpiry(t.expires, t.interval)
           apart == e > now /\ t.pending # (e <= g_jiffies)
           Rearmed == [t EXCEPT !.expires = e, !.torn = apart]
           u == IF t.used /\ t.interval # 0 THEN Rearmed ELSE NoTimer
<1>1. /\ active = {TIMER} /\ cb /\ ~ cb' /\ cb' \in BOOLEAN /\ index' = index + 1
      /\ UNCHANGED <<g_pending_mask, g_handlers, in_run, active, g_jiffies, now, recycled>>
  BY DEF CallbackReturn, softirqVars, TIMER
<1>2. g_timers' = [g_timers EXCEPT ![index] = u]
  BY DEF CallbackReturn
<1>3. index \in TSlots /\ t \in Entries /\ SlotOk(index, t)
  BY <1>1 DEF TimerInv, Cursor
<1>4. g_jiffies \in Nat /\ now \in Nat /\ now <= g_jiffies /\ TSlots \subseteq Nat
  BY TimerNumbers, TimerAssumption DEF TSlots
<1>5. ASSUME t.used, t.interval # 0
      PROVE  /\ Rearmed \in Entries
             /\ (Rearmed.pending <=> t.pending)
             /\ (Rearmed.torn <=> ~ (t.pending <=> Rearmed.expires <= g_jiffies))
             /\ Rearmed.interval = t.interval /\ Rearmed.phase = t.phase
             /\ Rearmed.expires > now /\ Rearmed.expires \in Nat
             /\ Rearmed.expires % Rearmed.interval = Rearmed.phase
  <2>1. t.expires \in Nat /\ t.interval \in Nat \ {0} /\ t.expires % t.interval = t.phase
    BY <1>3, <1>5 DEF Entries, SlotOk
  <2>2. e \in Nat /\ e > now /\ e % t.interval = t.phase
    BY <2>1, <1>4, NextExpiryOk
  <2>3. t \in Entries /\ t.pending \in BOOLEAN
    BY <1>3 DEF Entries
  <2> HIDE DEF e, t
  <2>4. apart \in BOOLEAN /\ (apart <=> ~ (t.pending <=> e <= g_jiffies))
    BY <2>2, <2>3
  <2> HIDE DEF apart
  <2>5. Rearmed = [t EXCEPT !.expires = e, !.torn = apart]
    OBVIOUS
  <2>6. /\ Rearmed \in Entries
        /\ (Rearmed.pending <=> t.pending) /\ (Rearmed.torn <=> apart)
        /\ Rearmed.interval = t.interval /\ Rearmed.phase = t.phase /\ Rearmed.expires = e
    <3> HIDE DEF Rearmed
    <3> QED BY <2>2, <2>3, <2>4, <2>5 DEF Entries
  <2> HIDE DEF Rearmed
  <2> QED BY <2>2, <2>4, <2>6
<1>6. NoTimer \in Entries /\ ~ NoTimer.used
  BY DEF NoTimer, Entries
<1>7. u \in Entries
  BY <1>5, <1>6
<1>8. ASSUME NEW s, s = index, NEW new, new = u PROVE SlotOk(s, new)'
  <2>1. CASE t.used /\ t.interval # 0
    <3>1. new = Rearmed
      BY <2>1, <1>8
    <3>2. ~ new.torn => (new.pending <=> new.expires <= g_jiffies)
      BY <3>1, <2>1, <1>5
    <3>3. new.pending => TIMER \in g_pending_mask
      <4>1. index # -1
        BY <1>3, <1>4
      <4>2. t.pending => TIMER \in g_pending_mask
        <5>1. t.used /\ cb /\ SlotOk(index, t)
          BY <2>1, <1>1, <1>3
        <5> HIDE DEF t
        <5> QED BY <5>1, <4>1 DEF SlotOk
      <4>3. new.pending <=> t.pending
        BY <3>1, <2>1, <1>5
      <4> QED BY <4>2, <4>3
    <3>4. new.interval # 0 /\ new.expires % new.interval = new.phase
      BY <3>1, <2>1, <1>5
    <3> QED BY <3>2, <3>3, <3>4, <1>1 DEF SlotOk
  <2>2. CASE ~ (t.used /\ t.interval # 0)
    <3>1. ~ new.used
      BY <2>2, <1>6, <1>8
    <3> QED BY <3>1 DEF SlotOk
  <2> QED BY <2>1, <2>2
<1> HIDE DEF u
<1>9. SoftirqTypeOK' /\ (g_handlers = AllHandlers)' /\ (g_timers \in [TSlots -> Entries])'
  BY <1>1, <1>2, <1>7 DEF TimerInv, SoftirqTypeOK
<1>10. Cursor'
  BY <1>1, <1>3, TimerAssumption DEF TimerInv, Cursor, TSlots
<1>11. ASSUME NEW s \in TSlots PROVE SlotOk(s, g_timers[s])'
  <2>1. CASE s = index
    <3>1. g_timers'[s] = u
      BY <1>2, <2>1 DEF TimerInv
    <3>2. PICK new : new = u
      OBVIOUS
    <3>3. SlotOk(s, new)'
      BY <3>2, <2>1, <1>8
    <3> QED BY <3>1, <3>2, <3>3 DEF SlotOk
  <2>2. CASE s # index
    <3>1. g_timers'[s] = g_timers[s] /\ SlotOk(s, g_timers[s])
      BY <1>2, <2>2 DEF TimerInv
    <3>2. s >= index => s >= index + 1
      BY <2>2, <1>3, <1>4
    <3>3. index # -1
      BY <1>3, <1>4
    <3> QED BY <3>1, <3>2, <3>3, <2>2, <1>1 DEF SlotOk
  <2> QED BY <2>1, <2>2
<1> QED BY <1>1, <1>9, <1>10, <1>11 DEF TimerInv

\* timer_softirq_handler returns (timer.c:52-53): no mark is left behind that
\* has not raised the vector.
LEMMA TimerReturnInv ==
    ASSUME TimerInv, TimerHandlerReturn
    PROVE  TimerInv'
<1>1. /\ active = {TIMER} /\ active' = {} /\ index >= 0 /\ ~ cb /\ index' = -1
      /\ UNCHANGED <<g_pending_mask, g_handlers, in_run, g_timers, g_jiffies, now, cb, recycled>>
  BY DEF TimerHandlerReturn, HandlerReturn, TIMER
<1>2. ToFire = {}
  BY DEF TimerHandlerReturn
<1>3. SoftirqTypeOK' /\ Cursor'
  BY <1>1, TimerAssumption DEF TimerInv, SoftirqTypeOK, Cursor
<1>4. ASSUME NEW s \in TSlots PROVE SlotOk(s, g_timers[s])'
  <2>1. SlotOk(s, g_timers[s]) /\ index # -1
    BY <1>1 DEF TimerInv
  <2>2. ~ (/\ g_timers[s].used /\ g_timers[s].pending
           /\ g_timers[s].expires <= now /\ s >= index)
    BY <1>2 DEF ToFire, UsedSlots
  <2> QED BY <1>1, <2>1, <2>2 DEF SlotOk
<1> QED BY <1>1, <1>3, <1>4 DEF TimerInv

\* What the other vectors do: timers and the timer bit are left alone.
LEMMA TimerFrame ==
    ASSUME TimerInv, UNCHANGED timerVars, SoftirqTypeOK', g_handlers' = g_handlers,
           TIMER \in g_pending_mask <=> TIMER \in g_pending_mask',
           active = {TIMER} <=> active' = {TIMER}
    PROVE  TimerInv'
<1>1. UNCHANGED <<g_timers, g_jiffies, now, index, cb, recycled>>
  BY DEF timerVars
<1>2. Cursor'
  BY <1>1 DEF TimerInv, Cursor
<1>3. ASSUME NEW s \in TSlots PROVE SlotOk(s, g_timers[s])'
  <2>1. SlotOk(s, g_timers[s])
    BY DEF TimerInv
  <2> QED BY <1>1, <2>1 DEF SlotOk
<1> QED BY <1>1, <1>2, <1>3 DEF TimerInv

\* The dispatch scan of qos_softirq_run (softirq.c:51-63) clears one set bit and
\* enters its handler, which is registered.
LEMMA DispatchOne ==
    ASSUME SoftirqTypeOK, g_handlers = AllHandlers, RunDispatch
    PROVE  /\ active = {} /\ SoftirqTypeOK' /\ g_handlers' = g_handlers
           /\ \A v \in AllHandlers :
                 v \in g_pending_mask => v \in g_pending_mask' \/ active' = {v}
           /\ \A v \in AllHandlers :
                 v \in g_pending_mask' \/ active' = {v} => v \in g_pending_mask
<1> DEFINE v == Lowest(g_pending_mask)
<1>1. v \in g_pending_mask
  <2>1. g_pending_mask \subseteq Nat /\ g_pending_mask # {}
    BY NumVectorsAssumption DEF RunDispatch, SoftirqTypeOK, Vectors
  <2>2. \E x \in g_pending_mask : \A y \in g_pending_mask : x <= y
    BY <2>1, LeastSlot
  <2> QED BY <2>2 DEF Lowest
<1>2. /\ g_pending_mask' = g_pending_mask \ {v} /\ active' = {v} \cap g_handlers
      /\ active = {} /\ in_run /\ UNCHANGED <<g_handlers, in_run>>
  BY DEF RunDispatch
<1> HIDE DEF v
<1>3. SoftirqTypeOK'
  BY <1>1, <1>2 DEF SoftirqTypeOK
<1> QED BY <1>1, <1>2, <1>3

\* qos_softirq_run around the handlers (softirq.c:47-67).
LEMMA TimerRunInv ==
    ASSUME TimerInv, RunEnter \/ RunDispatch \/ RunExit, UNCHANGED timerVars
    PROVE  TimerInv'
<1>1. CASE RunEnter \/ RunExit
  <2>1. SoftirqTypeOK' /\ UNCHANGED <<g_pending_mask, g_handlers, active>>
    BY <1>1 DEF RunEnter, RunExit, TimerInv, SoftirqTypeOK
  <2> QED BY <2>1, TimerFrame
<1>2. CASE RunDispatch
  <2>1. /\ active = {} /\ SoftirqTypeOK' /\ g_handlers' = g_handlers
        /\ TIMER \in g_pending_mask => TIMER \in g_pending_mask' \/ active' = {TIMER}
    BY <1>2, DispatchOne DEF TimerInv, AllHandlers
  <2>2. UNCHANGED <<g_timers, g_jiffies, now, index, cb, recycled>> /\ index = -1
    BY <2>1 DEF timerVars, TimerInv, Cursor
  <2>3. Cursor'
    BY <2>2 DEF TimerInv, Cursor
  <2>4. ASSUME NEW s \in TSlots PROVE SlotOk(s, g_timers[s])'
    <3>1. SlotOk(s, g_timers[s])
      BY DEF TimerInv
    <3>2. active # {TIMER}
      BY <2>1
    <3> QED BY <2>1, <2>2, <3>1, <3>2 DEF SlotOk
  <2> QED BY <2>1, <2>2, <2>3, <2>4 DEF TimerInv
<1> QED BY <1>1, <1>2

\* timer_init inside a later kernel_entry.
LEMMA TimerResetInv ==
    ASSUME TimerInv, ~ in_run, SoftirqReset, TimerReset
    PROVE  TimerInv'
<1>1. NoTimer \in Entries /\ ~ NoTimer.used
  BY DEF NoTimer, Entries
<1>2. SoftirqTypeOK' /\ (g_handlers = AllHandlers)'
  <2>1. {TIMER, NET_RX, WORKQUEUE} \subseteq Vectors
    BY NumVectorsAssumption DEF Vectors, TIMER, NET_RX, WORKQUEUE
  <2>2. active = {} /\ UNCHANGED <<in_run, active>>
    BY DEF SoftirqReset, TimerInv, SoftirqTypeOK
  <2> QED BY <2>1, <2>2 DEF SoftirqReset, SoftirqTypeOK, AllHandlers, TimerInv
<1>3. Cursor'
  <2>1. ~ cb' /\ cb' \in BOOLEAN /\ recycled' \in BOOLEAN
    BY DEF TimerReset
  <2>2. g_jiffies' = 0 /\ now' = 0 /\ index' = -1
    BY DEF TimerReset
  <2> QED BY <2>1, <2>2, TimerAssumption DEF Cursor
<1>4. /\ g_timers' \in [TSlots -> Entries]
      /\ \A s \in TSlots : ~ g_timers'[s].used
  BY <1>1 DEF TimerReset
<1>5. ~ cb'
  BY DEF TimerReset
<1> QED BY <1>2, <1>3, <1>4, <1>5 DEF TimerInv, SlotOk

\* Every call, tick, handler step and dispatcher step keeps the invariant.
LEMMA TimerInvNext ==
    ASSUME TimerInv, [TimerSystemNext]_timerSystem
    PROVE  TimerInv'
<1>1. CASE TimerApi
  BY <1>1, TimerAddInv, TimerCancelInv DEF TimerApi
<1>2. CASE \E elapsed \in Delays : Tick(elapsed)
  BY <1>2, TimerTickInv
<1>3. CASE (RunEnter \/ RunDispatch \/ RunExit) /\ UNCHANGED timerVars
  BY <1>3, TimerRunInv
<1>4. CASE TimerHandler
  BY <1>4, TimerEnterInv, TimerFireInv, TimerCallbackReturnInv, TimerReturnInv DEF TimerHandler
<1>5. CASE ~in_run /\ SoftirqReset /\ TimerReset
  BY <1>5, TimerResetInv
<1>6. CASE UNCHANGED timerSystem
  <2>1. UNCHANGED timerVars /\ UNCHANGED softirqVars
    BY <1>6 DEF timerSystem
  <2>2. SoftirqTypeOK' /\ UNCHANGED <<g_pending_mask, g_handlers, active>>
    BY <2>1 DEF softirqVars, TimerInv, SoftirqTypeOK
  <2> QED BY <2>1, <2>2, TimerFrame
<1> QED BY <1>1, <1>2, <1>3, <1>4, <1>5, <1>6 DEF TimerSystemNext

\* The inductive invariant holds in every reachable state of the timers.
THEOREM TimerInvariant == TimerSafety => []TimerInv
<1>1. TimerSystemInit => TimerInv
  BY TimerInitInv DEF TimerSystemInit
<1> QED BY <1>1, TimerInvNext, PTL DEF TimerSafety

\* Where a mark can be stranded (timer.c:38-41,120-129), for any number of timers,
\* delays and intervals: a marked timer has the softirq raised or the handler still
\* to reach it, or its rearm moved the expiry of a mark made in its own callback
\* past the clock of the last pass.  The last case happens, and the timer is lost
\* (MarkedIsServed); there is no other.
THEOREM TimerMarksCovered == TimerSafety => []MarkIsCovered
BY TimerInvariant, TimerInvShows, PTL

\* No due timer goes unmarked (timer.c:31-40,120-125), but for one whose rearm set an
\* expiry that a tick earlier in the pass had already passed.
THEOREM TimerDueMarked == TimerSafety => []DueIsMarked
BY TimerInvariant, TimerInvShows, PTL

\* Expiries of a periodic timer stay whole intervals apart (timer.c:38-41), and
\* the handler's clock and cursor stay in range, for every interval and delay.
THEOREM TimerNeverDrifts == TimerSafety => []NoDrift
BY TimerInvariant, TimerInvShows, PTL

\* What a step of the kernel can be for the timers.
TimerStep ==
    \/ TimerApi \/ (\E elapsed \in Delays : Tick(elapsed)) \/ TimerHandler
    \/ UNCHANGED timerVars
    \/ ~in_run /\ SoftirqReset /\ TimerReset

\* The steps that enter and leave a callback are the handler's.
LEMMA CallbackSteps ==
    ASSUME TimerInv, TimerStep
    PROVE  (cb /\ cb') \/ (~ cb /\ ~ cb') \/ Fire \/ CallbackReturn
<1> USE DEF timerVars
<1>1. CASE TimerApi
  BY <1>1 DEF TimerApi, AddTimer, CancelTimer
<1>2. CASE \E elapsed \in Delays : Tick(elapsed)
  <2>1. cb' = cb
    BY <1>2 DEF Tick
  <2> QED BY <2>1
<1>3. CASE UNCHANGED timerVars
  BY <1>3
<1>4. CASE TimerHandler
  <2>1. CASE HandlerEnter
    BY <2>1 DEF HandlerEnter
  <2>2. CASE TimerHandlerReturn
    BY <2>2 DEF TimerHandlerReturn
  <2> QED BY <1>4, <2>1, <2>2 DEF TimerHandler
<1>5. CASE ~in_run /\ SoftirqReset /\ TimerReset
  <2>1. ~ cb'
    BY <1>5 DEF TimerReset
  <2>2. ~ cb
    BY <1>5, TimerAssumption DEF TimerInv, Cursor, SoftirqTypeOK, TSlots
  <2> QED BY <2>1, <2>2
<1> QED BY <1>1, <1>2, <1>3, <1>4, <1>5 DEF TimerStep

\* What Fire picks is marked and due by the handler's clock.
LEMMA FirePicks ==
    ASSUME TimerInv, Fire
    PROVE  /\ index' \in TSlots /\ g_timers[index'].used
           /\ g_timers[index'].expires <= now /\ ~ cb /\ cb'
<1> DEFINE n == CHOOSE s \in ToFire : \A t \in ToFire : s <= t
<1>1. ToFire \subseteq Nat /\ ToFire # {}
  <2>1. ToFire \subseteq Nat
    BY TimerAssumption DEF ToFire, UsedSlots, TSlots
  <2> QED BY <2>1 DEF Fire
<1>2. n \in ToFire
  <2>1. \E s \in ToFire : \A t \in ToFire : s <= t
    BY <1>1, LeastSlot
  <2> QED BY <2>1
<1>3. index' = n /\ ~ cb /\ cb'
  BY DEF Fire
<1> HIDE DEF n
<1> QED BY <1>2, <1>3 DEF ToFire, UsedSlots

\* What such a step does to slot s: the first line is about entering its callback, the
\* second about releasing it when a callback returns.
Once(s) ==
    /\ (~cb /\ cb' /\ index' = s /\ g_timers[s].interval = 0) => ~g_timers[s].fired
    /\ (cb /\ ~cb' /\ g_timers[s].used /\ ~g_timers'[s].used) => g_timers[s].fired \/ recycled

\* No step calls a callback before the expiry of its timer.
LEMMA FiredOnTime ==
    ASSUME TimerInv, TimerStep, ~ cb, cb'
    PROVE  g_timers[index'].expires <= g_jiffies
<1>1. Fire
  <2>1. Fire \/ CallbackReturn
    BY CallbackSteps
  <2> QED BY <2>1 DEF CallbackReturn
<1>2. index' \in TSlots /\ g_timers[index'].expires <= now
  BY <1>1, FirePicks
<1>3. g_timers[index'].expires \in Nat
  BY <1>2 DEF TimerInv, Entries
<1> QED BY <1>2, <1>3, TimerNumbers

\* No step fires a one-shot again or releases a timer that was not fired.
LEMMA FiredOnce ==
    ASSUME TimerInv, TimerStep, NEW s \in TSlots
    PROVE  Once(s)
<1>1. (~cb /\ cb' /\ index' = s /\ g_timers[s].interval = 0) => ~g_timers[s].fired
  <2> SUFFICES ASSUME ~ cb, cb', index' = s, g_timers[s].interval = 0
               PROVE  ~ g_timers[s].fired
    OBVIOUS
  <2>1. Fire
    <3>1. Fire \/ CallbackReturn
      BY CallbackSteps
    <3> QED BY <3>1 DEF CallbackReturn
  <2>2. g_timers[s].used
    BY <2>1, FirePicks
  <2>3. SlotOk(s, g_timers[s])
    BY DEF TimerInv
  <2> QED BY <2>2, <2>3 DEF SlotOk
<1>2. (cb /\ ~cb' /\ g_timers[s].used /\ ~g_timers'[s].used) => g_timers[s].fired \/ recycled
  <2> SUFFICES ASSUME cb, ~ cb', g_timers[s].used, ~ g_timers'[s].used
               PROVE  g_timers[s].fired \/ recycled
    OBVIOUS
  <2>1. CallbackReturn
    <3>1. Fire \/ CallbackReturn
      BY CallbackSteps
    <3> QED BY <3>1 DEF Fire
  <2> DEFINE e == NextExpiry(g_timers[index].expires, g_timers[index].interval)
             u == IF g_timers[index].used /\ g_timers[index].interval # 0
                  THEN [g_timers[index] EXCEPT
                           !.expires = e,
                           !.torn = e > now /\ g_timers[index].pending # (e <= g_jiffies)]
                  ELSE NoTimer
  <2>2. g_timers' = [g_timers EXCEPT ![index] = u]
    BY <2>1 DEF CallbackReturn
  <2> HIDE DEF u
  <2>3. s = index
    BY <2>2 DEF TimerInv
  <2> QED BY <2>3 DEF TimerInv
<1> QED BY <1>1, <1>2 DEF Once

\* The timers on their own take no other steps.
LEMMA TimerSteps == [TimerSystemNext]_timerSystem => TimerStep
BY DEF TimerSystemNext, TimerStep, timerSystem

\* No callback is called before the expiry of its timer (timer.c:30), whatever
\* was cancelled, added and marked before.
THEOREM TimerNeverEarly == TimerSafety => NeverEarly
<1>1. TimerInv /\ [TimerSystemNext]_timerSystem
         => [(~cb /\ cb') => g_timers[index'].expires <= g_jiffies]_timerSystem
  BY TimerSteps, FiredOnTime
<1> QED BY <1>1, TimerInvariant, PTL DEF NeverEarly, TimerSafety

\* A one-shot fires at most once and a timer is only released after it was fired
\* (timer.c:37-48), unless the callback gave its own slot away.
THEOREM TimerOneShotOnce == TimerSafety => OneShotOnce
<1>1. TimerInv /\ [TimerSystemNext]_timerSystem => [\A s \in TSlots : Once(s)]_timerSystem
  BY TimerSteps, FiredOnce
<1>2. [][\A s \in TSlots : Once(s)]_timerSystem => OneShotOnce
  BY DEF OneShotOnce, Once
<1> QED BY <1>1, <1>2, TimerInvariant, PTL DEF TimerSafety

(***************************************************************************)
(* The receive polling.                                                     *)
(***************************************************************************)

\* ScheduledIsCovered with the types is inductive.
NapiInv ==
    /\ SoftirqTypeOK /\ g_handlers = AllHandlers
    /\ NapiTypeOK
    /\ ScheduledIsCovered

\* An instance that is scheduled is covered, in a form the steps below use.
LEMMA NapiFacts ==
    ASSUME NapiInv
    PROVE  /\ scheduled \in Seq(BOOLEAN) /\ Len(scheduled) \in Nat
           /\ DOMAIN scheduled = 1 .. Len(scheduled) /\ Len(scheduled) <= NapiSlots
           /\ next_id \in Nat /\ next_id <= NapiSlots + 1 /\ NapiSlots \in Nat
BY NapiAssumption DEF NapiInv, NapiTypeOK

\* napi_init inside kernel_entry.
LEMMA NapiInitInv == SoftirqInit /\ NapiInit => NapiInv
<1> SUFFICES ASSUME SoftirqInit, NapiInit PROVE NapiInv
  OBVIOUS
<1>1. {TIMER, NET_RX, WORKQUEUE} \subseteq Vectors
  BY NumVectorsAssumption DEF Vectors, TIMER, NET_RX, WORKQUEUE
<1>2. SoftirqTypeOK /\ g_handlers = AllHandlers
  <2>1. ~ in_run /\ in_run \in BOOLEAN
    BY DEF SoftirqInit
  <2> QED BY <1>1, <2>1 DEF SoftirqInit, SoftirqTypeOK, AllHandlers
<1>3. /\ ~ polling /\ polling \in BOOLEAN
      /\ ~ need_reschedule /\ need_reschedule \in BOOLEAN
  BY DEF NapiInit
<1>4. scheduled = <<>> /\ next_id = 0
  BY DEF NapiInit
<1>5. scheduled \in Seq(BOOLEAN) /\ Len(scheduled) = 0 /\ DOMAIN scheduled = {}
  BY <1>4
<1> QED BY <1>2, <1>3, <1>4, <1>5, NapiAssumption DEF NapiInv, NapiTypeOK, ScheduledIsCovered

\* qos_napi_register (napi.c): the new instance is not scheduled.
LEMMA RegisterInv == ASSUME NapiInv, Register PROVE NapiInv'
<1>1. /\ Len(scheduled) < NapiSlots /\ scheduled' = Append(scheduled, FALSE)
      /\ UNCHANGED <<softirqVars, next_id, polling, need_reschedule>>
  BY DEF Register
<1>2. /\ scheduled' \in Seq(BOOLEAN) /\ Len(scheduled') = Len(scheduled) + 1
      /\ DOMAIN scheduled' = 1 .. Len(scheduled) + 1
  BY <1>1, NapiFacts
<1>3. /\ ~ scheduled'[Len(scheduled) + 1]
      /\ \A id \in DOMAIN scheduled : scheduled'[id] = scheduled[id]
  BY <1>1, NapiFacts
<1>4. \A id \in DOMAIN scheduled' :
         scheduled'[id] => id \in DOMAIN scheduled /\ scheduled[id]
  BY <1>2, <1>3, NapiFacts
<1>5. /\ UNCHANGED <<g_pending_mask, g_handlers, in_run, active>>
      /\ UNCHANGED <<next_id, polling, need_reschedule>>
  BY <1>1 DEF softirqVars
<1>6. SoftirqTypeOK' /\ (g_handlers = AllHandlers)'
  BY <1>5 DEF NapiInv, SoftirqTypeOK
<1>7. NapiTypeOK'
  <2>1. DOMAIN scheduled \subseteq DOMAIN scheduled'
    BY <1>2, NapiFacts
  <2>2. Len(scheduled') <= NapiSlots
    BY <1>1, <1>2, NapiFacts
  <2> QED BY <1>2, <1>5, <2>1, <2>2 DEF NapiInv, NapiTypeOK
<1>8. ScheduledIsCovered'
  BY <1>4, <1>5 DEF NapiInv, ScheduledIsCovered
<1> QED BY <1>6, <1>7, <1>8 DEF NapiInv

\* What happens to the flags when one is written.
LEMMA FlagWritten ==
    ASSUME NapiInv, NEW id \in DOMAIN scheduled, NEW b \in BOOLEAN,
           scheduled' = [scheduled EXCEPT ![id] = b]
    PROVE  /\ scheduled' \in Seq(BOOLEAN) /\ Len(scheduled') = Len(scheduled)
           /\ DOMAIN scheduled' = DOMAIN scheduled
           /\ \A other \in DOMAIN scheduled :
                 other # id => scheduled'[other] = scheduled[other]
           /\ scheduled'[id] <=> b
BY NapiFacts

\* qos_napi_schedule (napi.c:97-104) raises the softirq with the flag.
LEMMA ScheduleInv ==
    ASSUME NapiInv, NEW id \in DOMAIN scheduled, Schedule(id) PROVE NapiInv'
<1>1. scheduled' = [scheduled EXCEPT ![id] = TRUE]
  BY DEF Schedule
<1>2. /\ g_pending_mask' = g_pending_mask \cup {NET_RX}
      /\ UNCHANGED <<g_handlers, in_run, active, next_id, polling, need_reschedule>>
  BY DEF Schedule, Raised
<1>3. /\ scheduled' \in Seq(BOOLEAN) /\ Len(scheduled') = Len(scheduled)
      /\ DOMAIN scheduled' = DOMAIN scheduled
  BY <1>1, FlagWritten
<1>4. SoftirqTypeOK' /\ (g_handlers = AllHandlers)'
  <2>1. NET_RX \in Vectors
    BY NumVectorsAssumption DEF Vectors, NET_RX
  <2> QED BY <1>2, <2>1 DEF NapiInv, SoftirqTypeOK
<1>5. NapiTypeOK'
  BY <1>2, <1>3 DEF NapiInv, NapiTypeOK
<1>6. ScheduledIsCovered'
  BY <1>2 DEF ScheduledIsCovered
<1> QED BY <1>4, <1>5, <1>6 DEF NapiInv

\* qos_napi_complete (napi.c) only clears a flag.
LEMMA CompleteInv ==
    ASSUME NapiInv, NEW id \in DOMAIN scheduled, Complete(id) PROVE NapiInv'
<1>1. scheduled' = [scheduled EXCEPT ![id] = FALSE]
  BY DEF Complete
<1>2. UNCHANGED <<g_pending_mask, g_handlers, in_run, active, next_id, polling, need_reschedule>>
  BY DEF Complete, softirqVars
<1>3. /\ scheduled' \in Seq(BOOLEAN) /\ Len(scheduled') = Len(scheduled)
      /\ DOMAIN scheduled' = DOMAIN scheduled
      /\ \A other \in DOMAIN scheduled : scheduled'[other] => scheduled[other]
  <2>1. /\ \A other \in DOMAIN scheduled :
              other # id => scheduled'[other] = scheduled[other]
        /\ ~ scheduled'[id]
    BY <1>1, FlagWritten
  <2> QED BY <1>1, <2>1, FlagWritten
<1>4. SoftirqTypeOK' /\ (g_handlers = AllHandlers)'
  BY <1>2 DEF NapiInv, SoftirqTypeOK
<1>5. NapiTypeOK'
  BY <1>2, <1>3 DEF NapiInv, NapiTypeOK
<1>6. ScheduledIsCovered'
  BY <1>2, <1>3 DEF NapiInv, ScheduledIsCovered
<1> QED BY <1>4, <1>5, <1>6 DEF NapiInv

\* napi_softirq_handler starts its loop with everything ahead of it.
LEMMA NetEnterInv == ASSUME NapiInv, NetEnter PROVE NapiInv'
<1>1. /\ active = {NET_RX} /\ next_id' = 1
      /\ UNCHANGED <<g_pending_mask, g_handlers, in_run, active, scheduled, polling>>
  BY DEF NetEnter, softirqVars
<1>2. /\ ~ need_reschedule' /\ need_reschedule' \in BOOLEAN /\ ~ polling
  <2>1. next_id = 0
    BY DEF NetEnter
  <2>2. 0 \notin DOMAIN scheduled
    BY NapiFacts
  <2>3. ~ polling
    BY <2>1, <2>2 DEF NapiInv, NapiTypeOK
  <2> QED BY <2>3 DEF NetEnter
<1>3. SoftirqTypeOK' /\ (g_handlers = AllHandlers)'
  BY <1>1 DEF NapiInv, SoftirqTypeOK
<1>4. NapiTypeOK'
  BY <1>1, <1>2, NapiFacts, NapiAssumption DEF NapiInv, NapiTypeOK
<1>5. ScheduledIsCovered'
  BY <1>1, NapiFacts DEF ScheduledIsCovered
<1> QED BY <1>3, <1>4, <1>5 DEF NapiInv

\* The loop reaches the next scheduled instance (napi.c:30-40): it skips none.
LEMMA PollStartInv == ASSUME NapiInv, PollStart PROVE NapiInv'
<1> DEFINE n == CHOOSE id \in ToPoll : \A other \in ToPoll : id <= other
<1>1. /\ active = {NET_RX} /\ next_id > 0 /\ next_id' = n /\ ToPoll # {}
      /\ UNCHANGED <<g_pending_mask, g_handlers, in_run, active, scheduled>>
  BY DEF PollStart, softirqVars
<1>2. polling' \in BOOLEAN /\ need_reschedule' = need_reschedule
  BY DEF PollStart
<1>3. n \in ToPoll /\ \A other \in ToPoll : n <= other
  <2>1. ToPoll \subseteq Nat
    BY NapiFacts DEF ToPoll
  <2>2. \E id \in ToPoll : \A other \in ToPoll : id <= other
    BY <1>1, <2>1, LeastSlot
  <2> QED BY <2>2
<1> HIDE DEF n
<1>4. n \in DOMAIN scheduled /\ n \in 0 .. NapiSlots + 1 /\ n # 0
  BY <1>3, NapiFacts DEF ToPoll
<1>5. SoftirqTypeOK' /\ (g_handlers = AllHandlers)'
  BY <1>1 DEF NapiInv, SoftirqTypeOK
<1>6. NapiTypeOK'
  BY <1>1, <1>2, <1>4 DEF NapiInv, NapiTypeOK
<1>7. ScheduledIsCovered'
  <2>1. ASSUME NEW id \in DOMAIN scheduled, scheduled[id], next_id <= id PROVE n <= id
    BY <1>3, <2>1, NapiFacts DEF ToPoll
  <2> QED BY <1>1, <1>2, <2>1 DEF NapiInv, ScheduledIsCovered
<1> QED BY <1>5, <1>6, <1>7 DEF NapiInv

\* The poll returns (napi.c:40-47): less than the weight clears the flag, the full
\* weight notes that the softirq has to be raised again.
LEMMA PollReturnInv == ASSUME NapiInv, PollReturnShort \/ PollReturnFull PROVE NapiInv'
<1>1. /\ active = {NET_RX} /\ next_id' = next_id + 1
      /\ UNCHANGED <<g_pending_mask, g_handlers, in_run, active>>
  BY DEF PollReturnShort, PollReturnFull, softirqVars
<1>2. ~ polling' /\ polling' \in BOOLEAN
  BY DEF PollReturnShort, PollReturnFull
<1>3. next_id \in DOMAIN scheduled /\ next_id + 1 \in 0 .. NapiSlots + 1 /\ next_id + 1 # 0
  <2>1. polling
    BY DEF PollReturnShort, PollReturnFull
  <2>2. next_id \in DOMAIN scheduled
    BY <2>1 DEF NapiInv, NapiTypeOK
  <2> QED BY <2>2, NapiFacts
<1>4. SoftirqTypeOK' /\ (g_handlers = AllHandlers)'
  BY <1>1 DEF NapiInv, SoftirqTypeOK
<1>5. CASE PollReturnShort
  <2>1. scheduled' = [scheduled EXCEPT ![next_id] = FALSE]
    BY <1>5 DEF PollReturnShort
  <2>2. need_reschedule' = need_reschedule
    BY <1>5 DEF PollReturnShort
  <2>3. /\ scheduled' \in Seq(BOOLEAN) /\ Len(scheduled') = Len(scheduled)
        /\ DOMAIN scheduled' = DOMAIN scheduled
        /\ ~ scheduled'[next_id]
        /\ \A id \in DOMAIN scheduled :
              id # next_id => scheduled'[id] = scheduled[id]
    BY <1>3, <2>1, FlagWritten
  <2>4. NapiTypeOK'
    BY <1>1, <1>2, <1>3, <2>2, <2>3 DEF NapiInv, NapiTypeOK
  <2>5. ScheduledIsCovered'
    <3>1. \A id \in DOMAIN scheduled' :
             scheduled'[id] => id \in DOMAIN scheduled /\ scheduled[id] /\ id # next_id
      BY <2>3
    <3>2. \A id \in DOMAIN scheduled : next_id <= id /\ id # next_id => next_id + 1 <= id
      BY NapiFacts
    <3> QED BY <1>1, <2>2, <3>1, <3>2, <2>3 DEF NapiInv, ScheduledIsCovered
  <2> QED BY <1>4, <2>4, <2>5 DEF NapiInv
<1>6. CASE PollReturnFull
  <2>1. need_reschedule' /\ need_reschedule' \in BOOLEAN /\ scheduled' = scheduled
    BY <1>6 DEF PollReturnFull
  <2>2. NapiTypeOK'
    BY <1>1, <1>2, <1>3, <2>1 DEF NapiInv, NapiTypeOK
  <2>3. ScheduledIsCovered'
    BY <1>1, <2>1 DEF ScheduledIsCovered
  <2> QED BY <1>4, <2>2, <2>3 DEF NapiInv
<1> QED BY <1>5, <1>6

\* The handler returns (napi.c:48-52): what is still scheduled used up its weight.
LEMMA NetReturnInv == ASSUME NapiInv, NetHandlerReturn PROVE NapiInv'
<1>1. /\ g_pending_mask' = IF need_reschedule THEN g_pending_mask \cup {NET_RX}
                           ELSE g_pending_mask
      /\ active = {NET_RX} /\ active' = {} /\ next_id' = 0 /\ ToPoll = {}
      /\ UNCHANGED <<g_handlers, in_run, scheduled>>
  BY DEF NetHandlerReturn, HandlerReturn, Raised
<1>2. /\ ~ polling' /\ polling' \in BOOLEAN
      /\ ~ need_reschedule' /\ need_reschedule' \in BOOLEAN
  <2>1. ~ need_reschedule' /\ need_reschedule' \in BOOLEAN
    BY DEF NetHandlerReturn
  <2>2. ~ polling /\ polling' = polling
    BY DEF NetHandlerReturn
  <2>3. polling \in BOOLEAN
    BY DEF NapiInv, NapiTypeOK
  <2> QED BY <2>1, <2>2, <2>3
<1>3. SoftirqTypeOK' /\ (g_handlers = AllHandlers)'
  <2>1. NET_RX \in Vectors
    BY NumVectorsAssumption DEF Vectors, NET_RX
  <2> QED BY <1>1, <2>1 DEF NapiInv, SoftirqTypeOK
<1>4. NapiTypeOK'
  <2>1. 0 \in 0 .. NapiSlots + 1
    BY NapiAssumption
  <2> QED BY <1>1, <1>2, <2>1 DEF NapiInv, NapiTypeOK
<1>5. ScheduledIsCovered'
  <2>1. \A id \in DOMAIN scheduled : scheduled[id] => ~ (next_id <= id)
    BY <1>1, NapiFacts DEF ToPoll
  <2>2. \A id \in DOMAIN scheduled : scheduled[id] => NET_RX \in g_pending_mask'
    BY <1>1, <2>1 DEF NapiInv, ScheduledIsCovered
  <2> QED BY <1>1, <2>2 DEF ScheduledIsCovered
<1> QED BY <1>3, <1>4, <1>5 DEF NapiInv

\* What the other vectors do: instances and the receive bit are left alone.
LEMMA NapiFrame ==
    ASSUME NapiInv, UNCHANGED napiVars, SoftirqTypeOK', g_handlers' = g_handlers,
           NET_RX \in g_pending_mask <=> NET_RX \in g_pending_mask',
           active = {NET_RX} <=> active' = {NET_RX}
    PROVE  NapiInv'
<1>1. UNCHANGED <<scheduled, next_id, polling, need_reschedule>>
  BY DEF napiVars
<1>2. NapiTypeOK'
  BY <1>1 DEF NapiInv, NapiTypeOK
<1>3. ScheduledIsCovered'
  BY <1>1 DEF NapiInv, ScheduledIsCovered
<1> QED BY <1>2, <1>3 DEF NapiInv

\* qos_softirq_run around the handlers (softirq.c:47-67).
LEMMA NapiRunInv ==
    ASSUME NapiInv, RunEnter \/ RunDispatch \/ RunExit, UNCHANGED napiVars
    PROVE  NapiInv'
<1>1. CASE RunEnter \/ RunExit
  <2>1. SoftirqTypeOK' /\ UNCHANGED <<g_pending_mask, g_handlers, active>>
    BY <1>1 DEF RunEnter, RunExit, NapiInv, SoftirqTypeOK
  <2> QED BY <2>1, NapiFrame
<1>2. CASE RunDispatch
  <2>1. /\ active = {} /\ SoftirqTypeOK' /\ g_handlers' = g_handlers
        /\ NET_RX \in g_pending_mask => NET_RX \in g_pending_mask' \/ active' = {NET_RX}
    BY <1>2, DispatchOne DEF NapiInv, AllHandlers
  <2>2. UNCHANGED <<scheduled, next_id, polling, need_reschedule>> /\ next_id = 0
    BY <2>1 DEF napiVars, NapiInv, NapiTypeOK
  <2>3. NapiTypeOK'
    BY <2>2 DEF NapiInv, NapiTypeOK
  <2>4. \A id \in DOMAIN scheduled : 0 <= id
    BY NapiFacts
  <2>5. ScheduledIsCovered'
    <3>1. \A id \in DOMAIN scheduled : scheduled[id] => NET_RX \in g_pending_mask
      BY <2>1 DEF NapiInv, ScheduledIsCovered
    <3> QED BY <2>1, <2>2, <2>4, <3>1 DEF ScheduledIsCovered
  <2> QED BY <2>1, <2>3, <2>5 DEF NapiInv
<1> QED BY <1>1, <1>2

\* napi_init inside a later kernel_entry.
LEMMA NapiResetInv ==
    ASSUME NapiInv, ~ in_run, SoftirqReset, NapiReset
    PROVE  NapiInv'
<1>1. {TIMER, NET_RX, WORKQUEUE} \subseteq Vectors
  BY NumVectorsAssumption DEF Vectors, TIMER, NET_RX, WORKQUEUE
<1>2. SoftirqTypeOK' /\ (g_handlers = AllHandlers)'
  <2>1. active = {} /\ UNCHANGED <<in_run, active>>
    BY DEF SoftirqReset, NapiInv, SoftirqTypeOK
  <2> QED BY <1>1, <2>1 DEF SoftirqReset, SoftirqTypeOK, AllHandlers, NapiInv
<1>3. /\ ~ polling' /\ polling' \in BOOLEAN
      /\ ~ need_reschedule' /\ need_reschedule' \in BOOLEAN
  BY DEF NapiReset
<1>4. scheduled' = <<>> /\ next_id' = 0
  BY DEF NapiReset
<1>5. scheduled' \in Seq(BOOLEAN) /\ Len(scheduled') = 0 /\ DOMAIN scheduled' = {}
  BY <1>4
<1> QED BY <1>2, <1>3, <1>4, <1>5, NapiAssumption DEF NapiInv, NapiTypeOK, ScheduledIsCovered

(***************************************************************************)
(* The three together.  Each mechanism's steps leave the vectors of the     *)
(* others alone, so each invariant survives the steps of the others.        *)
(***************************************************************************)

\* The step changes no bit and enters or leaves no handler but those of v.
LeavesOthers(v) ==
    /\ g_handlers' = g_handlers
    /\ \A w \in AllHandlers \ {v} :
          /\ w \in g_pending_mask <=> w \in g_pending_mask'
          /\ active = {w} <=> active' = {w}

\* The vectors differ (softirq.h).
LEMMA VectorsDiffer ==
    /\ TIMER \in AllHandlers /\ NET_RX \in AllHandlers /\ WORKQUEUE \in AllHandlers
    /\ TIMER # NET_RX /\ TIMER # WORKQUEUE /\ NET_RX # WORKQUEUE
BY DEF TIMER, NET_RX, WORKQUEUE, AllHandlers

\* timer.c raises and returns from its own vector only.
LEMMA TimerLeavesOthers ==
    ASSUME TimerApi \/ (\E elapsed \in Delays : Tick(elapsed)) \/ TimerHandler
    PROVE  LeavesOthers(TIMER)
<1>1. CASE TimerApi
  BY <1>1 DEF TimerApi, AddTimer, CancelTimer, softirqVars, LeavesOthers
<1>2. CASE \E elapsed \in Delays : Tick(elapsed)
  <2>1. PICK elapsed \in Delays : Tick(elapsed)
    BY <1>2
  <2>2. g_pending_mask' \in {g_pending_mask \cup {TIMER}, g_pending_mask}
    BY <2>1 DEF Tick, Raised
  <2>3. g_handlers' = g_handlers /\ active' = active
    BY <2>1 DEF Tick
  <2> QED BY <2>2, <2>3 DEF LeavesOthers
<1>3. CASE HandlerEnter \/ Fire \/ CallbackReturn
  <2>1. UNCHANGED softirqVars
    BY <1>3 DEF HandlerEnter, Fire, CallbackReturn
  <2> QED BY <2>1 DEF softirqVars, LeavesOthers
<1>4. CASE TimerHandlerReturn
  BY <1>4 DEF TimerHandlerReturn, HandlerReturn, LeavesOthers
<1> QED BY <1>1, <1>2, <1>3, <1>4 DEF TimerHandler

\* napi.c raises and returns from its own vector only.
LEMMA NapiLeavesOthers ==
    ASSUME NapiApi \/ NapiHandler
    PROVE  LeavesOthers(NET_RX)
<1>1. CASE Register \/ \E id \in DOMAIN scheduled : Complete(id)
  BY <1>1 DEF Register, Complete, softirqVars, LeavesOthers
<1>2. CASE \E id \in DOMAIN scheduled : Schedule(id)
  BY <1>2 DEF Schedule, Raised, LeavesOthers
<1>3. CASE NetEnter \/ PollStart \/ PollReturnShort \/ PollReturnFull
  <2>1. UNCHANGED softirqVars
    BY <1>3 DEF NetEnter, PollStart, PollReturnShort, PollReturnFull
  <2> QED BY <2>1 DEF softirqVars, LeavesOthers
<1>4. CASE NetHandlerReturn
  <2>1. /\ g_pending_mask' \in {g_pending_mask \cup {NET_RX}, g_pending_mask}
        /\ active = {NET_RX} /\ active' = {} /\ g_handlers' = g_handlers
    BY <1>4 DEF NetHandlerReturn, HandlerReturn, Raised
  <2> QED BY <2>1 DEF LeavesOthers
<1> QED BY <1>1, <1>2, <1>3, <1>4 DEF NapiApi, NapiHandler

\* workqueue.c raises and returns from its own vector only.
LEMMA WorkLeavesOthers ==
    ASSUME WorkApi \/ WorkHandler
    PROVE  LeavesOthers(WORKQUEUE)
<1>1. CASE Enqueue
  <2>1. g_pending_mask' = g_pending_mask \cup {WORKQUEUE} /\ UNCHANGED <<g_handlers, active>>
    BY <1>1 DEF Enqueue, Raised
  <2> QED BY <2>1 DEF LeavesOthers
<1>2. CASE \/ EnqueueRingFull \/ \E s \in WSlots : CancelWork(s)
           \/ WorkPop \/ WorkFnReturn
  <2>1. UNCHANGED softirqVars
    BY <1>2 DEF EnqueueRingFull, CancelWork, WorkPop, WorkFnReturn
  <2> QED BY <2>1 DEF softirqVars, LeavesOthers
<1>3. CASE WorkHandlerReturn
  <2>1. active = {WORKQUEUE} /\ active' = {} /\ UNCHANGED <<g_handlers, g_pending_mask>>
    BY <1>3 DEF WorkHandlerReturn, HandlerReturn
  <2> QED BY <2>1 DEF LeavesOthers
<1> QED BY <1>1, <1>2, <1>3 DEF WorkApi, WorkHandler

\* What the other vectors do: works and the workqueue bit are left alone.
LEMMA WorkFrame ==
    ASSUME WorkInv, UNCHANGED workVars, SoftirqTypeOK', g_handlers' = g_handlers,
           WORKQUEUE \in g_pending_mask <=> WORKQUEUE \in g_pending_mask',
           active = {WORKQUEUE} <=> active' = {WORKQUEUE}
    PROVE  WorkInv'
<1>1. UNCHANGED <<g_entries, g_queue, g_next_id, g_completed, running>>
  BY DEF workVars
<1>2. LiveSlots' = LiveSlots /\ LiveWork' = LiveWork
  BY <1>1 DEF LiveSlots, LiveWork
<1>3. WorkTypeOK'
  BY <1>1 DEF WorkInv, WorkTypeOK
<1>4. NoLostWork' /\ IdsDistinct' /\ LastPlacesOrdered'
  BY <1>1, <1>2 DEF WorkInv, NoLostWork, IdsDistinct, LastPlacesOrdered
<1> QED BY <1>3, <1>4 DEF WorkInv

\* The invariants of the mechanisms, over one dispatcher.
Inv == TimerInv /\ NapiInv /\ WorkInv

\* Every step of the composed system keeps the three invariants.
LEMMA InvNext == ASSUME Inv, [Next]_vars PROVE Inv'
<1> USE DEF Inv
<1>1. ASSUME TimerApi \/ (\E elapsed \in Delays : Tick(elapsed)) \/ TimerHandler,
             UNCHANGED <<napiVars, workVars>>
      PROVE  Inv'
  <2>1. TimerInv'
    BY <1>1, TimerAddInv, TimerCancelInv, TimerTickInv, TimerEnterInv, TimerFireInv,
       TimerCallbackReturnInv, TimerReturnInv DEF TimerApi, TimerHandler
  <2>2. SoftirqTypeOK'
    BY <2>1 DEF TimerInv
  <2>3. LeavesOthers(TIMER)
    BY <1>1, TimerLeavesOthers
  <2>4. NapiInv'
    BY <1>1, <2>2, <2>3, VectorsDiffer, NapiFrame DEF LeavesOthers
  <2>5. WorkInv'
    BY <1>1, <2>2, <2>3, VectorsDiffer, WorkFrame DEF LeavesOthers
  <2> QED BY <2>1, <2>4, <2>5
<1>2. ASSUME NapiApi \/ NapiHandler, UNCHANGED <<timerVars, workVars>>
      PROVE  Inv'
  <2>1. NapiInv'
    BY <1>2, RegisterInv, ScheduleInv, CompleteInv, NetEnterInv, PollStartInv,
       PollReturnInv, NetReturnInv DEF NapiApi, NapiHandler
  <2>2. SoftirqTypeOK'
    BY <2>1 DEF NapiInv
  <2>3. LeavesOthers(NET_RX)
    BY <1>2, NapiLeavesOthers
  <2>4. TimerInv'
    BY <1>2, <2>2, <2>3, VectorsDiffer, TimerFrame DEF LeavesOthers
  <2>5. WorkInv'
    BY <1>2, <2>2, <2>3, VectorsDiffer, WorkFrame DEF LeavesOthers
  <2> QED BY <2>1, <2>4, <2>5
<1>3. ASSUME WorkApi \/ WorkHandler, UNCHANGED <<timerVars, napiVars>>
      PROVE  Inv'
  <2>1. WorkInv'
    BY <1>3, EnqueueInv, EnqueueRingFullInv, CancelInv, WorkPopInv, WorkReturnInv
       DEF WorkApi, WorkHandler
  <2>2. SoftirqTypeOK'
    BY <2>1 DEF WorkInv, WorkTypeOK
  <2>3. LeavesOthers(WORKQUEUE)
    BY <1>3, WorkLeavesOthers
  <2>4. TimerInv'
    BY <1>3, <2>2, <2>3, VectorsDiffer, TimerFrame DEF LeavesOthers
  <2>5. NapiInv'
    BY <1>3, <2>2, <2>3, VectorsDiffer, NapiFrame DEF LeavesOthers
  <2> QED BY <2>1, <2>4, <2>5
<1>4. ASSUME RunEnter \/ RunDispatch \/ RunExit, UNCHANGED <<timerVars, napiVars, workVars>>
      PROVE  Inv'
  BY <1>4, TimerRunInv, NapiRunInv, RunInv
<1>5. CASE Reinit
  BY <1>5, TimerResetInv, NapiResetInv, ResetInv DEF Reinit
<1>6. CASE UNCHANGED vars
  <2>1. UNCHANGED <<timerVars, napiVars, workVars>> /\ UNCHANGED softirqVars
    BY <1>6 DEF vars
  <2>2. SoftirqTypeOK' /\ UNCHANGED <<g_pending_mask, g_handlers, active>>
    BY <2>1 DEF softirqVars, TimerInv, SoftirqTypeOK
  <2> QED BY <2>1, <2>2, TimerFrame, NapiFrame, WorkFrame
<1>7. Client => Inv'
  BY <1>1, <1>2, <1>3 DEF Client, OnlyTimer, OnlyNapi, OnlyWork
<1>8. Handler => Inv'
  BY <1>1, <1>2, <1>3 DEF Handler, OnlyTimer, OnlyNapi, OnlyWork
<1>9. OnlySoftirq(RunEnter) \/ Dispatch => Inv'
  BY <1>4 DEF OnlySoftirq, Dispatch
<1> QED BY <1>5, <1>6, <1>7, <1>8, <1>9 DEF Next

\* Each mechanism keeps its invariant, and with it all that was shown of it alone,
\* when the callbacks of the others call its API (kernel.c).
THEOREM DeferredWorkInvariant == Spec => []Inv
<1>1. Init => Inv
  BY TimerInitInv, NapiInitInv, WorkInvInit DEF Init, Inv, WorkSystemInit
<1> QED BY <1>1, InvNext, PTL DEF Spec

\* What the deferred-work side forgets (timer.c, napi.c, workqueue.c): with any
\* number of slots, and with callbacks of each mechanism that call the others,
\* scheduled instances and queued works always keep their vector raised or
\* handled, and marked timers do but for the one case of MarkIsCovered.
THEOREM DeferredWorkNothingForgotten == Spec => []NothingForgotten
<1>1. Inv => NothingForgotten
  <2> SUFFICES ASSUME Inv PROVE NothingForgotten
    OBVIOUS
  <2>1. TimerTypeOK /\ MarkIsCovered
    BY TimerInvShows DEF Inv, NoDrift
  <2>2. NapiTypeOK /\ ScheduledIsCovered
    BY DEF Inv, NapiInv
  <2>3. WorkTypeOK /\ NoLostWork
    BY DEF Inv, WorkInv
  <2> QED BY <2>1, <2>2, <2>3 DEF NothingForgotten, TypeOK
<1> QED BY <1>1, DeferredWorkInvariant, PTL

\* Every step of the assembled kernel is, for timers and queue, one of their steps.
LEMMA AssembledSteps ==
    ASSUME [Next]_vars
    PROVE  TimerStep /\ WorkStep
<1>1. CASE Client \/ Handler
  BY <1>1 DEF Client, Handler, OnlyTimer, OnlyNapi, OnlyWork, TimerStep, WorkStep
<1>2. CASE OnlySoftirq(RunEnter) \/ Dispatch
  BY <1>2 DEF OnlySoftirq, Dispatch, TimerStep, WorkStep
<1>3. CASE Reinit
  BY <1>3 DEF Reinit, TimerStep, WorkStep
<1>4. CASE UNCHANGED vars
  BY <1>4 DEF vars, TimerStep, WorkStep
<1> QED BY <1>1, <1>2, <1>3, <1>4 DEF Next

\* In the assembled kernel timers are marked in time and do not drift (timer.c:31-41,
\* 120-129), also when receive polls and works add, cancel and tick them.
THEOREM AssembledTimersMarked == Spec => [](DueIsMarked /\ NoDrift)
<1>1. Inv => DueIsMarked /\ NoDrift
  BY TimerInvShows DEF Inv
<1> QED BY <1>1, DeferredWorkInvariant, PTL

\* Nor are their callbacks called early (timer.c:30).
THEOREM AssembledNeverEarly == Spec => NeverEarly
<1>1. Inv /\ [Next]_vars => [(~cb /\ cb') => g_timers[index'].expires <= g_jiffies]_timerSystem
  BY AssembledSteps, FiredOnTime DEF Inv
<1> QED BY <1>1, DeferredWorkInvariant, PTL DEF NeverEarly, Spec

\* Nor does a one-shot fire twice (timer.c:37-48).
THEOREM AssembledOneShotOnce == Spec => OneShotOnce
<1>1. Inv /\ [Next]_vars => [\A s \in TSlots : Once(s)]_timerSystem
  BY AssembledSteps, FiredOnce DEF Inv
<1>2. [][\A s \in TSlots : Once(s)]_timerSystem => OneShotOnce
  BY DEF OneShotOnce, Once
<1> QED BY <1>1, <1>2, DeferredWorkInvariant, PTL DEF Spec

\* In the assembled kernel a work id names one work, and works leave the ring in order
\* unless a slot was recycled (workqueue.c:103-153), also when timer callbacks and
\* receive polls enqueue and cancel them.
THEOREM AssembledWorkOrdered == Spec => [](IdsDistinct /\ FifoUnlessRecycled)
<1>1. Inv => IdsDistinct /\ FifoUnlessRecycled
  BY WorkInvFifo DEF Inv, WorkInv
<1> QED BY <1>1, DeferredWorkInvariant, PTL

\* And the queue still is a pool in which every accepted work runs at most once and a
\* cancelled one never (workqueue.c:53-153).
THEOREM AssembledImplementsPool == Spec => ImplementsPool
<1>1. Init => Pool!PoolInit
  BY PoolStarts DEF Init
<1>2. Inv /\ [Next]_vars => [Pool!PoolNext]_(Pool!poolVars)
  BY AssembledSteps, PoolStep DEF Inv
<1> QED BY <1>1, <1>2, DeferredWorkInvariant, PTL DEF Spec, ImplementsPool, Pool!PoolSpec
=============================================================================
