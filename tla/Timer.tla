------------------------------- MODULE Timer -------------------------------
(***************************************************************************)
(* The software timers of c-os/kernel/timer/timer.c.                        *)
(*                                                                         *)
(* g_timers[s] is the entry of timer id s + 1; an entry that is not used is *)
(* NoTimer, since every reader tests used first and qos_timer_add writes    *)
(* every field.  A timer is periodic when its interval is not 0.  cb says   *)
(* that the handler is inside the callback of slot index, where client code *)
(* may add and cancel timers and where the tick interrupt may arrive.       *)
(*                                                                         *)
(* The fields fired, phase and torn and the variable recycled are history,  *)
(* read by the properties only: whether the callback was called, the first  *)
(* expiry modulo the interval, whether a tick during the pass put the mark  *)
(* out of step with the expiry the rearm set (marked before it, or          *)
(* unmarked after it), and whether the callback in progress cancelled its   *)
(* own id.                                                                  *)
(***************************************************************************)
EXTENDS Softirq

CONSTANTS TimerSlots,   \* QOS_TIMER_MAX
          MaxJiffies,   \* bound on g_jiffies, a 64-bit counter
          Delays,       \* delay_ticks a caller passes
          Intervals     \* interval_ticks a caller passes, 0 for a one-shot

ASSUME TimerAssumption ==
    /\ TimerSlots \in Nat \ {0}
    /\ MaxJiffies \in Nat
    /\ Delays \subseteq Nat \ {0}
    /\ Intervals \subseteq Nat

VARIABLES g_timers, g_jiffies, now, index, cb, recycled

timerVars == <<g_timers, g_jiffies, now, index, cb, recycled>>

TSlots == 0 .. TimerSlots - 1

NoTimer == [used |-> FALSE, pending |-> FALSE, expires |-> 0, interval |-> 0,
            fired |-> FALSE, phase |-> 0, torn |-> FALSE]

NewTimer(delay, interval) ==
    [used |-> TRUE, pending |-> FALSE, expires |-> g_jiffies + delay,
     interval |-> interval, fired |-> FALSE, torn |-> FALSE,
     phase |-> IF interval = 0 THEN 0 ELSE (g_jiffies + delay) % interval]

TimerInit ==
    /\ g_timers = [s \in TSlots |-> NoTimer]
    /\ g_jiffies = 0
    /\ now = 0
    /\ index = -1
    /\ cb = FALSE
    /\ recycled = FALSE

TimerReset ==
    /\ g_timers' = [s \in TSlots |-> NoTimer]
    /\ g_jiffies' = 0
    /\ now' = 0
    /\ index' = -1
    /\ cb' = FALSE
    /\ recycled' = FALSE
----------------------------------------------------------------------------
UsedSlots == {s \in TSlots : g_timers[s].used}
FreeTimers == TSlots \ UsedSlots
FirstFreeTimer == CHOOSE s \in FreeTimers : \A t \in FreeTimers : s <= t

\* qos_timer_add.  With every entry used it returns -1 and changes nothing.
AddTimer(delay, interval) ==
    /\ FreeTimers # {}
    /\ g_timers' = [g_timers EXCEPT ![FirstFreeTimer] = NewTimer(delay, interval)]
    /\ UNCHANGED <<softirqVars, g_jiffies, now, index, cb, recycled>>

\* qos_timer_cancel of timer id s + 1.
CancelTimer(s) ==
    /\ s \in UsedSlots
    /\ g_timers' = [g_timers EXCEPT ![s] = NoTimer]
    /\ recycled' = (recycled \/ (cb /\ index = s))
    /\ UNCHANGED <<softirqVars, g_jiffies, now, index, cb>>

\* qos_timer_tick: advance the clock, mark what became due, raise the softirq
\* when something was newly marked.
Tick(elapsed) ==
    LET j == g_jiffies + elapsed
        Newly == {s \in UsedSlots : ~g_timers[s].pending /\ g_timers[s].expires <= j}
    IN  /\ j <= MaxJiffies
        /\ g_jiffies' = j
        /\ g_timers' = [s \in TSlots |->
               IF s \in Newly
               THEN [g_timers[s] EXCEPT !.pending = TRUE, !.torn = FALSE]
               ELSE g_timers[s]]
        /\ g_pending_mask' = IF Newly # {} THEN Raised(TIMER) ELSE g_pending_mask
        /\ UNCHANGED <<g_handlers, in_run, active, now, index, cb, recycled>>
----------------------------------------------------------------------------
\* timer_softirq_handler starts: it reads the clock once.
HandlerEnter ==
    /\ active = {TIMER}
    /\ index = -1
    /\ index' = 0
    /\ now' = g_jiffies
    /\ UNCHANGED <<softirqVars, g_timers, g_jiffies, cb, recycled>>

\* Mutant: a timer is due only after its expiry.
ToFireLate == {s \in UsedSlots : /\ s >= index
                                 /\ g_timers[s].pending
                                 /\ g_timers[s].expires < now}

\* Mutant: the mark alone decides.
ToFireMarked == {s \in UsedSlots : s >= index /\ g_timers[s].pending}

\* The slots its loop still has to call.
ToFire == {s \in UsedSlots : /\ s >= index
                             /\ g_timers[s].pending
                             /\ g_timers[s].expires <= now}

\* The loop reaches the next due slot: clear pending, call the callback.
Fire ==
    /\ active = {TIMER}
    /\ index >= 0
    /\ ~cb
    /\ ToFire # {}
    /\ LET s == CHOOSE s \in ToFire : \A t \in ToFire : s <= t
       IN  /\ index' = s
           /\ g_timers' = [g_timers EXCEPT ![s].pending = FALSE,
                                           ![s].fired = TRUE,
                                           ![s].torn = FALSE]
    /\ cb' = TRUE
    /\ recycled' = FALSE
    /\ UNCHANGED <<softirqVars, g_jiffies, now>>

\* Mutants: one interval at a time; an interval counted from now.
NextExpiryOnce(expires, interval) ==
    IF expires > now THEN expires ELSE expires + interval

NextExpiryFromNow(expires, interval) ==
    IF expires > now THEN expires ELSE now + interval

\* The while loop that moves a periodic expiry past now in whole intervals.
NextExpiry(expires, interval) ==
    IF expires > now THEN expires
    ELSE expires + ((now - expires) \div interval + 1) * interval

\* Mutant: a one-shot is not released.
CallbackReturnKeeps ==
    /\ active = {TIMER}
    /\ cb
    /\ cb' = FALSE
    /\ index' = index + 1
    /\ UNCHANGED <<softirqVars, g_timers, g_jiffies, now, recycled>>

\* The callback returns: whatever timer now occupies the slot is rearmed when
\* it is periodic and released when it is a one-shot.
CallbackReturn ==
    /\ active = {TIMER}
    /\ cb
    /\ LET t == g_timers[index]
           e == NextExpiry(t.expires, t.interval)
       IN  g_timers' = [g_timers EXCEPT ![index] =
               IF t.used /\ t.interval # 0
               THEN [t EXCEPT !.expires = e,
                              !.torn = e > now /\ t.pending # (e <= g_jiffies)]
               ELSE NoTimer]
    /\ cb' = FALSE
    /\ index' = index + 1
    /\ UNCHANGED <<softirqVars, g_jiffies, now, recycled>>

\* No due slot is left: the handler returns.
TimerHandlerReturn ==
    /\ index >= 0
    /\ ~cb
    /\ ToFire = {}
    /\ HandlerReturn(TIMER)
    /\ index' = -1
    /\ UNCHANGED <<g_pending_mask, g_timers, g_jiffies, now, cb, recycled>>

TimerApi ==
    \/ \E delay \in Delays, interval \in Intervals : AddTimer(delay, interval)
    \/ \E s \in TSlots : CancelTimer(s)

TimerHandler == HandlerEnter \/ Fire \/ CallbackReturn \/ TimerHandlerReturn
----------------------------------------------------------------------------
\* The timers on their own.  The API is called, and the tick arrives, on the
\* main line or inside a callback.
TimerSystemInit == SoftirqInit /\ TimerInit

TimerTurn == ~in_run \/ cb

TimerSystemNext ==
    \/ TimerTurn /\ TimerApi
    \/ TimerTurn /\ \E elapsed \in Delays : Tick(elapsed)
    \/ (RunEnter \/ RunDispatch \/ RunExit) /\ UNCHANGED timerVars
    \/ TimerHandler
    \/ ~in_run /\ SoftirqReset /\ TimerReset

timerSystem == <<softirqVars, timerVars>>

TimerSafety == TimerSystemInit /\ [][TimerSystemNext]_timerSystem

\* The main line calls qos_softirq_run again and again, the dispatcher and the
\* handler run to completion, and every callback returns.
TimerSpec ==
    /\ TimerSafety
    /\ WF_timerSystem(RunEnter /\ UNCHANGED timerVars)
    /\ WF_timerSystem((RunDispatch \/ RunExit) /\ UNCHANGED timerVars)
    /\ WF_timerSystem(TimerHandler)
----------------------------------------------------------------------------
TimerTypeOK ==
    /\ SoftirqTypeOK
    /\ g_timers \in [TSlots -> [used : BOOLEAN, pending : BOOLEAN, expires : Nat,
                                interval : Nat, fired : BOOLEAN, phase : Nat,
                                torn : BOOLEAN]]
    /\ g_jiffies \in 0 .. MaxJiffies
    /\ now \in 0 .. g_jiffies
    /\ index \in -1 .. TimerSlots
    /\ cb \in BOOLEAN
    /\ recycled \in BOOLEAN
    /\ index # -1 => active = {TIMER}
    /\ cb => index \in TSlots

\* The handler in progress still has slot s ahead of it.
Ahead(s) == /\ active = {TIMER}
            /\ \/ index = -1
               \/ s \in ToFire /\ ~(cb /\ index = s)

\* A tick marks a timer once and raises the softirq only for new marks
\* (timer.c:120-129), so a mark nobody will look at again is a timer that never
\* fires.  Every marked timer has the softirq raised or the handler still to
\* reach it, with one exception, which is the only way a timer is lost: a tick
\* inside its own callback marked it, the rearm (timer.c:38-41) moved its expiry
\* on, and the last pass read the clock before that expiry and skipped it.
MarkIsCovered ==
    \A s \in UsedSlots :
        g_timers[s].pending
        => \/ TIMER \in g_pending_mask
           \/ Ahead(s)
           \/ g_timers[s].torn /\ g_timers[s].expires > now

\* No due timer goes unmarked (timer.c:31-40,120-125): whatever callbacks add or
\* cancel, a timer whose expiry has passed is marked or in its callback.  The
\* exception: a rearm whose new expiry the clock had already passed, because a
\* tick arrived earlier in the pass, is marked by the next tick only.
DueIsMarked ==
    \A s \in UsedSlots :
        g_timers[s].expires <= g_jiffies /\ ~g_timers[s].torn
        => g_timers[s].pending \/ (cb /\ index = s)

\* A periodic timer never drifts (timer.c:38-41): however late the handler is
\* and however many periods it skips, expiries stay whole intervals apart.  The
\* handler's clock and cursor stay in their ranges.
NoDrift ==
    /\ TimerTypeOK
    /\ \A s \in UsedSlots :
          g_timers[s].interval # 0
          => g_timers[s].expires % g_timers[s].interval = g_timers[s].phase

\* A callback is never called before the expiry of its timer (timer.c:30),
\* stale marks included.
NeverEarly == [][(~cb /\ cb') => g_timers[index'].expires <= g_jiffies]_timerSystem

\* A one-shot fires at most once, and the handler releases a timer only after
\* firing it (timer.c:37-48).  The exception: a callback that cancels its own id
\* and lets the slot be taken again has the handler release the newcomer.
OneShotOnce ==
    [][\A s \in TSlots :
         /\ (~cb /\ cb' /\ index' = s /\ g_timers[s].interval = 0)
            => ~g_timers[s].fired
         /\ (cb /\ ~cb' /\ g_timers[s].used /\ ~g_timers'[s].used)
            => g_timers[s].fired \/ recycled]_timerSystem

Served(s) == ~g_timers[s].used \/ (cb /\ index = s)

\* A due timer on which no tick in its own pass has interfered, or whose mark is
\* still covered.
Awaited(s) ==
    /\ g_timers[s].used
    /\ g_timers[s].expires <= g_jiffies
    /\ \/ ~g_timers[s].torn
       \/ g_timers[s].pending /\ (TIMER \in g_pending_mask \/ Ahead(s))

\* Every awaited timer is eventually called or cancelled (timer.c:24-53,114-130):
\* ticks, other callbacks and late handlers do not lose it.  A due timer that is
\* not awaited is one of the two exceptions above; MarkedIsServed is about the
\* worse of them.
DueIsServed == \A s \in TSlots : Awaited(s) ~> Served(s)

\* What the test of the timers takes for granted (tests/test_kernel_timer.py:88-97
\* ticks a periodic timer to its next expiry, runs the softirqs and finds it
\* called): a timer that is marked and due is eventually called or cancelled.
\* After a tick inside its callback (timer.c:120-129) it may never be.
MarkedIsServed ==
    \A s \in TSlots :
        (g_timers[s].used /\ g_timers[s].pending /\ g_timers[s].expires <= g_jiffies)
        ~> Served(s)
============================================================================
