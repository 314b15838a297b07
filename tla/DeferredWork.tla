---------------------------- MODULE DeferredWork ---------------------------
(***************************************************************************)
(* The deferred-work side of the kernel as kernel_entry assembles it        *)
(* (c-os/kernel/kernel.c): one softirq dispatcher, and on its vectors the   *)
(* timers, the NAPI receive polling and the workqueue.  The callback of any *)
(* of them may call the API of all of them.                                 *)
(***************************************************************************)
EXTENDS Timer, Napi, Workqueue

vars == <<softirqVars, timerVars, napiVars, workVars>>

Init == SoftirqInit /\ TimerInit /\ NapiInit /\ WorkInit

\* Client code runs: the main line, or a callback of some handler.
ClientTurn == ~in_run \/ cb \/ polling \/ running # {}

OnlyTimer(A) == A /\ UNCHANGED <<napiVars, workVars>>
OnlyNapi(A) == A /\ UNCHANGED <<timerVars, workVars>>
OnlyWork(A) == A /\ UNCHANGED <<timerVars, napiVars>>
OnlySoftirq(A) == A /\ UNCHANGED <<timerVars, napiVars, workVars>>

Client ==
    /\ ClientTurn
    /\ \/ OnlyTimer(TimerApi \/ \E elapsed \in Delays : Tick(elapsed))
       \/ OnlyNapi(NapiApi)
       \/ OnlyWork(WorkApi)

\* A later kernel_entry: the init functions reset every table.
Reinit == ~in_run /\ SoftirqReset /\ TimerReset /\ NapiReset /\ WorkReset

Dispatch == OnlySoftirq(RunDispatch \/ RunExit)

Handler == OnlyTimer(TimerHandler) \/ OnlyNapi(NapiHandler) \/ OnlyWork(WorkHandler)

Next == Client \/ Reinit \/ OnlySoftirq(RunEnter) \/ Dispatch \/ Handler

\* The main line calls qos_softirq_run again and again; dispatcher, handlers
\* and callbacks run on.
Spec ==
    /\ Init
    /\ [][Next]_vars
    /\ WF_vars(OnlySoftirq(RunEnter))
    /\ WF_vars(Dispatch)
    /\ WF_vars(Handler)
----------------------------------------------------------------------------
TypeOK == TimerTypeOK /\ NapiTypeOK /\ WorkTypeOK

\* What survives when the callbacks of one mechanism call the others (timer.c,
\* napi.c, workqueue.c): scheduled instances and queued works keep their vector
\* raised or handled, without exception.  Marked timers do too, but for the one
\* case MarkIsCovered names: a periodic timer ticked in its own callback and then
\* skipped by a pass before its next expiry is marked with nothing to serve it.
NothingForgotten == TypeOK /\ MarkIsCovered /\ ScheduledIsCovered /\ NoLostWork

\* qos_softirq_run restarts from the lowest vector after every handler
\* (softirq.c:49-65), so polls that always use their weight, or instances that
\* schedule each other, starve the workqueue.  What is guaranteed: if the two
\* higher vectors are quiet again and again, every work is run or cancelled.
WorkServedWhenQuiet ==
    []<>(active = {} /\ g_pending_mask \cap {TIMER, NET_RX} = {}) => WorkIsServed

\* The same for the receive side and the one vector above it: every scheduled
\* instance is polled or completed (napi.c:30-52).
InstancesServedWhenQuiet ==
    []<>(active = {} /\ TIMER \notin g_pending_mask) => ScheduledIsPolled

============================================================================
