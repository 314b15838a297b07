----------------------------- MODULE MCCallbacks -----------------------------
(***************************************************************************)
(* Small instances of the three mechanisms that call client code, Timer,    *)
(* Workqueue with its ring and Kthread, for TLC.                            *)
(*                                                                         *)
(* focus is the mechanism the callers of a behaviour use.  What happens     *)
(* when callbacks of one call the others is the subject of DeferredWork, so *)
(* exploring them one at a time loses nothing here.                         *)
(*                                                                         *)
(* Two timers and a short clock allow a callback that cancels itself and    *)
(* adds a timer, a tick inside a callback, and a period missed by a late    *)
(* handler; three slots and six works a ring full of cancelled slots,       *)
(* recycled slots and a ring that wraps; four threads a cursor that wraps,  *)
(* passes stopped threads and meets threads created or woken behind it and  *)
(* ahead of it.                                                             *)
(***************************************************************************)
EXTENDS Timer, WorkqueueRing, Kthread

VARIABLE focus

all == <<softirqVars, timerVars, workVars, ringVars, vars, focus>>

\* What a step of one mechanism leaves alone.
besideTimers == <<workVars, ringVars, vars, focus>>
besideWorks == <<timerVars, vars, focus>>
besideThreads == <<softirqVars, timerVars, workVars, ringVars, focus>>

MCInit ==
    /\ TimerSystemInit /\ RingInit /\ KthreadInit
    /\ focus \in {"timers", "works", "threads"}

MCNext ==
    \/ focus = "timers" /\ TimerSystemNext /\ UNCHANGED besideTimers
    \/ focus = "works" /\ RingNext /\ UNCHANGED besideWorks
    \/ focus = "threads" /\ Next /\ UNCHANGED besideThreads

OnlySoftirq(A) ==
    focus # "threads" /\ A /\ UNCHANGED <<timerVars, besideTimers>>

Handlers ==
    \/ focus = "timers" /\ TimerHandler /\ UNCHANGED besideTimers
    \/ focus = "works" /\ RingHandler /\ UNCHANGED besideWorks
    \/ focus = "threads" /\ Step /\ UNCHANGED besideThreads

\* With the fairness of TimerSpec, RingSpec and Spec.
MCSpec ==
    /\ MCInit
    /\ [][MCNext]_all
    /\ WF_all(OnlySoftirq(RunEnter))
    /\ WF_all(OnlySoftirq(RunDispatch \/ RunExit))
    /\ WF_all(Handlers)
============================================================================
