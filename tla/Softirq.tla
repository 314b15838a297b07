------------------------------ MODULE Softirq ------------------------------
(***************************************************************************)
(* The softirq dispatcher of c-os/kernel/irq/softirq.c.                     *)
(*                                                                         *)
(* g_pending_mask is kept as the set of the vectors whose bit is set, and   *)
(* g_handlers as the set of the vectors that have a handler.  A handler     *)
(* calls back into client code, so it is not one step: active is {v} while  *)
(* the handler of v is on the stack and {} between handlers.  in_run says   *)
(* that qos_softirq_run is on the stack.  No code of the kernel calls       *)
(* qos_softirq_run from a handler, so in_run is a flag and not a depth.     *)
(***************************************************************************)
EXTENDS Integers, FiniteSets

CONSTANT NumVectors    \* QOS_SOFTIRQ_MAX

ASSUME NumVectorsAssumption == NumVectors \in Nat /\ NumVectors >= 3

VARIABLES g_pending_mask, g_handlers, in_run, active

softirqVars == <<g_pending_mask, g_handlers, in_run, active>>

Vectors == 0 .. NumVectors - 1
TIMER == 0
NET_RX == 1
WORKQUEUE == 2

----------------------------------------------------------------------------
\* softirq_init, then the registrations made by timer_init, napi_init and
\* workqueue_init: the state kernel_entry leaves behind.
SoftirqInit ==
    /\ g_pending_mask = {}
    /\ g_handlers = {TIMER, NET_RX, WORKQUEUE}
    /\ in_run = FALSE
    /\ active = {}

\* The same, inside a later kernel_entry.
SoftirqReset ==
    /\ g_pending_mask' = {}
    /\ g_handlers' = {TIMER, NET_RX, WORKQUEUE}
    /\ UNCHANGED <<in_run, active>>

\* Mutant: raising sets no bit.
RaisedNothing(v) == g_pending_mask

\* The mask after qos_softirq_raise(v).
Raised(v) == g_pending_mask \cup {v}


\* The first set bit the inner loop of qos_softirq_run meets.
Lowest(mask) == CHOOSE v \in mask : \A w \in mask : v <= w

\* qos_softirq_run is called.
RunEnter ==
    /\ ~in_run
    /\ in_run' = TRUE
    /\ UNCHANGED <<g_pending_mask, g_handlers, active>>

\* Mutant: the whole mask is cleared before the handler is called.
RunDispatchClearsAll ==
    /\ in_run
    /\ active = {}
    /\ g_pending_mask # {}
    /\ active' = {Lowest(g_pending_mask)} \cap g_handlers
    /\ g_pending_mask' = {}
    /\ UNCHANGED <<g_handlers, in_run>>

\* One turn of its outer loop: clear the lowest bit, then call the handler.
\* A vector without a handler only loses its bit.
RunDispatch ==
    /\ in_run
    /\ active = {}
    /\ g_pending_mask # {}
    /\ LET v == Lowest(g_pending_mask)
       IN  /\ g_pending_mask' = g_pending_mask \ {v}
           /\ active' = {v} \cap g_handlers
    /\ UNCHANGED <<g_handlers, in_run>>

\* The mask is empty: qos_softirq_run returns.
RunExit ==
    /\ in_run
    /\ active = {}
    /\ g_pending_mask = {}
    /\ in_run' = FALSE
    /\ UNCHANGED <<g_pending_mask, g_handlers, active>>

\* The handler of v returns to qos_softirq_run.
HandlerReturn(v) ==
    /\ active = {v}
    /\ active' = {}
    /\ UNCHANGED <<g_handlers, in_run>>

SoftirqTypeOK ==
    /\ g_pending_mask \subseteq Vectors
    /\ g_handlers \subseteq Vectors
    /\ in_run \in BOOLEAN
    /\ active = {} \/ \E v \in g_handlers : active = {v}
    /\ active # {} => in_run
============================================================================
