------------------------------- MODULE Napi --------------------------------
(***************************************************************************)
(* The receive polling of c-os/kernel/net/napi.c.                           *)
(*                                                                         *)
(* Instances are never unregistered and ids count from 1, so the instance   *)
(* of id i is always in slot i - 1: scheduled is the sequence, indexed by   *)
(* id, of the scheduled flags of the registered instances.  The counters    *)
(* run_count and weight steer nothing and are left out: a poll returns      *)
(* either its full weight or less.  polling says that the handler is inside *)
(* the poll callback of instance next_id.                                   *)
(***************************************************************************)
EXTENDS Softirq, Sequences

CONSTANT NapiSlots      \* QOS_NAPI_MAX

ASSUME NapiAssumption == NapiSlots \in Nat \ {0}

VARIABLES scheduled, next_id, polling, need_reschedule

napiVars == <<scheduled, next_id, polling, need_reschedule>>

NapiInit ==
    /\ scheduled = <<>>
    /\ next_id = 0
    /\ polling = FALSE
    /\ need_reschedule = FALSE

NapiReset ==
    /\ scheduled' = <<>>
    /\ next_id' = 0
    /\ polling' = FALSE
    /\ need_reschedule' = FALSE
----------------------------------------------------------------------------
\* qos_napi_register.  With every slot used it returns -1.
Register ==
    /\ Len(scheduled) < NapiSlots
    /\ scheduled' = Append(scheduled, FALSE)
    /\ UNCHANGED <<softirqVars, next_id, polling, need_reschedule>>

\* qos_napi_schedule of a registered id.
Schedule(id) ==
    /\ scheduled' = [scheduled EXCEPT ![id] = TRUE]
    /\ g_pending_mask' = Raised(NET_RX)
    /\ UNCHANGED <<g_handlers, in_run, active, next_id, polling, need_reschedule>>

\* qos_napi_complete of a registered id.
Complete(id) ==
    /\ scheduled' = [scheduled EXCEPT ![id] = FALSE]
    /\ UNCHANGED <<softirqVars, next_id, polling, need_reschedule>>
----------------------------------------------------------------------------
\* napi_softirq_handler starts.
NetEnter ==
    /\ active = {NET_RX}
    /\ next_id = 0
    /\ next_id' = 1
    /\ need_reschedule' = FALSE
    /\ UNCHANGED <<softirqVars, scheduled, polling>>

\* The instances its loop still has to poll.
ToPoll == {id \in DOMAIN scheduled : id >= next_id /\ scheduled[id]}

PollStart ==
    /\ active = {NET_RX}
    /\ next_id > 0
    /\ ~polling
    /\ ToPoll # {}
    /\ next_id' = CHOOSE id \in ToPoll : \A other \in ToPoll : id <= other
    /\ polling' = TRUE
    /\ UNCHANGED <<softirqVars, scheduled, need_reschedule>>

\* The poll did less than its weight: the instance is no longer scheduled,
\* whatever was asked for during the poll.
PollReturnShort ==
    /\ active = {NET_RX}
    /\ polling
    /\ scheduled' = [scheduled EXCEPT ![next_id] = FALSE]
    /\ next_id' = next_id + 1
    /\ polling' = FALSE
    /\ UNCHANGED <<softirqVars, need_reschedule>>

\* The poll used up its weight: poll again in another pass.
PollReturnFull ==
    /\ active = {NET_RX}
    /\ polling
    /\ need_reschedule' = TRUE
    /\ next_id' = next_id + 1
    /\ polling' = FALSE
    /\ UNCHANGED <<softirqVars, scheduled>>

\* Mutant: need_reschedule is forgotten.
NetHandlerReturnForgets ==
    /\ next_id > 0
    /\ ~polling
    /\ ToPoll = {}
    /\ HandlerReturn(NET_RX)
    /\ next_id' = 0
    /\ need_reschedule' = FALSE
    /\ UNCHANGED <<g_pending_mask, scheduled, polling>>

\* The loop is over: raise the softirq again if a poll used up its weight.
NetHandlerReturn ==
    /\ next_id > 0
    /\ ~polling
    /\ ToPoll = {}
    /\ g_pending_mask' = IF need_reschedule THEN Raised(NET_RX) ELSE g_pending_mask
    /\ HandlerReturn(NET_RX)
    /\ next_id' = 0
    /\ need_reschedule' = FALSE
    /\ UNCHANGED <<scheduled, polling>>

NapiApi == Register \/ \E id \in DOMAIN scheduled : Schedule(id) \/ Complete(id)

NapiHandler ==
    NetEnter \/ PollStart \/ PollReturnShort \/ PollReturnFull \/ NetHandlerReturn
----------------------------------------------------------------------------
NapiTypeOK ==
    /\ scheduled \in Seq(BOOLEAN)
    /\ Len(scheduled) <= NapiSlots
    /\ next_id \in 0 .. NapiSlots + 1
    /\ polling \in BOOLEAN
    /\ need_reschedule \in BOOLEAN
    /\ next_id # 0 => active = {NET_RX}
    /\ polling => next_id \in DOMAIN scheduled
    /\ need_reschedule => next_id # 0

\* A scheduled instance is never forgotten (napi.c:30-52,97-104): the softirq
\* is raised, or the handler has still to reach the instance, is in its poll, or
\* will raise the softirq again when it returns.
ScheduledIsCovered ==
    \A id \in DOMAIN scheduled :
        scheduled[id] => \/ NET_RX \in g_pending_mask
                         \/ active = {NET_RX} /\ (next_id <= id \/ need_reschedule)

\* Every scheduled instance is eventually polled or completed (napi.c:30-52).
ScheduledIsPolled ==
    \A id \in 1 .. NapiSlots :
        (id \in DOMAIN scheduled /\ scheduled[id])
        ~> \/ id \notin DOMAIN scheduled
           \/ ~scheduled[id]
           \/ polling /\ next_id = id
============================================================================
