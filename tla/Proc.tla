-------------------------------- MODULE Proc -------------------------------
(***************************************************************************)
(* The process table and the signals of c-os/kernel/proc/proc.c, with the   *)
(* system calls of c-os/kernel/syscall/syscall.c that combine several of    *)
(* its operations.                                                          *)
(*                                                                         *)
(* procs[s] is the entry of slot s, NoProc when it is not used.  Signal     *)
(* sets are the bit masks of the code; a handler is DFL, IGN or CATCH, a    *)
(* user function.  Names, working directories, alternate stacks and exec    *)
(* images are data that no decision of this file reads; they are left out.  *)
(*                                                                         *)
(* postmortem is history: the default action of a signal was applied to the *)
(* process after it had exited.                                             *)
(***************************************************************************)
EXTENDS Integers, FiniteSetsExt

CONSTANTS ProcSlots,    \* QOS_PROC_MAX
          Pids,         \* pids callers use; 0 is no process
          Ppids,        \* parents callers of create name
          Sigs,         \* signal numbers in use
          Installed,    \* handlers callers install
          Masks,        \* masks callers pass
          Codes         \* codes passed to exit

Handlers == {"DFL", "IGN", "CATCH"}

ASSUME ProcAssumption ==
    /\ ProcSlots \in Nat \ {0}
    /\ 0 \notin Pids
    /\ Ppids \subseteq Pids \cup {0}
    /\ Sigs \subseteq 1 .. 31
    /\ Installed \subseteq Handlers
    /\ Masks \subseteq SUBSET Sigs
    /\ Codes \subseteq Int

VARIABLES procs, g_count

vars == <<procs, g_count>>

SIGKILL == 9
SIGCHLD == 17
SIGCONT == 18
SIGSTOP == 19
StopSigs == {SIGSTOP, 20, 21, 22}
Unmaskable == {SIGKILL, SIGSTOP}

PSlots == 0 .. ProcSlots - 1

Entry(pid, ppid, handlers, blocked) ==
    [pid |-> pid, ppid |-> ppid, exited |-> FALSE, stopped |-> FALSE, code |-> 0,
     handlers |-> handlers, blocked |-> blocked, pending |-> {}, postmortem |-> FALSE]

AllDefault == [sig \in Sigs |-> "DFL"]
NoProc == Entry(0, 0, AllDefault, {})

Used == {s \in PSlots : procs[s].pid # 0}
Free == PSlots \ Used
At(pid) == {s \in PSlots : procs[s].pid = pid}

ProcInit == procs = [s \in PSlots |-> NoProc] /\ g_count = 0

\* qos_proc_reset, from a later kernel_entry.
Reset == procs' = [s \in PSlots |-> NoProc] /\ g_count' = 0
----------------------------------------------------------------------------
\* Mutant: the pid may be in use.
TakeUnchecked(pid, entry) ==
    /\ Free # {}
    /\ procs' = [procs EXCEPT ![Min(Free)] = entry]
    /\ g_count' = g_count + 1

\* qos_proc_create and the common part of qos_proc_fork.
Take(pid, entry) ==
    /\ At(pid) = {}
    /\ Free # {}
    /\ procs' = [procs EXCEPT ![Min(Free)] = entry]
    /\ g_count' = g_count + 1

Create(pid, ppid) == Take(pid, Entry(pid, ppid, AllDefault, {}))

\* qos_proc_fork: the parent may be in any state.
Fork(parent, pid) ==
    \E s \in At(parent) :
        Take(pid, Entry(pid, parent, procs[s].handlers, procs[s].blocked))

\* qos_proc_remove of the process in slot s.
Release(s) ==
    /\ procs' = [procs EXCEPT ![s] = NoProc]
    /\ g_count' = g_count - 1

Remove(pid) == \E s \in At(pid) : Release(s)

\* qos_proc_wait when it finds an exited child: of any pid, the one in the
\* lowest slot; of a given pid, that one.
WaitAny(parent) ==
    /\ At(parent) # {}
    /\ LET zombies == {s \in Used : procs[s].ppid = parent /\ procs[s].exited}
       IN  zombies # {} /\ Release(Min(zombies))

WaitPid(parent, pid) ==
    /\ At(parent) # {}
    /\ \E s \in At(pid) :
           procs[s].ppid = parent /\ procs[s].exited /\ Release(s)

Update(s, entry) == procs' = [procs EXCEPT ![s] = entry] /\ UNCHANGED g_count

\* Mutant: a stopped process stays stopped.
ExitStopped(pid, code) ==
    \E s \in At(pid) :
        ~procs[s].exited /\ Update(s, [procs[s] EXCEPT !.exited = TRUE, !.code = code])

\* qos_proc_exit
Exit(pid, code) ==
    \E s \in At(pid) :
        /\ ~procs[s].exited
        /\ Update(s, [procs[s] EXCEPT !.exited = TRUE, !.stopped = FALSE, !.code = code])

\* qos_proc_exec_signal_reset
Exec(pid) ==
    \E s \in At(pid) :
        Update(s, [procs[s] EXCEPT
            !.handlers = [sig \in Sigs |-> IF @[sig] = "IGN" THEN "IGN" ELSE "DFL"],
            !.pending = {},
            !.blocked = @ \ Unmaskable])
----------------------------------------------------------------------------
\* qos_proc_signal_set_handler
SetHandler(pid, sig, handler) ==
    /\ sig \in Unmaskable => handler = "DFL"
    /\ \E s \in At(pid) : Update(s, [procs[s] EXCEPT !.handlers[sig] = handler])

\* Mutant: the mask is taken as it is.
SetMaskRaw(pid, mask) ==
    \E s \in At(pid) : Update(s, [procs[s] EXCEPT !.blocked = mask])

\* qos_proc_signal_set_mask, and qos_proc_signal_sigreturn, which takes the
\* mask from a frame in user memory.
SetMask(pid, mask) ==
    \E s \in At(pid) : Update(s, [procs[s] EXCEPT !.blocked = mask \ Unmaskable])

\* qos_proc_signal_send: the target may have exited.
Send(pid, sig) ==
    \E s \in At(pid) : Update(s, [procs[s] EXCEPT !.pending = @ \cup {sig}])

\* qos_proc_signal_apply_default
DefaultAction(p, sig) ==
    LET touched == [p EXCEPT !.postmortem = p.postmortem \/ p.exited]
    IN  CASE sig = SIGCHLD -> p
          [] sig = SIGCONT -> [touched EXCEPT !.stopped = FALSE]
          [] sig \in StopSigs -> [touched EXCEPT !.stopped = TRUE]
          [] OTHER -> [touched EXCEPT !.stopped = FALSE, !.exited = TRUE,
                                      !.code = 128 + sig]

ApplyDefault(pid, sig) == \E s \in At(pid) : Update(s, DefaultAction(procs[s], sig))

\* Mutant: every deliverable signal is cleared, one is delivered.
DeliveredClearsAll(p) ==
    LET deliverable == (p.pending \ p.blocked) \cup (p.pending \cap Unmaskable)
        wanted == {sig \in deliverable : p.handlers[sig] # "IGN"}
        q == [p EXCEPT !.pending = @ \ deliverable]
    IN  IF wanted # {} /\ p.handlers[Min(wanted)] = "DFL"
        THEN DefaultAction(q, Min(wanted)) ELSE q

\* The process after qos_proc_signal_next: deliverable signals are taken from
\* the lowest number up, ignored ones are dropped on the way, the first other
\* one is delivered.
Delivered(p) ==
    LET deliverable == (p.pending \ p.blocked) \cup (p.pending \cap Unmaskable)
        wanted == {sig \in deliverable : p.handlers[sig] # "IGN"}
    IN  IF wanted = {} THEN [p EXCEPT !.pending = @ \ deliverable]
        ELSE LET sig == Min(wanted)
                 q == [p EXCEPT !.pending = @ \ {t \in deliverable : t <= sig}]
             IN  IF p.handlers[sig] = "DFL" THEN DefaultAction(q, sig) ELSE q

SignalNext(pid) == \E s \in At(pid) : Update(s, Delivered(procs[s]))

\* The sigsuspend system call: swap the mask, deliver at most one signal, swap
\* the mask back.  It does not wait.
SigSuspend(pid, mask) ==
    \E s \in At(pid) :
        LET q == Delivered([procs[s] EXCEPT !.blocked = mask \ Unmaskable])
        IN  Update(s, [q EXCEPT !.blocked = procs[s].blocked \ Unmaskable])
----------------------------------------------------------------------------
Lifecycle ==
    \/ \E pid \in Pids, ppid \in Ppids : Create(pid, ppid)
    \/ \E parent, pid \in Pids : Fork(parent, pid) \/ WaitPid(parent, pid)
    \/ \E pid \in Pids : Remove(pid) \/ WaitAny(pid) \/ Exec(pid)
    \/ \E pid \in Pids, code \in Codes : Exit(pid, code)
    \/ Reset

Signals ==
    \E pid \in Pids :
        \/ \E sig \in Sigs, handler \in Installed : SetHandler(pid, sig, handler)
        \/ \E sig \in Sigs : Send(pid, sig) \/ ApplyDefault(pid, sig)
        \/ \E mask \in Masks : SetMask(pid, mask) \/ SigSuspend(pid, mask)
        \/ SignalNext(pid)

Next == Lifecycle \/ Signals

Spec == ProcInit /\ [][Next]_vars
----------------------------------------------------------------------------
TypeOK ==
    /\ procs \in [PSlots -> [pid : Pids \cup {0}, ppid : Pids \cup {0},
                             exited : BOOLEAN, stopped : BOOLEAN, code : Int,
                             handlers : [Sigs -> Handlers],
                             blocked : SUBSET Sigs, pending : SUBSET Sigs,
                             postmortem : BOOLEAN]]
    /\ g_count \in 0 .. ProcSlots

\* A pid names one process, g_count is the number of used slots (it is never
\* read to find room), and a free slot carries nothing over to the next process
\* (proc.c:175-274).
TableAgrees ==
    /\ \A s, t \in Used : procs[s].pid = procs[t].pid => s = t
    /\ g_count = Cardinality(Used)
    /\ \A s \in Free : procs[s] = NoProc

\* SIGKILL and SIGSTOP can be neither caught, blocked nor ignored (proc.c:41-43,
\* 385-401,436-465,577-585), through any mix of masks, sigreturn, fork, exec.
UnblockableSignals ==
    \A s \in PSlots :
        /\ procs[s].blocked \cap Unmaskable = {}
        /\ \A sig \in Sigs \cap Unmaskable : procs[s].handlers[sig] = "DFL"

\* A pending SIGKILL is used up only by the end of the process: its exit, its
\* removal, or exec, which clears what is pending (proc.c:385-401,495-531).
KillNotLost ==
    [][\A s \in Used :
         /\ SIGKILL \in procs[s].pending
         /\ SIGKILL \notin procs'[s].pending
         => \/ procs'[s].exited
            \/ procs'[s].pid = 0
            \/ Exec(procs[s].pid)]_vars

\* An exited process is not stopped, unless a default action was applied to it
\* after its exit (proc.c:310-321,533-555).
ZombieNotStopped ==
    \A s \in Used : procs[s].exited /\ procs[s].stopped => procs[s].postmortem

\* "SIGSTOP moves the process to Stopped state; SIGCONT wakes it": a stopped
\* process that takes a SIGCONT runs again (proc.c:495-555).
SigcontWakes ==
    [][\A pid \in Pids : \A s \in At(pid) :
         /\ SignalNext(pid) /\ ~Exec(pid)
         /\ procs[s].stopped
         /\ SIGCONT \in procs[s].pending \ procs'[s].pending
         => ~procs'[s].stopped]_vars
============================================================================
