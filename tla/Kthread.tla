------------------------------ MODULE Kthread ------------------------------
(***************************************************************************)
(* The kernel threads of c-os/kernel/kthread/kthread.c: entries that are    *)
(* called in turn on the caller's stack.                                    *)
(*                                                                         *)
(* Threads are never destroyed and tids count from 1, so the thread in slot *)
(* s has tid s + 1 and the used slots are those below created.  Names and   *)
(* run counts steer nothing and are left out.  executing says that          *)
(* qos_kthread_run_next is inside the entry of the current thread, which    *)
(* may call the rest of the API; no entry in the kernel calls run_next.     *)
(*                                                                         *)
(* since is history: the slots whose entry was called since that of slot s  *)
(* was, or since s last became runnable.                                    *)
(***************************************************************************)
EXTENDS Integers

CONSTANT ThreadSlots    \* QOS_KTHREAD_MAX

ASSUME ThreadAssumption == ThreadSlots \in Nat \ {0}

VARIABLES created, runnable, g_cursor, g_current_tid, executing, since

vars == <<created, runnable, g_cursor, g_current_tid, executing, since>>

KSlots == 0 .. ThreadSlots - 1

KthreadInit ==
    /\ created = 0
    /\ runnable = {}
    /\ g_cursor = 0
    /\ g_current_tid = 0
    /\ executing = FALSE
    /\ since = [s \in KSlots |-> {}]

\* qos_kthread_reset, from a later kernel_entry.
Reset ==
    /\ ~executing
    /\ created' = 0
    /\ runnable' = {}
    /\ g_cursor' = 0
    /\ g_current_tid' = 0
    /\ since' = [s \in KSlots |-> {}]
    /\ UNCHANGED executing
----------------------------------------------------------------------------
\* qos_kthread_create.  With every slot used it returns -1.
Create ==
    /\ created < ThreadSlots
    /\ created' = created + 1
    /\ runnable' = runnable \cup {created}
    /\ since' = [since EXCEPT ![created] = {}]
    /\ UNCHANGED <<g_cursor, g_current_tid, executing>>

\* qos_kthread_wake and qos_kthread_stop of tid s + 1.
Wake(s) ==
    /\ s < created
    /\ runnable' = runnable \cup {s}
    /\ since' = IF s \in runnable THEN since ELSE [since EXCEPT ![s] = {}]
    /\ UNCHANGED <<created, g_cursor, g_current_tid, executing>>

Stop(s) ==
    /\ s < created
    /\ runnable' = runnable \ {s}
    /\ UNCHANGED <<created, g_cursor, g_current_tid, executing, since>>

\* Mutant: the scan always starts at slot 0.
ScannedFromZero(scanned) == scanned

\* The slot the scan looks at after scanned others.
Scanned(scanned) == (g_cursor + scanned) % ThreadSlots

\* The scan of qos_kthread_run_next ends at slot s.
Picks(s) ==
    \E scanned \in KSlots :
        /\ s = Scanned(scanned)
        /\ s \in runnable
        /\ \A earlier \in 0 .. scanned - 1 : Scanned(earlier) \notin runnable

\* qos_kthread_run_next: call the entry of the first runnable thread from the
\* cursor on.
RunThread(s) ==
    /\ ~executing
    /\ Picks(s)
    /\ g_cursor' = (s + 1) % ThreadSlots
    /\ g_current_tid' = s + 1
    /\ executing' = TRUE
    /\ since' = [t \in KSlots |-> IF t = s THEN {} ELSE since[t] \cup {s}]
    /\ UNCHANGED <<created, runnable>>

\* The entry returns.
EntryReturn ==
    /\ executing
    /\ executing' = FALSE
    /\ UNCHANGED <<created, runnable, g_cursor, g_current_tid, since>>

\* qos_kthread_run_next finds no runnable thread.
RunNothing ==
    /\ ~executing
    /\ runnable = {}
    /\ g_current_tid' = 0
    /\ UNCHANGED <<created, runnable, g_cursor, executing, since>>

Step == (\E s \in KSlots : RunThread(s)) \/ EntryReturn \/ RunNothing

Next ==
    \/ Create
    \/ \E s \in KSlots : Wake(s) \/ Stop(s)
    \/ Step
    \/ Reset

\* The caller keeps asking for the next thread and entries return.
Spec == KthreadInit /\ [][Next]_vars /\ WF_vars(Step)
----------------------------------------------------------------------------
TypeOK ==
    /\ created \in 0 .. ThreadSlots
    /\ runnable \subseteq 0 .. created - 1
    /\ g_cursor \in KSlots
    /\ g_current_tid \in 0 .. created
    /\ executing \in BOOLEAN
    /\ since \in [KSlots -> SUBSET KSlots]

\* Strict round-robin (kthread.c:159-177): no thread is called twice while
\* another thread stays runnable and uncalled, whatever threads are created,
\* stopped and woken in between.
CalledOnceInTurn ==
    [][(~executing /\ executing') =>
         \A s, t \in KSlots :
             g_current_tid' = s + 1 /\ t \in runnable => s \notin since[t]]_vars

\* A thread that stays runnable is called again and again (kthread.c:159-177).
RunnableRuns ==
    \A s \in KSlots : <>[](s \in runnable) => []<>(g_current_tid = s + 1)
============================================================================
