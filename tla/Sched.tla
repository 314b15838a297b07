------------------------------- MODULE Sched -------------------------------
(***************************************************************************)
(* The run queues of c-os/kernel/sched/sched.c: one queue per priority, a   *)
(* round-robin cursor per queue, and the pid that was chosen last.          *)
(*                                                                         *)
(* g_queues[l] is the part of the array below g_counts[l], as a sequence;   *)
(* the cursor is the C index, from 0.  Calls that the code rejects (pid 0,  *)
(* unknown or known pids, no room) change nothing and are no steps.         *)
(*                                                                         *)
(* overtakes is history: how often each task of the level of Watched was    *)
(* chosen since Watched was chosen or joined its level, as long as both     *)
(* stay.  Pids are only compared for equality, so any task can be Watched.  *)
(***************************************************************************)
EXTENDS Integers, SequencesExt

CONSTANTS Pids,         \* pids of tasks; 0 is no task
          NumLevels,    \* QOS_SCHED_LEVELS
          MaxTasks,     \* QOS_SCHED_MAX_TASKS
          Watched       \* the task whose waiting is observed

ASSUME SchedAssumption ==
    /\ IsFiniteSet(Pids)
    /\ 0 \notin Pids
    /\ Watched \in Pids
    /\ NumLevels \in Nat \ {0}
    /\ MaxTasks \in Nat \ {0}

VARIABLES g_queues, g_rr_cursor, g_total_count, g_current_pid, overtakes

vars == <<g_queues, g_rr_cursor, g_total_count, g_current_pid, overtakes>>

Levels == 0 .. NumLevels - 1

Places(q, pid) == {i \in DOMAIN q : q[i] = pid}
Queued(pid) == {l \in Levels : Places(g_queues[l], pid) # {}}

SchedInit ==
    /\ g_queues = [l \in Levels |-> <<>>]
    /\ g_rr_cursor = [l \in Levels |-> 0]
    /\ g_total_count = 0
    /\ g_current_pid = 0
    /\ overtakes = [p \in Pids |-> 0]

\* Reset when pid leaves or joins a queue: its own count, or all of them when
\* it is the observed task.
Forget(pid) ==
    overtakes' = [p \in Pids |-> IF pid \in {p, Watched} THEN 0 ELSE overtakes[p]]
----------------------------------------------------------------------------
\* find_pid: lowest level first, then the first place.
PriorityOf(pid) == Min(Queued(pid))
IndexOf(pid) == Min(Places(g_queues[PriorityOf(pid)], pid))

\* Mutants: the cursor is not wrapped; every removal restarts the round.
CursorAfterRemoveNoWrap(cursor, i, n) == IF i - 1 < cursor THEN cursor - 1 ELSE cursor
CursorAfterRemoveRestart(cursor, i, n) == 0

\* The cursor after queue_remove_at took place i (from 1) out of a queue and n
\* tasks are left.  The wrap is tested before the shift.
CursorAfterRemove(cursor, i, n) ==
    LET wrapped == IF cursor >= n THEN 0 ELSE cursor
    IN  IF i - 1 < wrapped THEN wrapped - 1 ELSE wrapped

\* qos_sched_add_task_prio
AddTask(pid, l) ==
    /\ Queued(pid) = {}
    /\ g_total_count < MaxTasks
    /\ g_queues' = [g_queues EXCEPT ![l] = Append(@, pid)]
    /\ g_total_count' = g_total_count + 1
    /\ Forget(pid)
    /\ UNCHANGED <<g_rr_cursor, g_current_pid>>

\* qos_sched_remove_task: the chosen pid is not touched.
RemoveTask(pid) ==
    /\ Queued(pid) # {}
    /\ LET l == PriorityOf(pid)
           i == IndexOf(pid)
       IN  /\ g_queues' = [g_queues EXCEPT ![l] = RemoveAt(@, i)]
           /\ g_rr_cursor' = [g_rr_cursor EXCEPT ![l] =
                  CursorAfterRemove(@, i, Len(g_queues[l]) - 1)]
    /\ g_total_count' = g_total_count - 1
    /\ Forget(pid)
    /\ UNCHANGED g_current_pid

\* qos_sched_set_priority: remove, then append to the other queue.  Had that
\* queue no room the task would be put back where it was.
SetPriority(pid, l) ==
    /\ Queued(pid) # {}
    /\ PriorityOf(pid) # l
    /\ LET old == PriorityOf(pid)
           i == IndexOf(pid)
           cursor == CursorAfterRemove(g_rr_cursor[old], i, Len(g_queues[old]) - 1)
       IN  IF Len(g_queues[l]) < MaxTasks
           THEN /\ g_queues' = [g_queues EXCEPT ![old] = RemoveAt(@, i),
                                                ![l] = Append(@, pid)]
                /\ g_rr_cursor' = [g_rr_cursor EXCEPT ![old] = cursor]
                /\ Forget(pid)
           ELSE /\ g_rr_cursor' = [g_rr_cursor EXCEPT ![old] =
                       IF i - 1 < cursor THEN cursor + 1 ELSE cursor]
                /\ UNCHANGED <<g_queues, overtakes>>
    /\ UNCHANGED <<g_total_count, g_current_pid>>

Busy == {l \in Levels : g_queues[l] # <<>>}
Top == Max(Busy)

\* qos_sched_next with no task at all.
NextIdle ==
    /\ g_total_count = 0 \/ Busy = {}
    /\ g_current_pid' = 0
    /\ UNCHANGED <<g_queues, g_rr_cursor, g_total_count, overtakes>>

\* Mutant: the cursor is not advanced.
NextTaskSticky ==
    /\ g_total_count > 0
    /\ Busy # {}
    /\ g_current_pid' = g_queues[Top][(g_rr_cursor[Top] % Len(g_queues[Top])) + 1]
    /\ UNCHANGED <<g_queues, g_rr_cursor, g_total_count, overtakes>>

\* qos_sched_next: the task under the cursor of the highest busy level.
NextTask ==
    /\ g_total_count > 0
    /\ Busy # {}
    /\ LET count == Len(g_queues[Top])
           idx == g_rr_cursor[Top] % count
           pid == g_queues[Top][idx + 1]
       IN  /\ g_rr_cursor' = [g_rr_cursor EXCEPT ![Top] = (idx + 1) % count]
           /\ g_current_pid' = pid
           /\ overtakes' =
                IF pid = Watched THEN [p \in Pids |-> 0]
                ELSE IF Top \in Queued(Watched) THEN [overtakes EXCEPT ![pid] = @ + 1]
                ELSE overtakes
    /\ UNCHANGED <<g_queues, g_total_count>>

SchedNext == NextIdle \/ NextTask

\* qos_sched_reset, from a later kernel_entry.
Reset ==
    /\ g_queues' = [l \in Levels |-> <<>>]
    /\ g_rr_cursor' = [l \in Levels |-> 0]
    /\ g_total_count' = 0
    /\ g_current_pid' = 0
    /\ overtakes' = [p \in Pids |-> 0]
----------------------------------------------------------------------------
Next ==
    \/ \E pid \in Pids, l \in Levels : AddTask(pid, l) \/ SetPriority(pid, l)
    \/ \E pid \in Pids : RemoveTask(pid)
    \/ SchedNext
    \/ Reset

\* The kernel keeps asking for the next task.
Spec == SchedInit /\ [][Next]_vars /\ WF_vars(SchedNext)
----------------------------------------------------------------------------
TypeOK ==
    /\ g_queues \in [Levels -> Seq(Pids)]
    /\ g_rr_cursor \in [Levels -> Nat]
    /\ g_total_count \in 0 .. MaxTasks
    /\ g_current_pid \in Pids \cup {0}
    /\ overtakes \in [Pids -> Nat]

\* The three views of the run queues agree (sched.c:47-118): no task is queued
\* twice, on one level or on two; the total that add_task tests is the number of
\* queued tasks; every cursor points into its queue.
QueuesAgree ==
    /\ TypeOK
    /\ \A l, m \in Levels : \A i \in DOMAIN g_queues[l], j \in DOMAIN g_queues[m] :
           g_queues[l][i] = g_queues[m][j] => l = m /\ i = j
    /\ g_total_count = Cardinality({pid \in Pids : Queued(pid) # {}})
    /\ \A l \in Levels : g_rr_cursor[l] < Len(g_queues[l]) \/ g_rr_cursor[l] = 0

\* "within a level, round-robin": no task of the level is chosen twice while
\* another one of that level waits to be chosen (sched.c:92-118,206-229).
RoundRobin == \A pid \in Pids : overtakes[pid] <= 1

\* What the cursor does guarantee.  Each removal that skips a waiting task also
\* moves it one place forward, so it can be overtaken by the same task only as
\* often as there is room in front of it.
BoundedOvertaking == \A pid \in Pids : overtakes[pid] < MaxTasks

\* Newcomers are put at the end of the array, which is ahead of a waiting task
\* once the cursor has passed it, so a stream of them can keep it waiting.  When
\* the members of the highest busy level stay the same, each is chosen again and
\* again (sched.c:206-229), wherever earlier removals left the cursor.
NoStarvation ==
    \A members \in SUBSET Pids :
        Watched \in members =>
            (<>[](Busy # {} /\ Range(g_queues[Top]) = members)
             => []<>(g_current_pid = Watched))
============================================================================
