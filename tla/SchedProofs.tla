---------------------------- MODULE SchedProofs -----------------------------
(***************************************************************************)
(* Proofs about the run queues, for every number of tasks and levels.       *)
(*                                                                         *)
(* A task that waits on a level is passed over only when a removal in front *)
(* of it finds it last in the queue with the cursor on it.  It moves one    *)
(* place forward then and never back, and nobody who comes later gets in    *)
(* front of it.                                                             *)
(***************************************************************************)
EXTENDS Sched, SlotLemmas, SequenceTheorems, FiniteSetTheorems

Distinct(q) == \A i, j \in DOMAIN q : q[i] = q[j] => i = j
In(q, pid) == \E i \in DOMAIN q : q[i] = pid

\* queue_remove_at: the tasks behind place r move up.
LEMMA Removed ==
    ASSUME NEW q \in Seq(Pids), NEW r \in DOMAIN q
    PROVE  /\ RemoveAt(q, r) \in Seq(Pids)
           /\ Len(RemoveAt(q, r)) = Len(q) - 1
           /\ DOMAIN RemoveAt(q, r) = 1 .. Len(q) - 1
           /\ \A i \in 1 .. Len(q) - 1 :
                 RemoveAt(q, r)[i] = q[IF i < r THEN i ELSE i + 1]
<1> DEFINE a == SubSeq(q, 1, r - 1)
           b == SubSeq(q, r + 1, Len(q))
<1>0. Len(q) \in Nat /\ DOMAIN q = 1 .. Len(q) /\ r \in 1 .. Len(q)
  OBVIOUS
<1>1. /\ a \in Seq(Pids) /\ Len(a) = r - 1
      /\ \A i \in 1 .. r - 1 : a[i] = q[i]
  BY <1>0
<1>2. /\ b \in Seq(Pids) /\ Len(b) = Len(q) - r
      /\ \A i \in 1 .. Len(q) - r : b[i] = q[r + i]
  BY <1>0
<1>3. RemoveAt(q, r) = a \o b
  BY DEF RemoveAt
<1> HIDE DEF a, b
<1>4. /\ a \o b \in Seq(Pids) /\ Len(a \o b) = Len(a) + Len(b)
      /\ \A i \in 1 .. Len(a) + Len(b) :
            (a \o b)[i] = IF i <= Len(a) THEN a[i] ELSE b[i - Len(a)]
  BY <1>1, <1>2, ConcatProperties
<1>5. Len(a) + Len(b) = Len(q) - 1
  BY <1>0, <1>1, <1>2
<1>6. ASSUME NEW i \in 1 .. Len(q) - 1
      PROVE  (a \o b)[i] = q[IF i < r THEN i ELSE i + 1]
  <2>1. CASE i < r
    <3>1. i <= Len(a) /\ i \in 1 .. r - 1
      BY <1>0, <1>1, <2>1
    <3> QED BY <1>1, <1>4, <1>5, <2>1, <3>1
  <2>2. CASE ~ (i < r)
    <3>1. ~ (i <= Len(a)) /\ i - Len(a) \in 1 .. Len(q) - r /\ r + (i - Len(a)) = i + 1
      BY <1>0, <1>1, <2>2
    <3>2. b[i - Len(a)] = q[r + (i - Len(a))]
      BY <1>2, <3>1
    <3> QED BY <1>4, <1>5, <2>2, <3>1, <3>2
  <2> QED BY <2>1, <2>2
<1>7. DOMAIN (a \o b) = 1 .. Len(q) - 1
  BY <1>4, <1>5
<1> QED BY <1>3, <1>4, <1>5, <1>6, <1>7

\* What is left after a removal: still no task twice, and the others.
LEMMA RemovedMembers ==
    ASSUME NEW q \in Seq(Pids), Distinct(q), NEW r \in DOMAIN q
    PROVE  /\ Distinct(RemoveAt(q, r))
           /\ \A pid : In(RemoveAt(q, r), pid) <=> In(q, pid) /\ pid # q[r]
<1> DEFINE new == RemoveAt(q, r)
           Old(i) == IF i < r THEN i ELSE i + 1
<1>0. Len(q) \in Nat /\ DOMAIN q = 1 .. Len(q) /\ r \in 1 .. Len(q)
  OBVIOUS
<1>1. DOMAIN new = 1 .. Len(q) - 1 /\ \A i \in DOMAIN new : new[i] = q[Old(i)]
  BY Removed
<1> HIDE DEF new
<1>2. \A i \in DOMAIN new : Old(i) \in DOMAIN q /\ Old(i) # r
  BY <1>0, <1>1
<1>3. \A i, j \in DOMAIN new : Old(i) = Old(j) => i = j
  BY <1>0, <1>1
<1>4. \A k \in DOMAIN q \ {r} : \E i \in DOMAIN new : Old(i) = k
  <2> TAKE k \in DOMAIN q \ {r}
  <2>1. CASE k < r
    BY <1>0, <1>1, <2>1
  <2>2. CASE k > r
    <3>1. k - 1 \in DOMAIN new /\ Old(k - 1) = k
      BY <1>0, <1>1, <2>2
    <3> QED BY <3>1
  <2> QED BY <1>0, <2>1, <2>2
<1> HIDE DEF Old
<1>5. Distinct(new)
  BY <1>1, <1>2, <1>3 DEF Distinct
<1>6. \A pid : In(new, pid) <=> In(q, pid) /\ pid # q[r]
  <2> TAKE pid
  <2>1. In(new, pid) => In(q, pid) /\ pid # q[r]
    BY <1>1, <1>2 DEF In, Distinct
  <2>2. In(q, pid) /\ pid # q[r] => In(new, pid)
    <3> SUFFICES ASSUME NEW k \in DOMAIN q, q[k] = pid, pid # q[r] PROVE In(new, pid)
      BY DEF In
    <3>1. PICK i \in DOMAIN new : Old(i) = k
      BY <1>4
    <3> QED BY <1>1, <3>1 DEF In
  <2> QED BY <2>1, <2>2
<1> QED BY <1>5, <1>6 DEF new

\* queue_append: one more task, at the end.
LEMMA Appended ==
    ASSUME NEW q \in Seq(Pids), Distinct(q), NEW pid \in Pids, ~ In(q, pid)
    PROVE  /\ Append(q, pid) \in Seq(Pids) /\ Len(Append(q, pid)) = Len(q) + 1
           /\ DOMAIN Append(q, pid) = 1 .. Len(q) + 1
           /\ Append(q, pid)[Len(q) + 1] = pid
           /\ \A i \in 1 .. Len(q) : Append(q, pid)[i] = q[i]
           /\ Distinct(Append(q, pid))
           /\ \A p : In(Append(q, pid), p) <=> In(q, p) \/ p = pid
<1> DEFINE new == Append(q, pid)
<1>0. Len(q) \in Nat /\ DOMAIN q = 1 .. Len(q)
  OBVIOUS
<1>1. /\ new \in Seq(Pids) /\ Len(new) = Len(q) + 1
      /\ DOMAIN new = 1 .. Len(q) + 1
      /\ new[Len(q) + 1] = pid
      /\ \A i \in 1 .. Len(q) : new[i] = q[i]
  BY AppendProperties
<1> HIDE DEF new
<1>2. Distinct(new)
  <2> SUFFICES ASSUME NEW i \in DOMAIN new, NEW j \in DOMAIN new, new[i] = new[j] PROVE i = j
    BY DEF Distinct
  <2>1. i \in 1 .. Len(q) \/ i = Len(q) + 1
    BY <1>0, <1>1
  <2>2. j \in 1 .. Len(q) \/ j = Len(q) + 1
    BY <1>0, <1>1
  <2> QED BY <1>0, <1>1, <2>1, <2>2 DEF Distinct, In
<1>3. \A p : In(new, p) <=> In(q, p) \/ p = pid
  <2>1. Len(q) + 1 \in DOMAIN new /\ \A i \in DOMAIN new : i \in 1 .. Len(q) \/ i = Len(q) + 1
    BY <1>0, <1>1
  <2>2. \A i \in DOMAIN q : i \in DOMAIN new
    BY <1>0, <1>1
  <2> QED BY <1>0, <1>1, <2>1, <2>2 DEF In
<1> QED BY <1>1, <1>2, <1>3 DEF new
----------------------------------------------------------------------------
\* From the cursor (an index from 0), place i comes before place w.
Before(cursor, i, w) ==
    IF cursor < w THEN cursor < i /\ i < w ELSE cursor < i \/ i < w

\* How often the task on place i may have been chosen while the one on place w
\* waits: whoever is behind it once, whoever is in front of it once more for
\* each place that the waiting task has moved forward.
Allowed(count, cursor, i, w) ==
    LET next == IF Before(cursor, i, w) THEN 1 ELSE 0
    IN  IF i < w THEN count + next + w <= MaxTasks + 1 ELSE count + next <= 1

\* One level, with the counts of its tasks.
LevelOk(q, cursor, count) ==
    \A i, w \in DOMAIN q :
        q[w] = Watched /\ i # w => Allowed(count[q[i]], cursor, i, w)

\* When the counts are 0 a level is in order, wherever the cursor is.
LEMMA FreshOk ==
    ASSUME NEW q \in Seq(Pids), Len(q) <= MaxTasks, NEW cursor \in Nat,
           NEW count, \A p \in Pids : count[p] = 0
    PROVE  LevelOk(q, cursor, count)
<1> SUFFICES ASSUME NEW i \in DOMAIN q, NEW w \in DOMAIN q, i # w
             PROVE  Allowed(0, cursor, i, w)
  <2>1. \A i \in DOMAIN q : count[q[i]] = 0
    OBVIOUS
  <2> QED BY <2>1 DEF LevelOk
<1>1. i \in Nat /\ w \in Nat /\ w <= MaxTasks /\ i >= 1 /\ w >= 1
  BY SchedAssumption
<1> QED BY <1>1, SchedAssumption DEF Allowed, Before

\* Where the task on place i was before place r was removed.
Old(r, i) == IF i < r THEN i ELSE i + 1

\* These are the places but r, each once.
LEMMA OldPlaces ==
    ASSUME NEW len \in Nat, NEW r \in 1 .. len, NEW i \in 1 .. len - 1, NEW w \in 1 .. len - 1
    PROVE  Old(r, i) \in (1 .. len) \ {r} /\ (Old(r, i) = Old(r, w) => i = w)
BY DEF Old

\* The arithmetic of queue_remove_at: the cursor stays between the same two
\* tasks, or starts over from the front.  Only a task that was last and next is
\* passed over by that, and it has moved one place forward.
LEMMA RemoveArithmetic ==
    ASSUME NEW len \in Nat, NEW r \in 1 .. len, NEW i \in 1 .. len - 1,
           NEW w \in 1 .. len - 1, i # w, NEW cursor \in Nat, cursor < len, NEW n \in Nat,
           Allowed(n, cursor, Old(r, i), Old(r, w))
    PROVE  Allowed(n, CursorAfterRemove(cursor, r, len - 1), i, w)
<1>1. MaxTasks \in Nat
  BY SchedAssumption
<1>2. CASE cursor < len - 1 /\ r - 1 < cursor
  BY <1>1, <1>2 DEF Allowed, Before, CursorAfterRemove, Old
<1>3. CASE cursor < len - 1 /\ ~ (r - 1 < cursor)
  BY <1>1, <1>3 DEF Allowed, Before, CursorAfterRemove, Old
<1>4. CASE ~ (cursor < len - 1)
  <2>1. cursor = len - 1 /\ CursorAfterRemove(cursor, r, len - 1) = 0
    BY <1>4 DEF CursorAfterRemove
  <2> QED BY <1>1, <2>1 DEF Allowed, Before, Old
<1> QED BY <1>2, <1>3, <1>4

\* A removal of another task keeps a level in order.
LEMMA RemoveOk ==
    ASSUME NEW q \in Seq(Pids), Distinct(q), NEW r \in DOMAIN q,
           NEW cursor \in Nat, cursor < Len(q), NEW count \in [Pids -> Nat], NEW new,
           \A i \in DOMAIN q \ {r} : new[q[i]] = count[q[i]],
           LevelOk(q, cursor, count)
    PROVE  LevelOk(RemoveAt(q, r), CursorAfterRemove(cursor, r, Len(q) - 1), new)
<1> DEFINE left == RemoveAt(q, r)
           c == CursorAfterRemove(cursor, r, Len(q) - 1)
<1>0. Len(q) \in Nat /\ DOMAIN q = 1 .. Len(q) /\ r \in 1 .. Len(q)
  OBVIOUS
<1>1. DOMAIN left = 1 .. Len(q) - 1 /\ \A i \in 1 .. Len(q) - 1 : left[i] = q[Old(r, i)]
  BY Removed DEF Old
<1> HIDE DEF left, c
<1> SUFFICES ASSUME NEW i \in DOMAIN left, NEW w \in DOMAIN left, left[w] = Watched, i # w
             PROVE  Allowed(new[left[i]], c, i, w)
  BY DEF LevelOk, left, c
<1> DEFINE oi == Old(r, i)
           ow == Old(r, w)
<1>2. i \in 1 .. Len(q) - 1 /\ w \in 1 .. Len(q) - 1
  BY <1>1
<1>3. oi \in DOMAIN q \ {r} /\ ow \in DOMAIN q \ {r} /\ oi # ow
  BY <1>0, <1>2, OldPlaces
<1>4. left[i] = q[oi] /\ q[ow] = Watched
  BY <1>1, <1>2
<1> HIDE DEF oi, ow
<1>5. q[oi] \in Pids /\ new[q[oi]] = count[q[oi]] /\ count[q[oi]] \in Nat
  BY <1>3
<1>6. Allowed(count[q[oi]], cursor, oi, ow)
  BY <1>3, <1>4 DEF LevelOk
<1>7. PICK n \in Nat : n = count[q[oi]]
  BY <1>5
<1>8. Allowed(n, c, i, w)
  BY <1>0, <1>2, <1>6, <1>7, RemoveArithmetic DEF oi, ow, c
<1> QED BY <1>4, <1>5, <1>7, <1>8

\* A newcomer at the end keeps a level in order.
LEMMA AppendOk ==
    ASSUME NEW q \in Seq(Pids), Distinct(q), NEW pid \in Pids, ~ In(q, pid),
           Len(q) < MaxTasks, NEW cursor \in Nat, NEW count \in [Pids -> Nat], NEW new,
           \A p \in Pids : new[p] = IF pid \in {p, Watched} THEN 0 ELSE count[p],
           LevelOk(q, cursor, count)
    PROVE  LevelOk(Append(q, pid), cursor, new)
<1> DEFINE more == Append(q, pid)
<1>0. Len(q) \in Nat /\ DOMAIN q = 1 .. Len(q)
  OBVIOUS
<1>1. /\ more \in Seq(Pids) /\ Len(more) = Len(q) + 1 /\ DOMAIN more = 1 .. Len(q) + 1
      /\ more[Len(q) + 1] = pid
      /\ \A i \in 1 .. Len(q) : more[i] = q[i]
  BY Appended
<1> HIDE DEF more
<1>2. CASE pid = Watched
  <2>1. \A p \in Pids : new[p] = 0
    BY <1>2
  <2>2. LevelOk(more, cursor, new)
    BY <1>0, <1>1, <2>1, SchedAssumption, FreshOk
  <2> QED BY <2>2 DEF more
<1>3. CASE pid # Watched
  <2> SUFFICES ASSUME NEW i \in DOMAIN more, NEW w \in DOMAIN more, more[w] = Watched, i # w
               PROVE  Allowed(new[more[i]], cursor, i, w)
    BY DEF LevelOk, more
  <2>1. w \in 1 .. Len(q) /\ q[w] = Watched
    BY <1>0, <1>1, <1>3
  <2>2. CASE i \in 1 .. Len(q)
    <3>1. more[i] = q[i] /\ q[i] \in Pids /\ q[i] # pid
      BY <1>0, <1>1, <2>2 DEF In
    <3>2. new[q[i]] = count[q[i]]
      BY <1>3, <3>1
    <3> QED BY <1>0, <2>1, <2>2, <3>1, <3>2 DEF LevelOk
  <2>3. CASE i = Len(q) + 1
    <3>1. new[more[i]] = 0
      BY <1>1, <1>3, <2>3
    <3>2. Allowed(0, cursor, i, w)
      BY <1>0, <2>1, <2>3 DEF Allowed, Before
    <3> QED BY <3>1, <3>2
  <2> QED BY <1>0, <1>1, <2>2, <2>3
<1> QED BY <1>2, <1>3

\* The arithmetic of qos_sched_next: the turn of the chosen task before the
\* waiting one is used up.
LEMMA ChooseArithmetic ==
    ASSUME NEW len \in Nat, NEW i \in 1 .. len, NEW w \in 1 .. len, i # w,
           NEW cursor \in Nat, cursor < len, w # cursor + 1, NEW n \in Nat,
           Allowed(n, cursor, i, w)
    PROVE  Allowed(IF i = cursor + 1 THEN n + 1 ELSE n,
                   IF cursor + 1 < len THEN cursor + 1 ELSE 0, i, w)
<1>1. MaxTasks \in Nat
  BY SchedAssumption
<1>2. CASE i = cursor + 1
  BY <1>1, <1>2 DEF Allowed, Before
<1>3. CASE i # cursor + 1
  BY <1>1, <1>3 DEF Allowed, Before
<1> QED BY <1>2, <1>3

\* Choosing the task under the cursor keeps a level in order: its turn before
\* the waiting task is used up.
LEMMA ChooseOk ==
    ASSUME NEW q \in Seq(Pids), Distinct(q), NEW cursor \in Nat, cursor < Len(q),
           NEW count \in [Pids -> Nat], q[cursor + 1] # Watched, LevelOk(q, cursor, count)
    PROVE  LevelOk(q, IF cursor + 1 < Len(q) THEN cursor + 1 ELSE 0,
                   [count EXCEPT ![q[cursor + 1]] = @ + 1])
<1> DEFINE pid == q[cursor + 1]
           c == IF cursor + 1 < Len(q) THEN cursor + 1 ELSE 0
           new == [count EXCEPT ![pid] = @ + 1]
<1>0. Len(q) \in Nat /\ DOMAIN q = 1 .. Len(q) /\ cursor + 1 \in DOMAIN q
  OBVIOUS
<1>1. pid \in Pids
  BY <1>0
<1>2. \A p \in Pids : new[p] = IF p = pid THEN count[p] + 1 ELSE count[p]
  OBVIOUS
<1> HIDE DEF new
<1> SUFFICES ASSUME NEW i \in DOMAIN q, NEW w \in DOMAIN q, q[w] = Watched, i # w
             PROVE  Allowed(new[q[i]], c, i, w)
  BY DEF LevelOk, new
<1>3. Allowed(count[q[i]], cursor, i, w) /\ q[i] \in Pids /\ count[q[i]] \in Nat
  BY DEF LevelOk
<1>4. w # cursor + 1
  OBVIOUS
<1>5. q[i] = pid <=> i = cursor + 1
  BY <1>0 DEF Distinct
<1>6. PICK n \in Nat : n = count[q[i]]
  BY <1>3
<1>7. new[q[i]] = IF i = cursor + 1 THEN n + 1 ELSE n
  BY <1>2, <1>3, <1>5, <1>6
<1>8. Allowed(IF i = cursor + 1 THEN n + 1 ELSE n, c, i, w)
  BY <1>0, <1>3, <1>4, <1>6, ChooseArithmetic
<1> QED BY <1>7, <1>8
----------------------------------------------------------------------------
\* A queue without repetitions, its cursor, and the counts of its tasks.
Good(q, cursor, count) ==
    /\ q \in Seq(Pids) /\ Distinct(q)
    /\ cursor \in Nat /\ (cursor < Len(q) \/ cursor = 0)
    /\ LevelOk(q, cursor, count)

On(pid, l) == In(g_queues[l], pid)
Tasks == {pid \in Pids : \E l \in Levels : On(pid, l)}

\* The inductive invariant: the queues are good, no task is on two of them, the
\* total counts the tasks, and only tasks that share a level with the watched
\* one are counted.
SchedInv ==
    /\ DOMAIN g_queues = Levels /\ g_queues = [l \in Levels |-> g_queues[l]]
    /\ g_rr_cursor \in [Levels -> Nat]
    /\ g_current_pid \in Pids \cup {0}
    /\ overtakes \in [Pids -> Nat]
    /\ \A l \in Levels : Good(g_queues[l], g_rr_cursor[l], overtakes)
    /\ \A pid \in Pids : \A l, m \in Levels : On(pid, l) /\ On(pid, m) => l = m
    /\ g_total_count = Cardinality(Tasks) /\ g_total_count <= MaxTasks
    /\ \A pid \in Pids :
          overtakes[pid] # 0 =>
             pid # Watched /\ \E l \in Levels : On(pid, l) /\ On(Watched, l)

\* A queue without repetitions is no longer than the set its tasks are in.
LEMMA QueueFits ==
    ASSUME NEW q \in Seq(Pids), Distinct(q), NEW T, T \subseteq Pids,
           \A i \in DOMAIN q : q[i] \in T
    PROVE  IsFiniteSet(T) /\ Cardinality(T) \in Nat /\ Len(q) <= Cardinality(T)
<1>1. IsFiniteSet(T) /\ Cardinality(T) \in Nat
  BY SchedAssumption, FS_Subset, FS_CardinalityType
<1>2. Len(q) \in Nat /\ DOMAIN q = 1 .. Len(q) /\ q \in [1 .. Len(q) -> T]
  OBVIOUS
<1>3. q \in Injection(1 .. Len(q), T)
  BY <1>2 DEF Distinct, Injection, IsInjective
<1>4. Cardinality(1 .. Len(q)) <= Cardinality(T)
  BY <1>1, <1>3, FS_Injection
<1>5. Cardinality(1 .. Len(q)) = Len(q)
  <2>1. PICK n \in Nat : n = Len(q)
    BY <1>2
  <2>2. Cardinality(1 .. n) = IF 1 > n THEN 0 ELSE n - 1 + 1
    BY FS_Interval
  <2> QED BY <2>1, <2>2
<1> QED BY <1>1, <1>4, <1>5

\* So no queue is longer than the table, and there is room on a level for a
\* task that is on another one: the roll-back of set_priority is never needed.
LEMMA Room ==
    ASSUME SchedInv, NEW l \in Levels
    PROVE  /\ Len(g_queues[l]) \in Nat /\ Len(g_queues[l]) <= g_total_count
           /\ g_total_count \in Nat /\ Len(g_queues[l]) <= MaxTasks
           /\ \A pid \in Tasks : ~ On(pid, l) => Len(g_queues[l]) < MaxTasks
<1> DEFINE q == g_queues[l]
<1>1. q \in Seq(Pids) /\ Distinct(q) /\ Len(q) \in Nat
  BY DEF SchedInv, Good
<1>2. \A i \in DOMAIN q : q[i] \in Tasks /\ \A pid : ~ On(pid, l) => q[i] # pid
  BY <1>1 DEF Tasks, On, In
<1> HIDE DEF q
<1>3. /\ IsFiniteSet(Tasks) /\ Cardinality(Tasks) \in Nat /\ Len(q) <= Cardinality(Tasks)
  BY <1>1, <1>2, QueueFits DEF Tasks
<1>4. ASSUME NEW pid \in Tasks, ~ On(pid, l) PROVE Len(q) < MaxTasks
  <2>1. \A i \in DOMAIN q : q[i] \in Tasks \ {pid}
    BY <1>2, <1>4
  <2>2. Len(q) <= Cardinality(Tasks \ {pid})
    BY <1>1, <2>1, QueueFits DEF Tasks
  <2>3. Cardinality(Tasks \ {pid}) = Cardinality(Tasks) - 1
    BY <1>3, FS_RemoveElement
  <2> QED BY <1>1, <1>3, <2>2, <2>3, SchedAssumption DEF SchedInv
<1> QED BY <1>1, <1>3, <1>4, SchedAssumption DEF SchedInv, q

\* The places where find_pid finds a task.
LEMMA Found ==
    ASSUME SchedInv, NEW pid \in Pids, Queued(pid) # {}
    PROVE  /\ PriorityOf(pid) \in Levels /\ On(pid, PriorityOf(pid))
           /\ IndexOf(pid) \in DOMAIN g_queues[PriorityOf(pid)]
           /\ g_queues[PriorityOf(pid)][IndexOf(pid)] = pid
           /\ pid \in Tasks
           /\ \A m \in Levels : On(pid, m) => m = PriorityOf(pid)
<1> DEFINE l == PriorityOf(pid)
           places == Places(g_queues[l], pid)
<1>1. Queued(pid) \subseteq Nat
  BY SchedAssumption DEF Queued, Levels
<1>2. l \in Queued(pid)
  BY <1>1, MinIn DEF PriorityOf
<1>3. l \in Levels /\ places # {}
  BY <1>2 DEF Queued
<1> HIDE DEF l
<1>4. g_queues[l] \in Seq(Pids)
  BY <1>3 DEF SchedInv, Good
<1>5. places \subseteq Nat
  BY <1>4 DEF Places
<1>6. Min(places) \in places
  <2> HIDE DEF places
  <2> QED BY <1>3, <1>5, MinIn
<1>7. IndexOf(pid) \in places
  BY <1>6 DEF IndexOf, l
<1>8. IndexOf(pid) \in DOMAIN g_queues[l] /\ g_queues[l][IndexOf(pid)] = pid
  BY <1>7 DEF Places
<1>9. On(pid, l)
  BY <1>8 DEF On, In
<1> QED BY <1>3, <1>8, <1>9 DEF l, Tasks, SchedInv

\* A task is queued when it is on some level.
LEMMA NotQueued ==
    ASSUME SchedInv, NEW pid \in Pids
    PROVE  Queued(pid) = {} <=> \A l \in Levels : ~ On(pid, l)
BY DEF Queued, Places, On, In
----------------------------------------------------------------------------
\* What leaving and joining does to the counts.
Forgotten(pid, new) ==
    \A p \in Pids : new[p] = IF pid \in {p, Watched} THEN 0 ELSE overtakes[p]

\* A level that pid is not on stays good.
LEMMA StaysGood ==
    ASSUME SchedInv, NEW pid \in Pids, NEW l \in Levels, ~ On(pid, l),
           NEW new, Forgotten(pid, new)
    PROVE  Good(g_queues[l], g_rr_cursor[l], new)
<1> DEFINE q == g_queues[l]
           c == g_rr_cursor[l]
<1>1. Good(q, c, overtakes) /\ ~ In(q, pid) /\ Len(q) <= MaxTasks
  BY Room DEF SchedInv, On
<1> HIDE DEF q, c
<1>2. CASE pid = Watched
  <2>1. \A p \in Pids : new[p] = 0
    BY <1>2 DEF Forgotten
  <2> QED BY <1>1, <2>1, FreshOk DEF Good, q, c
<1>3. CASE pid # Watched
  <2>1. \A i \in DOMAIN q : q[i] \in Pids /\ q[i] # pid
    BY <1>1 DEF Good, In
  <2>2. \A i \in DOMAIN q : new[q[i]] = overtakes[q[i]]
    BY <1>3, <2>1 DEF Forgotten
  <2>3. LevelOk(q, c, new)
    BY <1>1, <2>2 DEF Good, LevelOk
  <2> QED BY <1>1, <2>3 DEF Good, q, c
<1> QED BY <1>2, <1>3

\* The level that pid leaves stays good.
LEMMA ShrinksGood ==
    ASSUME SchedInv, NEW l \in Levels, NEW r \in DOMAIN g_queues[l],
           NEW new, Forgotten(g_queues[l][r], new)
    PROVE  Good(RemoveAt(g_queues[l], r),
                CursorAfterRemove(g_rr_cursor[l], r, Len(g_queues[l]) - 1), new)
<1> DEFINE q == g_queues[l]
           c == g_rr_cursor[l]
           left == RemoveAt(q, r)
           c2 == CursorAfterRemove(c, r, Len(q) - 1)
           pid == q[r]
<1>1. Good(q, c, overtakes) /\ Len(q) <= MaxTasks /\ r \in DOMAIN q
  BY Room DEF SchedInv
<1> HIDE DEF q, c
<1>2. /\ q \in Seq(Pids) /\ Distinct(q) /\ c \in Nat /\ (c < Len(q) \/ c = 0)
      /\ Len(q) \in Nat /\ r \in 1 .. Len(q)
  BY <1>1 DEF Good
<1>3. /\ left \in Seq(Pids) /\ Distinct(left) /\ Len(left) = Len(q) - 1
      /\ \A p : In(left, p) <=> In(q, p) /\ p # pid
  BY <1>2, Removed, RemovedMembers
<1>4. c < Len(q) /\ c2 \in Nat /\ (c2 < Len(left) \/ c2 = 0)
  <2> HIDE DEF left
  <2>1. c < Len(q)
    BY <1>2
  <2>2. PICK n \in Nat : n = Len(q) - 1
    BY <1>2
  <2>3. c2 \in Nat /\ (c2 < n \/ c2 = 0)
    BY <1>2, <2>1, <2>2 DEF CursorAfterRemove
  <2> QED BY <1>3, <2>1, <2>2, <2>3
<1>5. LevelOk(left, c2, new)
  <2>1. CASE pid = Watched
    <3>1. \A p \in Pids : new[p] = 0
      BY <2>1 DEF Forgotten, q
    <3>2. Len(left) <= MaxTasks
      <4> HIDE DEF left
      <4> QED BY <1>1, <1>2, <1>3, SchedAssumption
    <3> QED BY <1>3, <1>4, <3>1, <3>2, FreshOk
  <2>2. CASE pid # Watched
    <3>1. \A i \in DOMAIN q \ {r} : q[i] \in Pids /\ q[i] # pid
      BY <1>2 DEF Distinct
    <3>2. \A i \in DOMAIN q \ {r} : new[q[i]] = overtakes[q[i]]
      BY <2>2, <3>1 DEF Forgotten, q
    <3> QED BY <1>1, <1>2, <1>4, <3>2, RemoveOk DEF Good, SchedInv
  <2> QED BY <2>1, <2>2
<1> QED BY <1>3, <1>4, <1>5 DEF Good, q, c

\* The level that pid joins stays good.
LEMMA GrowsGood ==
    ASSUME SchedInv, NEW pid \in Pids, NEW l \in Levels, ~ On(pid, l),
           Len(g_queues[l]) < MaxTasks, NEW new, Forgotten(pid, new)
    PROVE  Good(Append(g_queues[l], pid), g_rr_cursor[l], new)
<1> DEFINE q == g_queues[l]
           c == g_rr_cursor[l]
<1>1. Good(q, c, overtakes) /\ ~ In(q, pid) /\ Len(q) < MaxTasks /\ overtakes \in [Pids -> Nat]
  BY DEF SchedInv, On
<1> HIDE DEF q, c
<1>2. /\ q \in Seq(Pids) /\ Distinct(q) /\ c \in Nat /\ (c < Len(q) \/ c = 0)
      /\ Len(q) \in Nat
  BY <1>1 DEF Good
<1> DEFINE more == Append(q, pid)
<1>3. more \in Seq(Pids) /\ Distinct(more) /\ Len(more) = Len(q) + 1
  BY <1>1, <1>2, Appended
<1>4. LevelOk(more, c, new)
  BY <1>1, <1>2, AppendOk DEF Forgotten, Good
<1> HIDE DEF more
<1>5. c < Len(more) \/ c = 0
  BY <1>2, <1>3
<1> QED BY <1>2, <1>3, <1>4, <1>5 DEF Good, q, c, more

\* A call that moves only pid, to the levels in to.
LEMMA MoveStep ==
    ASSUME SchedInv, NEW pid \in Pids, NEW to, Forget(pid),
           to = {} \/ \E l \in Levels : to = {l},
           DOMAIN g_queues' = Levels, g_queues' = [l \in Levels |-> g_queues'[l]],
           g_rr_cursor' \in [Levels -> Nat],
           \A l \in Levels : Good(g_queues'[l], g_rr_cursor'[l], overtakes'),
           \A l \in Levels : \A p \in Pids \ {pid} : In(g_queues'[l], p) <=> On(p, l),
           \A l \in Levels : In(g_queues'[l], pid) <=> l \in to,
           g_current_pid' = g_current_pid,
           g_total_count' = g_total_count + (IF to = {} THEN 0 ELSE 1)
                                          - (IF pid \in Tasks THEN 1 ELSE 0),
           g_total_count' <= MaxTasks
    PROVE  SchedInv'
<1>1. overtakes' \in [Pids -> Nat] /\ Forgotten(pid, overtakes')
  BY DEF Forget, Forgotten, SchedInv
<1>2. \A p \in Pids : \A l, m \in Levels : On(p, l)' /\ On(p, m)' => l = m
  BY DEF On, SchedInv
<1>3. \A p \in Pids :
         overtakes'[p] # 0 => p # Watched /\ \E l \in Levels : On(p, l)' /\ On(Watched, l)'
  BY <1>1, SchedAssumption DEF Forgotten, SchedInv, On
<1>4. g_total_count' = Cardinality(Tasks')
  <2>1. IsFiniteSet(Tasks) /\ Cardinality(Tasks) \in Nat
    BY SchedAssumption, FS_Subset, FS_CardinalityType DEF Tasks
  <2>2. /\ IsFiniteSet(Tasks \ {pid})
        /\ Cardinality(Tasks \ {pid}) = g_total_count - (IF pid \in Tasks THEN 1 ELSE 0)
    BY <2>1, FS_RemoveElement DEF SchedInv
  <2>3. Cardinality((Tasks \ {pid}) \cup {pid}) = Cardinality(Tasks \ {pid}) + 1
    BY <2>2, FS_AddElement
  <2>4. Tasks' = IF to = {} THEN Tasks \ {pid} ELSE (Tasks \ {pid}) \cup {pid}
    BY DEF Tasks, On
  <2>5. g_total_count \in Nat
    BY <2>1 DEF SchedInv
  <2> QED BY <2>2, <2>3, <2>4, <2>5
<1> QED BY <1>1, <1>2, <1>3, <1>4 DEF SchedInv
----------------------------------------------------------------------------
\* qos_sched_add_task_prio
LEMMA AddStep ==
    ASSUME SchedInv, NEW pid \in Pids, NEW l \in Levels, AddTask(pid, l)
    PROVE  SchedInv'
<1> DEFINE more == Append(g_queues[l], pid)
<1>1. /\ \A m \in Levels : ~ On(pid, m)
      /\ pid \notin Tasks
      /\ g_queues' = [g_queues EXCEPT ![l] = more] /\ g_rr_cursor' = g_rr_cursor
      /\ g_total_count' = g_total_count + 1 /\ g_current_pid' = g_current_pid
      /\ g_total_count < MaxTasks /\ Forget(pid)
  BY NotQueued DEF AddTask, Tasks
<1>2. Forgotten(pid, overtakes')
  BY <1>1 DEF Forget, Forgotten
<1>3. Len(g_queues[l]) < MaxTasks /\ g_total_count \in Nat
  BY <1>1, Room, SchedAssumption
<1>4. Good(more, g_rr_cursor[l], overtakes')
  BY <1>1, <1>2, <1>3, GrowsGood
<1>5. \A p : In(more, p) <=> On(p, l) \/ p = pid
  BY <1>1, Appended DEF SchedInv, Good, On
<1> HIDE DEF more
<1>6. /\ DOMAIN g_queues' = Levels /\ g_queues' = [m \in Levels |-> g_queues'[m]]
      /\ g_queues'[l] = more /\ \A m \in Levels \ {l} : g_queues'[m] = g_queues[m]
  BY <1>1 DEF SchedInv
<1>7. \A m \in Levels : Good(g_queues'[m], g_rr_cursor'[m], overtakes')
  BY <1>1, <1>2, <1>4, <1>6, StaysGood
<1>8. /\ \A m \in Levels : \A p \in Pids \ {pid} : In(g_queues'[m], p) <=> On(p, m)
      /\ \A m \in Levels : In(g_queues'[m], pid) <=> m \in {l}
  BY <1>1, <1>5, <1>6 DEF On
<1>9. /\ g_total_count' = g_total_count + (IF {l} = {} THEN 0 ELSE 1)
                                        - (IF pid \in Tasks THEN 1 ELSE 0)
      /\ g_total_count' <= MaxTasks
  BY <1>1, <1>3, SchedAssumption
<1>10. g_rr_cursor' \in [Levels -> Nat]
  BY <1>1 DEF SchedInv
<1> QED BY <1>1, <1>6, <1>7, <1>8, <1>9, <1>10, MoveStep

\* qos_sched_remove_task
LEMMA RemoveStep ==
    ASSUME SchedInv, NEW pid \in Pids, RemoveTask(pid)
    PROVE  SchedInv'
<1>1. PICK l \in Levels : l = PriorityOf(pid)
  BY Found DEF RemoveTask
<1>2. PICK i \in DOMAIN g_queues[l] : i = IndexOf(pid)
  BY <1>1, Found DEF RemoveTask
<1>3. /\ g_queues[l][i] = pid /\ pid \in Tasks
      /\ \A m \in Levels \ {l} : ~ On(pid, m)
  BY <1>1, <1>2, Found DEF RemoveTask
<1> DEFINE left == RemoveAt(g_queues[l], i)
           c == CursorAfterRemove(g_rr_cursor[l], i, Len(g_queues[l]) - 1)
<1>4. /\ g_queues' = [g_queues EXCEPT ![l] = left]
      /\ g_rr_cursor' = [g_rr_cursor EXCEPT ![l] = c]
      /\ g_total_count' = g_total_count - 1 /\ g_current_pid' = g_current_pid
      /\ Forget(pid)
  BY <1>1, <1>2 DEF RemoveTask
<1>5. Forgotten(pid, overtakes')
  BY <1>4 DEF Forget, Forgotten
<1>6. Good(left, c, overtakes')
  BY <1>3, <1>5, ShrinksGood
<1>7. \A p : In(left, p) <=> On(p, l) /\ p # pid
  BY <1>3, RemovedMembers DEF SchedInv, Good, On
<1> HIDE DEF left, c
<1>8. /\ DOMAIN g_queues' = Levels /\ g_queues' = [m \in Levels |-> g_queues'[m]]
      /\ g_queues'[l] = left /\ \A m \in Levels \ {l} : g_queues'[m] = g_queues[m]
  BY <1>4 DEF SchedInv
<1>9. /\ g_rr_cursor' \in [Levels -> Nat] /\ g_rr_cursor'[l] = c
      /\ \A m \in Levels \ {l} : g_rr_cursor'[m] = g_rr_cursor[m]
  BY <1>4, <1>6 DEF SchedInv, Good
<1>10. \A m \in Levels : Good(g_queues'[m], g_rr_cursor'[m], overtakes')
  BY <1>3, <1>5, <1>6, <1>8, <1>9, StaysGood
<1>11. /\ \A m \in Levels : \A p \in Pids \ {pid} : In(g_queues'[m], p) <=> On(p, m)
       /\ \A m \in Levels : In(g_queues'[m], pid) <=> m \in {}
  BY <1>3, <1>7, <1>8 DEF On
<1>12. g_total_count \in Nat /\ g_total_count <= MaxTasks
  BY Room DEF SchedInv
<1>13. PICK to : to = {}
  OBVIOUS
<1>14. /\ g_total_count' = g_total_count + (IF to = {} THEN 0 ELSE 1)
                                         - (IF pid \in Tasks THEN 1 ELSE 0)
       /\ g_total_count' <= MaxTasks
  BY <1>3, <1>4, <1>12, <1>13, SchedAssumption
<1>15. \A m \in Levels : In(g_queues'[m], pid) <=> m \in to
  BY <1>11, <1>13
<1>16. to = {} \/ \E m \in Levels : to = {m}
  BY <1>13
<1>17. \A m \in Levels : \A p \in Pids \ {pid} : In(g_queues'[m], p) <=> On(p, m)
  BY <1>11
<1> QED BY <1>4, <1>8, <1>9, <1>10, <1>14, <1>15, <1>16, <1>17, MoveStep

\* qos_sched_set_priority
LEMMA SetPriorityStep ==
    ASSUME SchedInv, NEW pid \in Pids, NEW to \in Levels, SetPriority(pid, to)
    PROVE  SchedInv'
<1>1. PICK l \in Levels : l = PriorityOf(pid)
  BY Found DEF SetPriority
<1>2. PICK i \in DOMAIN g_queues[l] : i = IndexOf(pid)
  BY <1>1, Found DEF SetPriority
<1>3. /\ g_queues[l][i] = pid /\ pid \in Tasks /\ l # to
      /\ \A m \in Levels \ {l} : ~ On(pid, m)
  BY <1>1, <1>2, Found DEF SetPriority
<1> DEFINE left == RemoveAt(g_queues[l], i)
           more == Append(g_queues[to], pid)
           c == CursorAfterRemove(g_rr_cursor[l], i, Len(g_queues[l]) - 1)
<1>4. Len(g_queues[to]) < MaxTasks
  BY <1>3, Room
<1>5. /\ g_queues' = [g_queues EXCEPT ![l] = left, ![to] = more]
      /\ g_rr_cursor' = [g_rr_cursor EXCEPT ![l] = c]
      /\ g_total_count' = g_total_count /\ g_current_pid' = g_current_pid
      /\ Forget(pid)
  BY <1>1, <1>2, <1>3, <1>4 DEF SetPriority
<1>6. Forgotten(pid, overtakes')
  BY <1>5 DEF Forget, Forgotten
<1>7. Good(left, c, overtakes') /\ Good(more, g_rr_cursor[to], overtakes')
  BY <1>3, <1>4, <1>6, ShrinksGood, GrowsGood
<1>8. \A p : In(left, p) <=> On(p, l) /\ p # pid
  BY <1>3, RemovedMembers DEF SchedInv, Good, On
<1>9. \A p : In(more, p) <=> On(p, to) \/ p = pid
  BY <1>3, Appended DEF SchedInv, Good, On
<1> HIDE DEF left, more, c
<1>10. /\ DOMAIN g_queues' = Levels /\ g_queues' = [m \in Levels |-> g_queues'[m]]
       /\ g_queues'[l] = left /\ g_queues'[to] = more
       /\ \A m \in Levels \ {l, to} : g_queues'[m] = g_queues[m]
  BY <1>3, <1>5 DEF SchedInv
<1>11. /\ g_rr_cursor' \in [Levels -> Nat] /\ g_rr_cursor'[l] = c
       /\ \A m \in Levels \ {l} : g_rr_cursor'[m] = g_rr_cursor[m]
  BY <1>5, <1>7 DEF SchedInv, Good
<1>12. \A m \in Levels : Good(g_queues'[m], g_rr_cursor'[m], overtakes')
  BY <1>3, <1>6, <1>7, <1>10, <1>11, StaysGood
<1>13. /\ \A m \in Levels : \A p \in Pids \ {pid} : In(g_queues'[m], p) <=> On(p, m)
       /\ \A m \in Levels : In(g_queues'[m], pid) <=> m \in {to}
  BY <1>3, <1>8, <1>9, <1>10 DEF On
<1>14. g_total_count \in Nat /\ g_total_count <= MaxTasks
  BY Room DEF SchedInv
<1>15. PICK target : target = {to}
  OBVIOUS
<1>16. /\ g_total_count' = g_total_count + (IF target = {} THEN 0 ELSE 1)
                                         - (IF pid \in Tasks THEN 1 ELSE 0)
       /\ g_total_count' <= MaxTasks
  BY <1>3, <1>5, <1>14, <1>15
<1>17. \A m \in Levels : In(g_queues'[m], pid) <=> m \in target
  BY <1>13, <1>15
<1> QED BY <1>5, <1>10, <1>11, <1>12, <1>13, <1>15, <1>16, <1>17, MoveStep

\* qos_sched_next
LEMMA NextTaskStep == ASSUME SchedInv, NextTask PROVE SchedInv'
<1>1. Top \in Levels /\ g_queues[Top] # <<>>
  <2>0. Busy # {}
    BY DEF NextTask
  <2>1. NumLevels - 1 \in Nat /\ Busy \subseteq 0 .. NumLevels - 1
    BY SchedAssumption DEF Busy, Levels
  <2>2. Max(Busy) \in Busy
    BY <2>0, <2>1, MaxIn
  <2> QED BY <2>2 DEF Busy, Top
<1>2. PICK l \in Levels : l = Top
  BY <1>1
<1>3. PICK q : q = g_queues[l]
  OBVIOUS
<1>4. PICK c \in Nat : c = g_rr_cursor[l]
  BY DEF SchedInv
<1>5. /\ q \in Seq(Pids) /\ Distinct(q) /\ q # <<>> /\ LevelOk(q, c, overtakes)
      /\ c < Len(q) \/ c = 0
      /\ Len(q) <= MaxTasks
  BY <1>1, <1>2, <1>3, <1>4, Room DEF SchedInv, Good
<1>6. Len(q) \in Nat \ {0} /\ c < Len(q)
  BY <1>5
<1>7. c % Len(q) = c /\ (c + 1) % Len(q) = IF c + 1 < Len(q) THEN c + 1 ELSE 0
  <2>1. PICK n \in Nat \ {0} : n = Len(q)
    BY <1>6
  <2>2. c < n /\ 1 <= n /\ 1 \in Nat
    BY <1>6, <2>1
  <2>3. c % n = c
    BY <2>2
  <2>4. (c + 1) % n = IF c + 1 < n THEN c + 1 ELSE c + 1 - n
    BY <2>2, WrapOnce
  <2> QED BY <2>1, <2>2, <2>3, <2>4
<1> DEFINE pid == q[c + 1]
           c2 == IF c + 1 < Len(q) THEN c + 1 ELSE 0
<1>8. /\ g_rr_cursor' = [g_rr_cursor EXCEPT ![l] = c2]
      /\ g_current_pid' = pid
      /\ overtakes' = IF pid = Watched THEN [p \in Pids |-> 0]
                      ELSE IF l \in Queued(Watched) THEN [overtakes EXCEPT ![pid] = @ + 1]
                      ELSE overtakes
      /\ g_queues' = g_queues /\ g_total_count' = g_total_count
  BY <1>2, <1>3, <1>4, <1>7 DEF NextTask
<1>9. /\ c + 1 \in DOMAIN q /\ pid \in Pids /\ On(pid, l)
      /\ c2 \in Nat /\ c2 < Len(q)
  BY <1>3, <1>5, <1>6 DEF On, In
<1> HIDE DEF c2
<1>10. /\ overtakes' \in [Pids -> Nat]
       /\ g_rr_cursor' \in [Levels -> Nat] /\ g_rr_cursor'[l] = c2
       /\ \A m \in Levels \ {l} : g_rr_cursor'[m] = g_rr_cursor[m]
  BY <1>8, <1>9 DEF SchedInv
<1>11. l \in Queued(Watched) <=> On(Watched, l)
  BY DEF Queued, Places, On, In
<1>12. \A p \in Pids :
          overtakes'[p] # 0 => p # Watched /\ \E m \in Levels : On(p, m) /\ On(Watched, m)
  <2>1. CASE pid = Watched
    BY <1>8, <2>1
  <2>2. CASE pid # Watched /\ On(Watched, l)
    <3>1. \A p \in Pids \ {pid} : overtakes'[p] = overtakes[p]
      BY <1>8, <1>11, <2>2 DEF SchedInv
    <3> QED BY <1>9, <2>2, <3>1 DEF SchedInv
  <2>3. CASE pid # Watched /\ ~ On(Watched, l)
    BY <1>8, <1>11, <2>3 DEF SchedInv
  <2> QED BY <2>1, <2>2, <2>3
<1>13. LevelOk(q, c2, overtakes')
  <2>1. CASE pid = Watched
    <3>1. \A p \in Pids : overtakes'[p] = 0
      BY <1>8, <2>1
    <3> QED BY <1>5, <1>9, <3>1, FreshOk
  <2>2. CASE pid # Watched /\ On(Watched, l)
    BY <1>5, <1>6, <1>8, <1>11, <2>2, ChooseOk DEF SchedInv, c2
  <2>3. CASE ~ On(Watched, l)
    BY <1>3, <2>3 DEF LevelOk, On, In
  <2> QED BY <2>1, <2>2, <2>3
<1>14. ASSUME NEW m \in Levels \ {l} PROVE LevelOk(g_queues[m], g_rr_cursor[m], overtakes')
  <2>1. CASE On(Watched, m)
    <3>1. ~ On(Watched, l) /\ pid # Watched
      BY <1>9, <2>1, SchedAssumption DEF SchedInv
    <3>2. overtakes' = overtakes
      BY <1>8, <1>11, <3>1
    <3> QED BY <3>2 DEF SchedInv, Good
  <2>2. CASE ~ On(Watched, m)
    BY <2>2 DEF LevelOk, On, In
  <2> QED BY <2>1, <2>2
<1>15. \A m \in Levels : Good(g_queues'[m], g_rr_cursor'[m], overtakes')
  BY <1>3, <1>5, <1>8, <1>9, <1>10, <1>13, <1>14 DEF SchedInv, Good
<1>16. Tasks' = Tasks
  BY <1>8 DEF Tasks, On
<1> HIDE DEF pid
<1>17. \A p, m : On(p, m)' <=> On(p, m)
  BY <1>8 DEF On
<1>18. \A p \in Pids :
          overtakes'[p] # 0 => p # Watched /\ \E m \in Levels : On(p, m)' /\ On(Watched, m)'
  BY <1>12, <1>17
<1>19. \A p \in Pids : \A k, m \in Levels : On(p, k)' /\ On(p, m)' => k = m
  BY <1>17 DEF SchedInv
<1>20. /\ DOMAIN g_queues' = Levels /\ g_queues' = [m \in Levels |-> g_queues'[m]]
       /\ g_current_pid' \in Pids \cup {0}
       /\ g_total_count' = Cardinality(Tasks') /\ g_total_count' <= MaxTasks
  BY <1>8, <1>9, <1>16 DEF SchedInv
<1> QED BY <1>10, <1>15, <1>18, <1>19, <1>20 DEF SchedInv

\* An empty table is in order (qos_sched_reset).
LEMMA SchedInvInit == SchedInit => SchedInv
<1> SUFFICES ASSUME SchedInit PROVE SchedInv
  OBVIOUS
<1> USE DEF SchedInit
<1>1. \A l \in Levels : g_queues[l] = <<>> /\ DOMAIN g_queues[l] = {} /\ g_rr_cursor[l] = 0
  OBVIOUS
<1>2. \A l \in Levels : \A pid : ~ On(pid, l)
  BY <1>1 DEF On, In
<1>3. Tasks = {}
  BY <1>2 DEF Tasks
<1>4. Cardinality(Tasks) = 0
  BY <1>3, FS_EmptySet
<1>5. \A l \in Levels : Good(g_queues[l], g_rr_cursor[l], overtakes)
  BY <1>1 DEF Good, Distinct, LevelOk
<1>6. \A pid \in Pids : overtakes[pid] = 0
  OBVIOUS
<1>7. overtakes \in [Pids -> Nat] /\ g_rr_cursor \in [Levels -> Nat]
  OBVIOUS
<1> QED BY <1>2, <1>4, <1>5, <1>6, <1>7, SchedAssumption DEF SchedInv

\* qos_sched_reset leaves what the boot does.
LEMMA ResetStep == Reset => SchedInv'
<1>1. Reset => SchedInit'
  BY DEF Reset, SchedInit
<1>2. SchedInit' => SchedInv'
  BY SchedInvInit, PTL
<1> QED BY <1>1, <1>2

\* Every call keeps the invariant.
LEMMA SchedInvNext == SchedInv /\ [Next]_vars => SchedInv'
<1> SUFFICES ASSUME SchedInv, [Next]_vars PROVE SchedInv'
  OBVIOUS
<1>1. CASE UNCHANGED vars
  BY <1>1 DEF vars, SchedInv, Tasks, On
<1>2. CASE NextIdle
  BY <1>2 DEF NextIdle, SchedInv, Tasks, On
<1>3. CASE Next
  BY <1>2, <1>3, AddStep, RemoveStep, SetPriorityStep, NextTaskStep, ResetStep
     DEF Next, SchedNext
<1> QED BY <1>1, <1>3

\* What the invariant says about the queues and about the overtaking.
LEMMA SchedInvMeans == SchedInv => QueuesAgree /\ BoundedOvertaking
<1> SUFFICES ASSUME SchedInv PROVE QueuesAgree /\ BoundedOvertaking
  OBVIOUS
<1>1. \A l \in Levels : /\ g_queues[l] \in Seq(Pids) /\ Distinct(g_queues[l])
                        /\ g_rr_cursor[l] < Len(g_queues[l]) \/ g_rr_cursor[l] = 0
  BY DEF SchedInv, Good
<1>2. g_queues \in [Levels -> Seq(Pids)]
  BY <1>1 DEF SchedInv
<1>3. g_total_count \in 0 .. MaxTasks
  <2>1. 0 \in Levels
    BY SchedAssumption DEF Levels
  <2>2. g_total_count \in Nat /\ g_total_count <= MaxTasks
    BY <2>1, Room DEF SchedInv
  <2> QED BY <2>2, SchedAssumption
<1>4. TypeOK
  BY <1>2, <1>3 DEF TypeOK, SchedInv
<1>5. \A l, m \in Levels : \A i \in DOMAIN g_queues[l], j \in DOMAIN g_queues[m] :
         g_queues[l][i] = g_queues[m][j] => l = m /\ i = j
  <2> SUFFICES ASSUME NEW l \in Levels, NEW m \in Levels, NEW i \in DOMAIN g_queues[l],
                      NEW j \in DOMAIN g_queues[m], g_queues[l][i] = g_queues[m][j]
               PROVE  l = m /\ i = j
    OBVIOUS
  <2>1. g_queues[l][i] \in Pids
    BY <1>1
  <2>2. l = m
    BY <2>1 DEF SchedInv, On, In
  <2> QED BY <1>1, <2>2 DEF Distinct
<1>6. {pid \in Pids : Queued(pid) # {}} = Tasks
  BY NotQueued DEF Tasks
<1>7. QueuesAgree
  BY <1>1, <1>4, <1>5, <1>6 DEF QueuesAgree, SchedInv
<1>8. ASSUME NEW pid \in Pids PROVE overtakes[pid] < MaxTasks
  <2>1. overtakes[pid] \in Nat /\ MaxTasks \in Nat \ {0}
    BY SchedAssumption DEF SchedInv
  <2>2. CASE overtakes[pid] = 0
    BY <2>1, <2>2
  <2>3. CASE overtakes[pid] # 0
    <3>1. PICK l \in Levels : On(pid, l) /\ On(Watched, l) /\ pid # Watched
      BY <2>3 DEF SchedInv
    <3>2. PICK i \in DOMAIN g_queues[l] : g_queues[l][i] = pid
      BY <3>1 DEF On, In
    <3>3. PICK w \in DOMAIN g_queues[l] : g_queues[l][w] = Watched
      BY <3>1 DEF On, In
    <3>4. Allowed(overtakes[pid], g_rr_cursor[l], i, w) /\ i # w
      BY <3>1, <3>2, <3>3 DEF SchedInv, Good, LevelOk
    <3>5. PICK len \in Nat : len <= MaxTasks /\ i \in 1 .. len /\ w \in 1 .. len
      <4>1. Len(g_queues[l]) \in Nat /\ DOMAIN g_queues[l] = 1 .. Len(g_queues[l])
        BY <1>1
      <4> QED BY <4>1, Room
    <3>6. PICK n \in Nat : n = overtakes[pid]
      BY <2>1
    <3>7. Allowed(n, g_rr_cursor[l], i, w)
      BY <3>4, <3>6
    <3>8. n < MaxTasks
      BY <2>1, <3>4, <3>5, <3>7 DEF Allowed
    <3> QED BY <3>6, <3>8
  <2> QED BY <2>2, <2>3
<1> QED BY <1>7, <1>8 DEF BoundedOvertaking

\* The invariant holds in every reachable state.
THEOREM SchedInvariant == Spec => []SchedInv
BY SchedInvInit, SchedInvNext, PTL DEF Spec

\* No task is queued twice, the total is the number of queued tasks and every
\* cursor points into its queue (sched.c:47-118).
THEOREM SchedQueuesAgree == Spec => []QueuesAgree
BY SchedInvariant, SchedInvMeans, PTL

\* No task of a level is chosen MaxTasks times while another one waits there,
\* whatever is added, removed and moved meanwhile (sched.c:92-118,206-229).
THEOREM SchedBoundedOvertaking == Spec => []BoundedOvertaking
BY SchedInvariant, SchedInvMeans, PTL
============================================================================
