----------------------------- MODULE TablesProofs -----------------------------
(***************************************************************************)
(* Proofs about shared libraries and modules and about kernel threads, for  *)
(* every size of their tables and every choice of paths.                    *)
(*                                                                         *)
(* Libraries: LibrariesInv counts the users of every handle, open handles   *)
(* and modules together, and says that a module's handle names an image of  *)
(* its path.  The lemmas on Counted say what a new image, one more user and *)
(* one user less do to such a table; every call is made of those three.     *)
(*                                                                         *)
(* Kernel threads: TurnInv places every slot that was called since t: it    *)
(* lies on the arc that runs from t, t excluded, up to the cursor.          *)
(***************************************************************************)
EXTENDS Libraries, Kthread, SlotLemmas

\* The types of the two tables: a free slot has no path.
PathFields == LibPaths \cup {""}
LibRecs == [handle : Handles \cup {0}, refcount : Nat, path : PathFields]
ModuleRecs == [id : 0 .. MaxLoads, handle : Handles \cup {0}, path : PathFields]

\* The images libs are those somebody uses, each with the number users[handle] of
\* its users, and the handle next is not in use.
Counted(libs, users, next) ==
    /\ libs \in [LibSlots -> LibRecs] /\ users \in [Handles -> Nat]
    /\ next \in 1 .. MaxLoads + 1
    /\ \A s \in LibSlots : libs[s].handle # 0 =>
          /\ libs[s].refcount > 0 /\ libs[s].refcount = users[libs[s].handle]
          /\ libs[s].handle < next
    /\ \A s, t \in LibSlots : libs[s].handle # 0 /\ libs[s].handle = libs[t].handle => s = t
    /\ \A h \in Handles : users[h] > 0 => \E s \in LibSlots : libs[s].handle = h

\* Handle h names an image of the file path.
Names(libs, h, path) ==
    h # 0 /\ \E s \in LibSlots : libs[s].handle = h /\ libs[s].path = path

\* The tables with an entry written.
WithImage(libs, f, next, path) ==
    [libs EXCEPT ![f] = [handle |-> next, refcount |-> 1, path |-> path]]
WithUsers(users, h, n) == [users EXCEPT ![h] = n]
WithModule(mods, m, new) == [mods EXCEPT ![m] = new]

\* The modules of the table mods on handle g.
On(mods, g) == {m \in ModuleSlots : mods[m].id # 0 /\ mods[m].handle = g}

\* The cleared entries of the two tables.
LEMMA EmptyEntries ==
    /\ NoLib \in LibRecs /\ NoLib.handle = 0
    /\ NoModule \in ModuleRecs /\ NoModule.id = 0
<1>1. ASSUME NEW e \in PathFields
      PROVE  LET lib == [handle |-> 0, refcount |-> 0, path |-> e]
                 mod == [id |-> 0, handle |-> 0, path |-> e]
             IN  lib \in LibRecs /\ lib.handle = 0 /\ mod \in ModuleRecs /\ mod.id = 0
  BY LibrariesAssumption DEF LibRecs, ModuleRecs
<1>2. "" \in PathFields
  BY DEF PathFields
<1> QED BY <1>1, <1>2, Zenon DEF NoLib, NoModule

\* The fields of the entries have their types.
LEMMA CountedTypes ==
    ASSUME NEW libs, NEW users, NEW next, Counted(libs, users, next), NEW s \in LibSlots
    PROVE  /\ libs[s] \in LibRecs /\ libs[s].refcount \in Nat
           /\ libs[s].handle \in Nat /\ libs[s].handle \in Handles \cup {0}
<1>1. libs[s] \in LibRecs
  BY DEF Counted
<1>2. libs[s].refcount \in Nat /\ libs[s].handle \in Handles \cup {0}
  BY <1>1 DEF LibRecs
<1> QED BY <1>1, <1>2, LibrariesAssumption DEF Handles

\* An entry whose count is written.
LEMMA Recounted ==
    ASSUME NEW r \in LibRecs, NEW n \in Nat
    PROVE  LET new == [r EXCEPT !.refcount = n]
           IN  /\ new \in LibRecs /\ new.handle = r.handle /\ new.path = r.path
               /\ new.refcount = n
BY DEF LibRecs

\* A new image in a free slot (shlib_load_path) has one user.
LEMMA ImageAdded ==
    ASSUME NEW libs, NEW users, NEW next, Counted(libs, users, next), next <= MaxLoads,
           NEW f \in LibSlots, libs[f].handle = 0, NEW path \in PathFields
    PROVE  LET new == WithImage(libs, f, next, path)
           IN  /\ users[next] = 0
               /\ Counted(new, WithUsers(users, next, 1), next + 1)
               /\ Names(new, next, path)
               /\ \A h, p : Names(libs, h, p) => Names(new, h, p)
<1> DEFINE rec == [handle |-> next, refcount |-> 1, path |-> path]
           new == WithImage(libs, f, next, path)
           more == WithUsers(users, next, 1)
<1>1. MaxLoads \in Nat /\ next \in Nat /\ next # 0 /\ next \in Handles
  BY LibrariesAssumption DEF Counted, Handles
<1>2. rec \in LibRecs /\ rec.handle = next /\ rec.refcount = 1 /\ rec.path = path
  BY <1>1 DEF LibRecs
<1>2a. new = [libs EXCEPT ![f] = rec]
  BY DEF WithImage
<1> HIDE DEF rec, new
<1>3. /\ new \in [LibSlots -> LibRecs] /\ new[f] = rec
      /\ \A s \in LibSlots \ {f} : new[s] = libs[s]
  BY <1>2, <1>2a DEF Counted
<1>4. /\ more \in [Handles -> Nat] /\ more[next] = 1
      /\ \A h \in Handles \ {next} : more[h] = users[h]
  BY <1>1 DEF Counted, WithUsers
<1>5. users[next] = 0
  <2>1. users[next] \in Nat /\ \A s \in LibSlots : libs[s].handle # next
    BY <1>1 DEF Counted
  <2> QED BY <1>1, <2>1 DEF Counted
<1> HIDE DEF more
<1>6. \A s \in LibSlots : /\ libs[s].handle \in Handles \cup {0}
                          /\ libs[s].handle # next /\ libs[s].handle \in Nat
  <2> TAKE s \in LibSlots
  <2>1. libs[s].handle \in Nat /\ libs[s].handle \in Handles \cup {0}
    BY CountedTypes
  <2>2. libs[s].handle # 0 => libs[s].handle < next
    BY DEF Counted
  <2> QED BY <1>1, <2>1, <2>2
<1>7. \A s \in LibSlots : new[s].handle # 0 =>
          /\ new[s].refcount > 0 /\ new[s].refcount = more[new[s].handle]
          /\ new[s].handle < next + 1
  <2> SUFFICES ASSUME NEW s \in LibSlots, new[s].handle # 0
               PROVE  /\ new[s].refcount > 0 /\ new[s].refcount = more[new[s].handle]
                      /\ new[s].handle < next + 1
    OBVIOUS
  <2>1. CASE s = f
    BY <1>1, <1>2, <1>3, <1>4, <2>1
  <2>2. CASE s # f
    BY <1>1, <1>3, <1>4, <1>6, <2>2 DEF Counted
  <2> QED BY <2>1, <2>2
<1>8. \A s, t \in LibSlots : new[s].handle # 0 /\ new[s].handle = new[t].handle => s = t
  BY <1>2, <1>3, <1>6 DEF Counted
<1>9. \A h \in Handles : more[h] > 0 => \E s \in LibSlots : new[s].handle = h
  <2> SUFFICES ASSUME NEW h \in Handles, more[h] > 0 PROVE \E s \in LibSlots : new[s].handle = h
    OBVIOUS
  <2>1. CASE h = next
    BY <1>2, <1>3, <2>1
  <2>2. CASE h # next
    <3>1. PICK s \in LibSlots : libs[s].handle = h
      BY <1>4, <2>2 DEF Counted
    <3>2. h # 0
      BY DEF Handles
    <3> QED BY <1>3, <3>1, <3>2
  <2> QED BY <2>1, <2>2
<1>10. Counted(new, more, next + 1)
  <2>1. next + 1 \in 1 .. MaxLoads + 1
    BY <1>1
  <2> QED BY <1>3, <1>4, <1>7, <1>8, <1>9, <2>1 DEF Counted
<1>11. Names(new, next, path)
  BY <1>1, <1>2, <1>3 DEF Names
<1>12. \A h, p : Names(libs, h, p) => Names(new, h, p)
  BY <1>3 DEF Names
<1> QED BY <1>5, <1>10, <1>11, <1>12 DEF new, more

\* One more user of an image (shlib_load_path).
LEMMA ImageShared ==
    ASSUME NEW libs, NEW users, NEW next, Counted(libs, users, next),
           NEW f \in LibSlots, libs[f].handle # 0
    PROVE  LET new == [libs EXCEPT ![f].refcount = @ + 1]
           IN  /\ libs[f].handle \in Handles
               /\ Counted(new, [users EXCEPT ![libs[f].handle] = @ + 1], next)
               /\ \A h, p : Names(libs, h, p) => Names(new, h, p)
<1> DEFINE h0 == libs[f].handle
           rec == [libs[f] EXCEPT !.refcount = @ + 1]
           new == [libs EXCEPT ![f] = rec]
           more == [users EXCEPT ![h0] = @ + 1]
<1>1. h0 \in Handles /\ libs[f] \in LibRecs /\ libs[f].refcount \in Nat
  BY CountedTypes
<1>2. /\ rec \in LibRecs /\ rec.handle = h0 /\ rec.refcount = libs[f].refcount + 1
      /\ rec.path = libs[f].path
  <2>1. PICK r \in LibRecs : r = libs[f]
    BY <1>1
  <2>2. PICK n \in Nat : n = r.refcount + 1
    BY <1>1, <2>1
  <2>3. rec = [r EXCEPT !.refcount = n]
    BY <2>1, <2>2
  <2> HIDE DEF rec
  <2> QED BY <2>1, <2>2, <2>3, Recounted
<1> HIDE DEF rec, h0
<1>3. /\ new \in [LibSlots -> LibRecs] /\ new[f] = rec
      /\ \A s \in LibSlots \ {f} : new[s] = libs[s]
  BY <1>2 DEF Counted
<1>4. /\ more \in [Handles -> Nat] /\ more[h0] = users[h0] + 1
      /\ \A h \in Handles \ {h0} : more[h] = users[h]
  <2>1. users \in [Handles -> Nat]
    BY DEF Counted
  <2> QED BY <1>1, <2>1
<1> HIDE DEF new, more
<1>5. \A s \in LibSlots : new[s].handle = libs[s].handle /\ new[s].path = libs[s].path
  BY <1>2, <1>3 DEF h0
<1>6. \A s \in LibSlots : new[s].handle # 0 =>
          /\ new[s].refcount > 0 /\ new[s].refcount = more[new[s].handle]
          /\ new[s].handle < next
  <2> SUFFICES ASSUME NEW s \in LibSlots, new[s].handle # 0
               PROVE  /\ new[s].refcount > 0 /\ new[s].refcount = more[new[s].handle]
                      /\ new[s].handle < next
    OBVIOUS
  <2>1. CASE s = f
    BY <1>1, <1>2, <1>3, <1>4, <2>1 DEF Counted, h0
  <2>2. CASE s # f
    <3>1. libs[s].handle # h0 /\ libs[s].handle \in Handles
      <4>1. libs[s].handle # 0 /\ libs[s].handle \in Handles \cup {0}
        BY <1>5, CountedTypes
      <4> QED BY <2>2, <4>1 DEF Counted, h0
    <3> QED BY <1>3, <1>4, <2>2, <3>1 DEF Counted
  <2> QED BY <2>1, <2>2
<1>7. \A h \in Handles : more[h] > 0 => \E s \in LibSlots : new[s].handle = h
  <2> SUFFICES ASSUME NEW h \in Handles, more[h] > 0 PROVE \E s \in LibSlots : libs[s].handle = h
    BY <1>5
  <2>1. CASE h = h0
    BY <2>1 DEF h0
  <2>2. CASE h # h0
    BY <1>4, <2>2 DEF Counted
  <2> QED BY <2>1, <2>2
<1>8. Counted(new, more, next)
  BY <1>3, <1>4, <1>5, <1>6, <1>7 DEF Counted
<1>9. \A h, p : Names(libs, h, p) => Names(new, h, p)
  BY <1>5 DEF Names
<1> QED BY <1>1, <1>8, <1>9 DEF new, more, rec, h0

\* One user less (shlib_release_handle): the image goes with the last.
LEMMA ImageReleased ==
    ASSUME NEW libs, NEW users, NEW next, Counted(libs, users, next),
           NEW h0 \in Handles, users[h0] > 0
    PROVE  /\ Counted(Released(libs, h0), [users EXCEPT ![h0] = @ - 1], next)
           /\ \A h, p : Names(libs, h, p) /\ (h # h0 \/ users[h0] > 1)
                        => Names(Released(libs, h0), h, p)
<1> DEFINE new == Released(libs, h0)
           less == [users EXCEPT ![h0] = @ - 1]
<1>1. h0 # 0 /\ users[h0] \in Nat
  BY DEF Counted, Handles
<1>2. PICK f \in LibSlots : libs[f].handle = h0
  BY DEF Counted
<1>3. \A s \in LibSlots \ {f} : libs[s].handle # h0
  BY <1>1, <1>2 DEF Counted
<1>4. libs[f].refcount = users[h0] /\ libs[f] \in LibRecs
  BY <1>1, <1>2 DEF Counted
<1>5. /\ less \in [Handles -> Nat] /\ less[h0] = users[h0] - 1
      /\ \A h \in Handles \ {h0} : less[h] = users[h]
  <2>1. users \in [Handles -> Nat] /\ users[h0] - 1 \in Nat
    BY <1>1 DEF Counted
  <2> QED BY <2>1
<1> DEFINE rec == [libs[f] EXCEPT !.refcount = @ - 1]
<1>6. NoLib \in LibRecs /\ NoLib.handle = 0
  BY EmptyEntries
<1>7. users[h0] > 1 => /\ rec \in LibRecs /\ rec.handle = h0 /\ rec.path = libs[f].path
                       /\ rec.refcount = users[h0] - 1
  <2> SUFFICES ASSUME users[h0] > 1
               PROVE  /\ rec \in LibRecs /\ rec.handle = h0 /\ rec.path = libs[f].path
                      /\ rec.refcount = users[h0] - 1
    OBVIOUS
  <2>1. PICK r \in LibRecs : r = libs[f]
    BY <1>4
  <2>2. PICK n \in Nat : n = r.refcount - 1
    BY <1>1, <1>4, <2>1
  <2>3. rec = [r EXCEPT !.refcount = n]
    BY <2>1, <2>2
  <2> HIDE DEF rec
  <2> QED BY <1>2, <1>4, <2>1, <2>2, <2>3, Recounted
<1>8. new[f] = IF users[h0] = 1 THEN NoLib ELSE rec
  BY <1>1, <1>2, <1>4 DEF Released
<1>9. \A s \in LibSlots \ {f} : new[s] = libs[s]
  BY <1>3 DEF Released
<1>10. new = [s \in LibSlots |-> new[s]]
  BY DEF Released
<1> HIDE DEF new, less, rec
<1>11. new \in [LibSlots -> LibRecs]
  <2>1. new[f] \in LibRecs
    BY <1>1, <1>6, <1>7, <1>8
  <2>2. \A s \in LibSlots : new[s] \in LibRecs
    BY <1>9, <2>1 DEF Counted
  <2> QED BY <1>10, <2>2
<1>12. CASE users[h0] = 1
  <2>1. new[f].handle = 0 /\ less[h0] = 0
    BY <1>5, <1>6, <1>8, <1>12
  <2>2. \A s \in LibSlots : new[s].handle # 0 =>
            /\ s # f /\ new[s] = libs[s] /\ libs[s].handle \in Handles \ {h0}
    BY <1>3, <1>9, <2>1, CountedTypes
  <2>3. \A h \in Handles : less[h] > 0 => \E s \in LibSlots : new[s].handle = h
    <3> SUFFICES ASSUME NEW h \in Handles, less[h] > 0
                 PROVE  \E s \in LibSlots : new[s].handle = h
      OBVIOUS
    <3>1. h # h0
      BY <2>1
    <3>2. PICK s \in LibSlots : libs[s].handle = h
      BY <1>5, <3>1 DEF Counted
    <3> QED BY <1>2, <1>9, <3>1, <3>2
  <2>4. \A s \in LibSlots : new[s].handle # 0 =>
          /\ new[s].refcount > 0 /\ new[s].refcount = less[new[s].handle]
          /\ new[s].handle < next
    BY <1>5, <2>2 DEF Counted
  <2>5. \A s, t \in LibSlots : new[s].handle # 0 /\ new[s].handle = new[t].handle => s = t
    BY <2>2 DEF Counted
  <2>6. Counted(new, less, next)
    BY <1>5, <1>11, <2>3, <2>4, <2>5 DEF Counted
  <2>7. \A h, p : Names(libs, h, p) /\ h # h0 => Names(new, h, p)
    BY <1>2, <1>9 DEF Names
  <2> QED BY <1>12, <2>6, <2>7 DEF new, less
<1>13. CASE users[h0] > 1
  <2>1. /\ new[f].handle = h0 /\ new[f].path = libs[f].path
        /\ new[f].refcount = users[h0] - 1 /\ users[h0] - 1 > 0
    BY <1>1, <1>7, <1>8, <1>13
  <2>2. \A s \in LibSlots : new[s].handle = libs[s].handle /\ new[s].path = libs[s].path
    BY <1>2, <1>9, <2>1
  <2>3. \A h \in Handles : less[h] > 0 => \E s \in LibSlots : new[s].handle = h
    BY <1>2, <1>5, <2>2 DEF Counted
  <2>4. \A s \in LibSlots : new[s].handle # 0 =>
          /\ new[s].refcount > 0 /\ new[s].refcount = less[new[s].handle]
          /\ new[s].handle < next
    <3> SUFFICES ASSUME NEW s \in LibSlots, new[s].handle # 0
                 PROVE  /\ new[s].refcount > 0 /\ new[s].refcount = less[new[s].handle]
                        /\ new[s].handle < next
      OBVIOUS
    <3>1. CASE s = f
      BY <1>1, <1>2, <1>5, <2>1, <3>1 DEF Counted
    <3>2. CASE s # f
      <4>1. new[s] = libs[s] /\ libs[s].handle \in Handles \ {h0}
        BY <1>3, <1>9, <2>2, <3>2, CountedTypes
      <4> QED BY <1>5, <4>1 DEF Counted
    <3> QED BY <3>1, <3>2
  <2>5. Counted(new, less, next)
    BY <1>5, <1>11, <2>2, <2>3, <2>4 DEF Counted
  <2>6. \A h, p : Names(libs, h, p) => Names(new, h, p)
    BY <2>2 DEF Names
  <2> QED BY <2>5, <2>6 DEF new, less
<1> QED BY <1>1, <1>12, <1>13

\* Who uses a handle: the dlopens that are not closed and the modules on it.
Users == [h \in Handles |-> opens[h] + Cardinality(ModulesOn(h))]

\* The invariant.
LibrariesInv ==
    /\ Counted(shlibs, Users, g_shlib_next_handle)
    /\ modules \in [ModuleSlots -> ModuleRecs]
    /\ g_module_next_id \in 1 .. MaxLoads + 1
    /\ opens \in [Handles -> 0 .. MaxOpens]
    /\ \A m \in ModuleSlots : modules[m].id # 0 =>
          Names(shlibs, modules[m].handle, modules[m].path)

\* The modules on a handle are finitely many.
LEMMA FewModules ==
    ASSUME NEW T, T \subseteq ModuleSlots PROVE IsFiniteSet(T) /\ Cardinality(T) \in Nat
<1>1. IsFiniteSet(ModuleSlots)
  BY LibrariesAssumption, FS_Interval DEF ModuleSlots
<1> QED BY <1>1, FS_Subset, FS_CardinalityType

\* A step that changes the number of users of one handle.
LEMMA UsersWritten ==
    ASSUME NEW u, NEW v, u \in [Handles -> Nat], v \in [Handles -> Nat],
           NEW h \in Handles, \A g \in Handles \ {h} : v[g] = u[g]
    PROVE  v = [u EXCEPT ![h] = v[h]]
OBVIOUS

\* Users counts.
LEMMA UsersAre ==
    ASSUME LibrariesInv
    PROVE  /\ Users \in [Handles -> Nat]
           /\ \A h \in Handles : /\ Users[h] = opens[h] + Cardinality(ModulesOn(h))
                                 /\ opens[h] \in Nat /\ Cardinality(ModulesOn(h)) \in Nat
<1>1. \A h \in Handles : opens[h] \in Nat
  BY LibrariesAssumption DEF LibrariesInv
<1>2. \A h \in Handles : Cardinality(ModulesOn(h)) \in Nat
  BY FewModules DEF ModulesOn
<1> QED BY <1>1, <1>2 DEF Users

\* The invariant is as strong as RefsAgree.
LEMMA LibrariesInvMeans == LibrariesInv => RefsAgree
<1> SUFFICES ASSUME LibrariesInv PROVE RefsAgree
  OBVIOUS
<1>1. LibrariesTypeOK
  BY Zenon DEF LibrariesInv, Counted, LibrariesTypeOK, LibRecs, ModuleRecs, PathFields
<1>2. ASSUME NEW s \in LibSlots, shlibs[s].handle # 0
      PROVE  /\ shlibs[s].refcount > 0
             /\ shlibs[s].refcount = opens[shlibs[s].handle]
                                     + Cardinality(ModulesOn(shlibs[s].handle))
             /\ \A t \in LibSlots : shlibs[t].handle = shlibs[s].handle => s = t
  <2>1. shlibs[s].handle \in Handles
    BY <1>2, CountedTypes DEF LibrariesInv
  <2> QED BY <1>2, <2>1 DEF LibrariesInv, Counted, Users
<1>3. ASSUME NEW h \in Handles, opens[h] > 0 PROVE \E s \in LibSlots : shlibs[s].handle = h
  <2>1. opens[h] \in Nat /\ Cardinality(ModulesOn(h)) \in Nat
    BY FewModules, LibrariesAssumption DEF LibrariesInv, ModulesOn
  <2>2. Users[h] > 0
    BY <1>3, <2>1 DEF Users
  <2> QED BY <2>2 DEF LibrariesInv, Counted
<1>4. \A m \in ModuleSlots : modules[m].id # 0 =>
          \E s \in LibSlots : /\ shlibs[s].handle = modules[m].handle
                              /\ shlibs[s].handle # 0
                              /\ shlibs[s].path = modules[m].path
  BY DEF LibrariesInv, Names
<1> QED BY <1>1, <1>2, <1>3, <1>4 DEF RefsAgree

\* The empty tables, at the start and after qos_syscall_reset.
LEMMA LibrariesEmpty ==
    /\ LibrariesInit => LibrariesInv
    /\ LibrariesReset => LibrariesInv'
<1>1. NoLib \in LibRecs /\ NoLib.handle = 0 /\ NoModule \in ModuleRecs /\ NoModule.id = 0
  BY EmptyEntries
<1>2. 1 \in 1 .. MaxLoads + 1 /\ 0 \in 0 .. MaxOpens
  BY LibrariesAssumption
<1>3. ASSUME LibrariesInit PROVE LibrariesInv
  <2>1. \A h \in Handles : ModulesOn(h) = {}
    BY <1>1, <1>3 DEF LibrariesInit, ModulesOn
  <2>2. Users = [h \in Handles |-> 0]
    BY <1>3, <2>1, FS_EmptySet DEF Users, LibrariesInit
  <2>3. Counted(shlibs, Users, g_shlib_next_handle)
    BY <1>1, <1>2, <1>3, <2>2 DEF Counted, LibrariesInit
  <2> QED BY <1>1, <1>2, <1>3, <2>3 DEF LibrariesInv, LibrariesInit
<1>4. ASSUME LibrariesReset PROVE LibrariesInv'
  <2>1. \A h \in Handles : ModulesOn(h)' = {}
    BY <1>1, <1>4 DEF LibrariesReset, ModulesOn
  <2>2. Users' = [h \in Handles |-> 0]
    BY <1>4, <2>1, FS_EmptySet DEF Users, LibrariesReset
  <2>3. Counted(shlibs, Users, g_shlib_next_handle)'
    BY <1>1, <1>2, <1>4, <2>2 DEF Counted, LibrariesReset
  <2> QED BY <1>1, <1>2, <1>4, <2>3 DEF LibrariesInv, LibrariesReset
<1> QED BY <1>3, <1>4

\* The scans of syscall.c find a slot of the kind they look for.
LEMMA SlotFound ==
    /\ FreeLibs # {} => Min(FreeLibs) \in FreeLibs
    /\ \A path : LibsAt(path) # {} => Min(LibsAt(path)) \in LibsAt(path)
    /\ FreeModules # {} => Min(FreeModules) \in FreeModules
<1>1. LibSlots \subseteq Nat /\ ModuleSlots \subseteq Nat
  BY LibrariesAssumption DEF LibSlots, ModuleSlots
<1>2. FreeLibs \subseteq Nat /\ FreeModules \subseteq Nat
  BY <1>1 DEF FreeLibs, FreeModules
<1>3. \A path : LibsAt(path) \subseteq Nat
  BY <1>1 DEF LibsAt
<1> QED BY <1>2, <1>3, MinIn

\* dlopen of an image that is there.
LEMMA DlOpenSharedInv ==
    ASSUME LibrariesInv, NEW path \in LibPaths, DlOpenShared(path)
    PROVE  LibrariesInv'
<1>1. PICK f \in LibSlots : f = Min(LibsAt(path)) /\ shlibs[f].handle # 0
  BY SlotFound DEF DlOpenShared, LibsAt
<1>2. PICK h : h = shlibs[f].handle
  OBVIOUS
<1>3. /\ shlibs' = [shlibs EXCEPT ![f].refcount = @ + 1]
      /\ opens' = [opens EXCEPT ![h] = @ + 1] /\ opens[h] < MaxOpens
      /\ UNCHANGED <<modules, g_shlib_next_handle, g_module_next_id>>
  BY <1>1, <1>2 DEF DlOpenShared, Shared
<1>4. /\ h \in Handles
      /\ Counted(shlibs', [Users EXCEPT ![h] = @ + 1], g_shlib_next_handle)
      /\ \A g, p : Names(shlibs, g, p) => Names(shlibs', g, p)
  BY <1>1, <1>2, <1>3, ImageShared DEF LibrariesInv
<1>5. /\ opens' \in [Handles -> 0 .. MaxOpens] /\ opens'[h] = opens[h] + 1
      /\ \A g \in Handles \ {h} : opens'[g] = opens[g]
      /\ \A g \in Handles : opens[g] \in Nat
  BY <1>3, <1>4, LibrariesAssumption DEF LibrariesInv
<1>6. \A g \in Handles : ModulesOn(g)' = ModulesOn(g) /\ Cardinality(ModulesOn(g)) \in Nat
  BY <1>3, FewModules DEF ModulesOn
<1>7. Users' = [Users EXCEPT ![h] = @ + 1]
  <2>1. \A g \in Handles : Users'[g] = opens'[g] + Cardinality(ModulesOn(g))
    BY <1>4, <1>5, <1>6 DEF Users
  <2>2. Users' = [g \in Handles |-> Users'[g]]
    BY DEF Users
  <2>3. /\ Users'[h] = Users[h] + 1 /\ Users'[h] \in Nat
        /\ \A g \in Handles \ {h} : Users'[g] = Users[g]
    BY <1>4, <1>5, <1>6, <2>1, UsersAre
  <2>4. Users' \in [Handles -> Nat]
    BY <2>2, <2>3, UsersAre
  <2> QED BY <2>3, <2>4, UsersAre, UsersWritten, <1>4
<1> QED BY <1>3, <1>4, <1>5, <1>7 DEF LibrariesInv

\* dlopen of a new image.
LEMMA DlOpenNewInv ==
    ASSUME LibrariesInv, NEW path \in LibPaths, DlOpenNew(path)
    PROVE  LibrariesInv'
<1>1. PICK f \in LibSlots : f = Min(FreeLibs) /\ shlibs[f].handle = 0
  BY SlotFound DEF DlOpenNew, MayLoadNew, FreeLibs
<1>2. PICK h : h = g_shlib_next_handle
  OBVIOUS
<1>3. /\ shlibs' = [shlibs EXCEPT ![f] = [handle |-> h, refcount |-> 1, path |-> path]]
      /\ opens' = [opens EXCEPT ![h] = @ + 1] /\ g_shlib_next_handle' = h + 1
      /\ h <= MaxLoads /\ UNCHANGED <<modules, g_module_next_id>>
  BY <1>1, <1>2 DEF DlOpenNew, LoadedNew, MayLoadNew
<1>4. h \in Handles
  BY <1>2, <1>3 DEF LibrariesInv, Counted, Handles
<1>5. /\ Users[h] = 0
      /\ Counted(shlibs', WithUsers(Users, h, 1), h + 1)
      /\ \A g, p : Names(shlibs, g, p) => Names(shlibs', g, p)
  <2>1. path \in PathFields /\ Counted(shlibs, Users, h)
    BY <1>2, Zenon DEF PathFields, LibrariesInv
  <2>2. shlibs' = WithImage(shlibs, f, h, path) /\ h <= MaxLoads
    BY <1>3 DEF WithImage
  <2> QED BY <1>1, <2>1, <2>2, ImageAdded
<1>6. \A g \in Handles : /\ ModulesOn(g)' = ModulesOn(g)
                         /\ Cardinality(ModulesOn(g)) \in Nat /\ opens[g] \in Nat
  BY <1>3, FewModules, LibrariesAssumption DEF ModulesOn, LibrariesInv
<1>7. opens[h] = 0 /\ Cardinality(ModulesOn(h)) = 0
  BY <1>4, <1>5, <1>6 DEF Users
<1>8. /\ opens' \in [Handles -> 0 .. MaxOpens] /\ opens'[h] = 1
      /\ \A g \in Handles \ {h} : opens'[g] = opens[g]
  BY <1>3, <1>4, <1>7, LibrariesAssumption DEF LibrariesInv
<1>9. Users' = WithUsers(Users, h, 1)
  <2>1. \A g \in Handles : Users'[g] = opens'[g] + Cardinality(ModulesOn(g))
    BY <1>4, <1>6, <1>7, <1>8 DEF Users
  <2>2. Users' = [g \in Handles |-> Users'[g]]
    BY DEF Users
  <2>3. /\ Users'[h] = 1 /\ Users'[h] \in Nat
        /\ \A g \in Handles \ {h} : Users'[g] = Users[g]
    BY <1>4, <1>6, <1>7, <1>8, <2>1, UsersAre
  <2>4. Users' \in [Handles -> Nat]
    BY <2>2, <2>3, UsersAre
  <2> QED BY <1>4, <2>3, <2>4, UsersAre, UsersWritten DEF WithUsers
<1> QED BY <1>3, <1>5, <1>8, <1>9 DEF LibrariesInv

\* dlclose.
LEMMA DlCloseInv ==
    ASSUME LibrariesInv, NEW h \in Handles, DlClose(h)
    PROVE  LibrariesInv'
<1>1. /\ shlibs' = Released(shlibs, h) /\ opens' = [opens EXCEPT ![h] = @ - 1]
      /\ opens[h] > 0 /\ UNCHANGED <<modules, g_shlib_next_handle, g_module_next_id>>
  BY DEF DlClose
<1>2. \A g \in Handles : /\ ModulesOn(g)' = ModulesOn(g)
                         /\ Cardinality(ModulesOn(g)) \in Nat /\ opens[g] \in Nat
  BY <1>1, FewModules, LibrariesAssumption DEF ModulesOn, LibrariesInv
<1>3. /\ opens' \in [Handles -> 0 .. MaxOpens] /\ opens'[h] = opens[h] - 1
      /\ \A g \in Handles \ {h} : opens'[g] = opens[g]
  BY <1>1, <1>2, LibrariesAssumption DEF LibrariesInv
<1>4. Users' = [Users EXCEPT ![h] = @ - 1]
  <2>1. \A g \in Handles : Users'[g] = opens'[g] + Cardinality(ModulesOn(g))
    BY <1>2, <1>3 DEF Users
  <2>2. Users' = [g \in Handles |-> Users'[g]]
    BY DEF Users
  <2>3. /\ Users'[h] = Users[h] - 1 /\ Users'[h] \in Nat
        /\ \A g \in Handles \ {h} : Users'[g] = Users[g]
    BY <1>2, <1>3, <2>1, UsersAre
  <2>4. Users' \in [Handles -> Nat]
    BY <2>2, <2>3, UsersAre
  <2> QED BY <2>3, <2>4, UsersAre, UsersWritten
<1>5. Users[h] = opens[h] + Cardinality(ModulesOn(h)) /\ Users[h] > 0
  BY <1>1, <1>2 DEF Users
<1>6. /\ Counted(shlibs', Users', g_shlib_next_handle')
      /\ \A g, p : Names(shlibs, g, p) /\ (g # h \/ Users[h] > 1) => Names(shlibs', g, p)
  BY <1>1, <1>4, <1>5, ImageReleased DEF LibrariesInv
<1>7. ASSUME NEW m \in ModuleSlots, modules[m].id # 0
      PROVE  modules[m].handle # h \/ Users[h] > 1
  <2> SUFFICES ASSUME modules[m].handle = h PROVE Users[h] > 1
    OBVIOUS
  <2>1. ModulesOn(h) # {}
    BY <1>7 DEF ModulesOn
  <2>2. Cardinality(ModulesOn(h)) # 0
    BY <2>1, FewModules, FS_EmptySet DEF ModulesOn
  <2> QED BY <1>1, <1>2, <1>5, <2>2
<1>8. \A m \in ModuleSlots : modules'[m].id # 0 =>
          Names(shlibs', modules'[m].handle, modules'[m].path)
  BY <1>1, <1>6, <1>7 DEF LibrariesInv
<1> QED BY <1>1, <1>3, <1>6, <1>8 DEF LibrariesInv

\* A write to the table of modules moves the module from one handle to another.
LEMMA ModuleWritten ==
    ASSUME NEW mods \in [ModuleSlots -> ModuleRecs], NEW m \in ModuleSlots,
           NEW new \in ModuleRecs, NEW g
    PROVE  Cardinality(On(WithModule(mods, m, new), g)) =
              Cardinality(On(mods, g)) - (IF m \in On(mods, g) THEN 1 ELSE 0)
                                       + (IF new.id # 0 /\ new.handle = g THEN 1 ELSE 0)
<1> DEFINE after == WithModule(mods, m, new)
           rest == On(mods, g) \ {m}
<1>1. after[m] = new /\ \A n \in ModuleSlots \ {m} : after[n] = mods[n]
  BY DEF WithModule
<1> HIDE DEF after
<1>2. /\ IsFiniteSet(rest) /\ Cardinality(rest) \in Nat /\ Cardinality(On(mods, g)) \in Nat
      /\ Cardinality(rest) = Cardinality(On(mods, g)) - (IF m \in On(mods, g) THEN 1 ELSE 0)
  <2>1. On(mods, g) \subseteq ModuleSlots
    BY DEF On
  <2>2. IsFiniteSet(On(mods, g)) /\ Cardinality(On(mods, g)) \in Nat
    BY <2>1, FewModules
  <2>3. IsFiniteSet(rest) /\ Cardinality(rest) \in Nat
    BY <2>1, FewModules
  <2>4. Cardinality(rest) = IF m \in On(mods, g) THEN Cardinality(On(mods, g)) - 1
                            ELSE Cardinality(On(mods, g))
    BY <2>2, FS_RemoveElement
  <2> QED BY <2>2, <2>3, <2>4
<1>3. CASE new.id # 0 /\ new.handle = g
  <2>1. On(after, g) = rest \cup {m}
    BY <1>1, <1>3 DEF On
  <2>2. m \notin rest
    OBVIOUS
  <2> HIDE DEF rest
  <2>3. Cardinality(rest \cup {m}) = Cardinality(rest) + 1
    BY <1>2, <2>2, FS_AddElement
  <2>4. Cardinality(On(after, g)) =
           Cardinality(On(mods, g)) - (IF m \in On(mods, g) THEN 1 ELSE 0) + 1
    BY <1>2, <2>1, <2>3
  <2> QED BY <1>2, <1>3, <2>4 DEF after
<1>4. CASE ~ (new.id # 0 /\ new.handle = g)
  <2>1. On(after, g) = rest
    BY <1>1, <1>4 DEF On
  <2> HIDE DEF rest
  <2>2. Cardinality(On(after, g)) =
           Cardinality(On(mods, g)) - (IF m \in On(mods, g) THEN 1 ELSE 0) + 0
    BY <1>2, <2>1
  <2> QED BY <1>2, <1>4, <2>2 DEF after
<1> QED BY <1>3, <1>4 DEF after

\* The same for the table of the kernel.
LEMMA ModuleMoved ==
    ASSUME modules \in [ModuleSlots -> ModuleRecs], NEW m \in ModuleSlots,
           NEW new \in ModuleRecs, modules' = [modules EXCEPT ![m] = new]
    PROVE  \A g \in Handles :
              Cardinality(ModulesOn(g)') =
                 Cardinality(ModulesOn(g)) - (IF m \in ModulesOn(g) THEN 1 ELSE 0)
                                           + (IF new.id # 0 /\ new.handle = g THEN 1 ELSE 0)
<1> TAKE g \in Handles
<1>1. ModulesOn(g) = On(modules, g) /\ ModulesOn(g)' = On(modules', g)
  BY DEF ModulesOn, On
<1>2. PICK mods \in [ModuleSlots -> ModuleRecs] : mods = modules
  OBVIOUS
<1>3. modules' = WithModule(mods, m, new)
  BY <1>2 DEF WithModule
<1>4. Cardinality(On(WithModule(mods, m, new), g)) =
         Cardinality(On(mods, g)) - (IF m \in On(mods, g) THEN 1 ELSE 0)
                                  + (IF new.id # 0 /\ new.handle = g THEN 1 ELSE 0)
  BY ModuleWritten
<1> QED BY <1>1, <1>2, <1>3, <1>4

\* The handle of a module that is loaded is used by it.
LEMMA ModuleUses ==
    ASSUME LibrariesInv, NEW m \in ModuleSlots, modules[m].id # 0
    PROVE  /\ modules[m].handle \in Handles /\ m \in ModulesOn(modules[m].handle)
           /\ Users[modules[m].handle] > 0
           /\ modules[m].handle < g_shlib_next_handle
<1>1. modules[m].handle \in Handles /\ m \in ModulesOn(modules[m].handle)
  BY DEF LibrariesInv, ModuleRecs, Names, ModulesOn
<1>2. Cardinality(ModulesOn(modules[m].handle)) # 0
  BY <1>1, FewModules, FS_EmptySet DEF ModulesOn
<1>3. Users[modules[m].handle] > 0
  BY <1>1, <1>2, UsersAre
<1>4. modules[m].handle < g_shlib_next_handle
  BY <1>1, <1>3 DEF LibrariesInv, Counted, Handles
<1> QED BY <1>1, <1>3, <1>4

\* What module_load_path gets from shlib_load_path, shared or new.
LEMMA ImageLoaded ==
    ASSUME LibrariesInv, NEW path \in LibPaths, MayLoad(path)
    PROVE  /\ HandleOf(path) \in Handles
           /\ Counted(Loaded(path), [Users EXCEPT ![HandleOf(path)] = @ + 1], NextHandle(path))
           /\ Names(Loaded(path), HandleOf(path), path)
           /\ \A g, p : Names(shlibs, g, p) => Names(Loaded(path), g, p)
           /\ \A g, p : Names(shlibs, g, p) => g # HandleOf(path) \/ Users[HandleOf(path)] > 0
<1> DEFINE h == HandleOf(path)
<1>0. Counted(shlibs, Users, g_shlib_next_handle) /\ path \in PathFields
  BY Zenon DEF LibrariesInv, PathFields
<1>0a. PICK after : after = Loaded(path)
  OBVIOUS
<1>0b. PICK next : next = NextHandle(path)
  OBVIOUS
<1>1. CASE LibsAt(path) # {}
  <2>1. PICK f \in LibSlots : /\ f = Min(LibsAt(path)) /\ shlibs[f].handle # 0
                              /\ shlibs[f].path = path
    BY <1>1, SlotFound DEF LibsAt
  <2>2. /\ after = [shlibs EXCEPT ![f].refcount = @ + 1] /\ h = shlibs[f].handle
        /\ next = g_shlib_next_handle
    BY <1>0a, <1>0b, <1>1, <2>1 DEF Loaded, Shared, HandleOf, NextHandle
  <2> HIDE DEF h
  <2>3. /\ h \in Handles
        /\ Counted(after, [Users EXCEPT ![h] = @ + 1], next)
        /\ \A g, p : Names(shlibs, g, p) => Names(after, g, p)
    BY <1>0, <2>1, <2>2, ImageShared
  <2>4. Names(shlibs, h, path)
    BY <2>1, <2>2 DEF Names
  <2>5. Users[h] > 0
    BY <1>0, <2>1, <2>2 DEF Counted
  <2> QED BY <1>0a, <1>0b, <2>3, <2>4, <2>5 DEF h
<1>2. CASE LibsAt(path) = {}
  <2>1. PICK f \in LibSlots : f = Min(FreeLibs) /\ shlibs[f].handle = 0
    BY <1>2, SlotFound DEF MayLoad, MayLoadNew, FreeLibs
  <2>2. /\ after = [shlibs EXCEPT ![f] = [handle |-> h, refcount |-> 1, path |-> path]]
        /\ h = g_shlib_next_handle /\ next = h + 1 /\ h <= MaxLoads
    BY <1>0a, <1>0b, <1>2, <2>1 DEF Loaded, LoadedNew, HandleOf, NextHandle, MayLoad, MayLoadNew
  <2> HIDE DEF h
  <2>3. h \in Handles
    BY <1>0, <2>2 DEF Counted, Handles
  <2>4. /\ Users[h] = 0 /\ Counted(after, WithUsers(Users, h, 1), next)
        /\ Names(after, h, path)
        /\ \A g, p : Names(shlibs, g, p) => Names(after, g, p)
    <3>1. after = WithImage(shlibs, f, h, path) /\ Counted(shlibs, Users, h)
      BY <1>0, <2>2 DEF WithImage
    <3>2. next = h + 1 /\ h <= MaxLoads
      BY <2>2
    <3> QED BY <1>0, <2>1, <3>1, <3>2, ImageAdded
  <2>5. [Users EXCEPT ![h] = @ + 1] = WithUsers(Users, h, 1)
    BY <2>3, <2>4, UsersAre DEF WithUsers
  <2>6. \A g, p : Names(shlibs, g, p) => g # h
    <3>1. \A s \in LibSlots : shlibs[s].handle # 0 => shlibs[s].handle # h
      BY <1>0, <2>2, CountedTypes DEF Counted
    <3> QED BY <3>1 DEF Names
  <2> QED BY <1>0a, <1>0b, <2>3, <2>4, <2>5, <2>6 DEF h
<1> QED BY <1>1, <1>2

\* modload.
LEMMA ModLoadInv ==
    ASSUME LibrariesInv, NEW path \in LibPaths, ModLoad(path)
    PROVE  LibrariesInv'
<1>1. PICK h : h = HandleOf(path)
  OBVIOUS
<1>2. PICK m \in ModuleSlots : m = Min(FreeModules) /\ modules[m].id = 0
  BY SlotFound DEF ModLoad, FreeModules
<1> DEFINE new == [id |-> g_module_next_id, handle |-> h, path |-> path]
<1>3. /\ MayLoad(path) /\ shlibs' = Loaded(path) /\ g_shlib_next_handle' = NextHandle(path)
      /\ modules' = [modules EXCEPT ![m] = new]
      /\ g_module_next_id' = g_module_next_id + 1 /\ g_module_next_id <= MaxLoads
      /\ opens' = opens
  BY <1>1, <1>2 DEF ModLoad
<1>4. /\ h \in Handles
      /\ Counted(shlibs', [Users EXCEPT ![h] = @ + 1], g_shlib_next_handle')
      /\ Names(shlibs', h, path)
      /\ \A g, p : Names(shlibs, g, p) => Names(shlibs', g, p)
  BY <1>1, <1>3, ImageLoaded
<1>5. /\ new \in ModuleRecs /\ new.id # 0 /\ new.handle = h /\ new.path = path
      /\ g_module_next_id' \in 1 .. MaxLoads + 1
  <2>1. path \in PathFields
    BY Zenon DEF PathFields
  <2> QED BY <1>3, <1>4, <2>1, LibrariesAssumption DEF LibrariesInv, ModuleRecs
<1> HIDE DEF new
<1>6. \A g \in Handles : m \notin ModulesOn(g)
  BY <1>2 DEF ModulesOn
<1>7. modules \in [ModuleSlots -> ModuleRecs]
  BY DEF LibrariesInv
<1>8. /\ modules' \in [ModuleSlots -> ModuleRecs] /\ modules'[m] = new
      /\ \A n \in ModuleSlots \ {m} : modules'[n] = modules[n]
  BY <1>3, <1>5, <1>7
<1>9. \A g \in Handles :
         Cardinality(ModulesOn(g)') = Cardinality(ModulesOn(g)) + (IF g = h THEN 1 ELSE 0)
  <2>0. \A g \in Handles :
           Cardinality(ModulesOn(g)') =
                 Cardinality(ModulesOn(g)) - (IF m \in ModulesOn(g) THEN 1 ELSE 0)
                                           + (IF new.id # 0 /\ new.handle = g THEN 1 ELSE 0)
    BY <1>3, <1>5, <1>7, ModuleMoved
  <2> TAKE g \in Handles
  <2>1. Cardinality(ModulesOn(g)') =
           Cardinality(ModulesOn(g)) - (IF m \in ModulesOn(g) THEN 1 ELSE 0)
                                     + (IF new.id # 0 /\ new.handle = g THEN 1 ELSE 0)
    BY <2>0
  <2> QED BY <1>5, <1>6, <2>1, UsersAre
<1>10. Users' = [Users EXCEPT ![h] = @ + 1]
  <2>1. \A g \in Handles : Users'[g] = opens[g] + Cardinality(ModulesOn(g)')
    BY <1>3 DEF Users
  <2>2. Users' = [g \in Handles |-> Users'[g]]
    BY DEF Users
  <2>3. \A g \in Handles : Users'[g] = Users[g] + (IF g = h THEN 1 ELSE 0)
    BY <1>9, <2>1, UsersAre
  <2>4. Users' \in [Handles -> Nat]
    BY <2>2, <2>3, UsersAre
  <2>5. Users'[h] = Users[h] + 1 /\ \A g \in Handles \ {h} : Users'[g] = Users[g]
    BY <1>4, <2>3, UsersAre
  <2> QED BY <1>4, <2>4, <2>5, UsersAre, UsersWritten
<1>11. \A n \in ModuleSlots : modules'[n].id # 0 =>
          Names(shlibs', modules'[n].handle, modules'[n].path)
  BY <1>4, <1>5, <1>8 DEF LibrariesInv
<1>12. opens' \in [Handles -> 0 .. MaxOpens]
  BY <1>3 DEF LibrariesInv
<1> QED BY <1>4, <1>5, <1>8, <1>10, <1>11, <1>12 DEF LibrariesInv

\* modload without room for the module: what was loaded is released.
LEMMA ModLoadNoRoomInv ==
    ASSUME LibrariesInv, NEW path \in LibPaths, ModLoadNoRoom(path)
    PROVE  LibrariesInv'
<1>1. PICK h : h = HandleOf(path)
  OBVIOUS
<1>2. PICK libs : libs = Loaded(path)
  OBVIOUS
<1>3. PICK next : next = NextHandle(path)
  OBVIOUS
<1>4. /\ MayLoad(path) /\ shlibs' = Released(libs, h) /\ g_shlib_next_handle' = next
      /\ UNCHANGED <<modules, g_module_next_id, opens>>
  BY <1>1, <1>2, <1>3 DEF ModLoadNoRoom
<1> DEFINE more == [Users EXCEPT ![h] = @ + 1]
<1>5. /\ h \in Handles /\ Counted(libs, more, next)
      /\ \A g, p : Names(shlibs, g, p) => Names(libs, g, p)
      /\ \A g, p : Names(shlibs, g, p) => g # h \/ Users[h] > 0
  BY <1>1, <1>2, <1>3, <1>4, ImageLoaded
<1>6. more[h] = Users[h] + 1 /\ more[h] > 0 /\ [more EXCEPT ![h] = @ - 1] = Users
  <2>1. Users \in [Handles -> Nat]
    BY UsersAre
  <2>2. more[h] = Users[h] + 1 /\ Users[h] \in Nat
    BY <1>5, <2>1
  <2>3. more \in [Handles -> Nat] /\ \A g \in Handles \ {h} : more[g] = Users[g]
    BY <1>5, <2>1
  <2> HIDE DEF more
  <2>4. Users[h] = more[h] - 1
    BY <2>2
  <2>5. Users = [more EXCEPT ![h] = Users[h]]
    BY <1>5, <2>1, <2>3, UsersWritten
  <2> QED BY <2>2, <2>4, <2>5
<1> HIDE DEF more
<1>7. /\ Counted(shlibs', Users, next)
      /\ \A g, p : Names(libs, g, p) /\ (g # h \/ more[h] > 1) => Names(shlibs', g, p)
  BY <1>4, <1>5, <1>6, ImageReleased
<1>8. \A g, p : Names(shlibs, g, p) => Names(shlibs', g, p)
  <2>1. Users[h] > 0 => more[h] > 1
    BY <1>5, <1>6, UsersAre
  <2> QED BY <1>5, <1>7, <2>1
<1>9. Users' = Users
  <2>1. \A g \in Handles : ModulesOn(g)' = ModulesOn(g)
    BY <1>4 DEF ModulesOn
  <2> QED BY <1>4, <2>1 DEF Users
<1> QED BY <1>4, <1>7, <1>8, <1>9 DEF LibrariesInv

\* Another module on the handle keeps it in use when one leaves.
LEMMA ModuleLeaves ==
    ASSUME LibrariesInv, NEW m \in ModuleSlots, modules[m].id # 0,
           NEW n \in ModuleSlots, n # m, modules[n].id # 0,
           modules[n].handle = modules[m].handle
    PROVE  Users[modules[m].handle] > 1
<1> DEFINE h == modules[m].handle
           rest == ModulesOn(h) \ {m}
<1>1. h \in Handles /\ m \in ModulesOn(h) /\ n \in rest
  BY ModuleUses DEF ModulesOn
<1> HIDE DEF h
<1>2. ModulesOn(h) \subseteq ModuleSlots /\ rest \subseteq ModuleSlots
  BY DEF ModulesOn
<1>3. Cardinality(rest) = Cardinality(ModulesOn(h)) - 1
  BY <1>1, <1>2, FewModules, FS_RemoveElement
<1>4. Cardinality(rest) # 0 /\ Cardinality(rest) \in Nat
  BY <1>1, <1>2, FewModules, FS_EmptySet
<1> HIDE DEF rest
<1> QED BY <1>1, <1>3, <1>4, UsersAre DEF h

\* modunload.
LEMMA ModUnloadInv ==
    ASSUME LibrariesInv, NEW m \in ModuleSlots, ModUnload(m)
    PROVE  LibrariesInv'
<1>1. PICK h : h = modules[m].handle
  OBVIOUS
<1>2. /\ modules[m].id # 0 /\ modules' = [modules EXCEPT ![m] = NoModule]
      /\ shlibs' = Released(shlibs, h)
      /\ UNCHANGED <<g_shlib_next_handle, g_module_next_id, opens>>
  BY <1>1 DEF ModUnload
<1>3. h \in Handles /\ m \in ModulesOn(h) /\ Users[h] > 0
  BY <1>1, <1>2, ModuleUses
<1>4. NoModule \in ModuleRecs /\ NoModule.id = 0
  BY EmptyEntries
<1>5. modules \in [ModuleSlots -> ModuleRecs]
  BY DEF LibrariesInv
<1>6. /\ modules' \in [ModuleSlots -> ModuleRecs] /\ modules'[m] = NoModule
      /\ \A n \in ModuleSlots \ {m} : modules'[n] = modules[n]
  BY <1>2, <1>4, <1>5
<1>7. \A g \in Handles :
         Cardinality(ModulesOn(g)') = Cardinality(ModulesOn(g)) - (IF g = h THEN 1 ELSE 0)
  <2>0. \A g \in Handles :
           Cardinality(ModulesOn(g)') =
                 Cardinality(ModulesOn(g)) - (IF m \in ModulesOn(g) THEN 1 ELSE 0)
                    + (IF NoModule.id # 0 /\ NoModule.handle = g THEN 1 ELSE 0)
    BY <1>2, <1>4, <1>5, ModuleMoved
  <2> TAKE g \in Handles
  <2>1. Cardinality(ModulesOn(g)') =
           Cardinality(ModulesOn(g)) - (IF m \in ModulesOn(g) THEN 1 ELSE 0)
              + (IF NoModule.id # 0 /\ NoModule.handle = g THEN 1 ELSE 0)
    BY <2>0
  <2>2. m \in ModulesOn(g) <=> g = h
    BY <1>1, <1>3 DEF ModulesOn
  <2> QED BY <1>4, <2>1, <2>2, UsersAre
<1>8. Users' = [Users EXCEPT ![h] = @ - 1]
  <2>1. \A g \in Handles : Users'[g] = opens[g] + Cardinality(ModulesOn(g)')
    BY <1>2 DEF Users
  <2>2. Users' = [g \in Handles |-> Users'[g]]
    BY DEF Users
  <2>3. \A g \in Handles : Users'[g] = Users[g] - (IF g = h THEN 1 ELSE 0)
    BY <1>7, <2>1, UsersAre
  <2>4. Users'[h] = Users[h] - 1 /\ \A g \in Handles \ {h} : Users'[g] = Users[g]
    BY <1>3, <2>3, UsersAre
  <2>5. Users' \in [Handles -> Nat]
    BY <1>3, <2>2, <2>4, UsersAre
  <2> QED BY <1>3, <2>4, <2>5, UsersAre, UsersWritten
<1>9. /\ Counted(shlibs', Users', g_shlib_next_handle')
      /\ \A g, p : Names(shlibs, g, p) /\ (g # h \/ Users[h] > 1) => Names(shlibs', g, p)
  BY <1>2, <1>3, <1>8, ImageReleased DEF LibrariesInv
<1>10. \A n \in ModuleSlots : modules'[n].id # 0 =>
          Names(shlibs', modules'[n].handle, modules'[n].path)
  <2> SUFFICES ASSUME NEW n \in ModuleSlots, modules'[n].id # 0
               PROVE  Names(shlibs', modules'[n].handle, modules'[n].path)
    OBVIOUS
  <2>1. n # m /\ modules'[n] = modules[n]
    BY <1>4, <1>6
  <2>2. modules[n].handle # h \/ Users[h] > 1
    BY <1>1, <1>2, <2>1, ModuleLeaves
  <2>3. Names(shlibs, modules[n].handle, modules[n].path)
    BY <2>1 DEF LibrariesInv
  <2> QED BY <1>9, <2>1, <2>2, <2>3
<1> QED BY <1>2, <1>6, <1>9, <1>10 DEF LibrariesInv

\* modreload: the module moves to a new image.
LEMMA ModReloadInv ==
    ASSUME LibrariesInv, NEW m \in ModuleSlots, ModReload(m)
    PROVE  LibrariesInv'
<1>1. PICK h : h = modules[m].handle
  OBVIOUS
<1>2. PICK next : next = g_shlib_next_handle
  OBVIOUS
<1>3. PICK path : path = modules[m].path
  OBVIOUS
<1>4. PICK f \in LibSlots : f = Min(FreeLibs) /\ shlibs[f].handle = 0
  BY SlotFound DEF ModReload, MayLoadNew, FreeLibs
<1>0a. PICK libs : libs = WithImage(shlibs, f, next, path)
  OBVIOUS
<1>0b. PICK more : more = WithUsers(Users, next, 1)
  OBVIOUS
<1> DEFINE new == [modules[m] EXCEPT !.handle = next]
<1>5. /\ modules[m].id # 0 /\ modules' = [modules EXCEPT ![m] = new]
      /\ shlibs' = Released(libs, h) /\ g_shlib_next_handle' = next + 1 /\ next <= MaxLoads
      /\ UNCHANGED <<g_module_next_id, opens>>
  BY <1>0a, <1>1, <1>2, <1>3, <1>4 DEF ModReload, LoadedNew, MayLoadNew, WithImage
<1>6. /\ h \in Handles /\ m \in ModulesOn(h) /\ Users[h] > 0 /\ h < next
  BY <1>1, <1>2, <1>5, ModuleUses
<1>7. modules \in [ModuleSlots -> ModuleRecs]
  BY DEF LibrariesInv
<1>8. path \in PathFields /\ next \in Handles /\ next # h
  BY <1>2, <1>3, <1>5, <1>6, <1>7 DEF LibrariesInv, Counted, Handles, ModuleRecs
<1>9. /\ Users[next] = 0 /\ Counted(libs, more, next + 1) /\ Names(libs, next, path)
      /\ \A g, p : Names(shlibs, g, p) => Names(libs, g, p)
  <2>1. Counted(shlibs, Users, next)
    BY <1>2 DEF LibrariesInv
  <2> QED BY <1>0a, <1>0b, <1>4, <1>5, <1>8, <2>1, ImageAdded
<1>10. /\ more \in [Handles -> Nat] /\ more[next] = 1 /\ more[h] = Users[h]
       /\ \A g \in Handles \ {next} : more[g] = Users[g]
  BY <1>0b, <1>6, <1>8, UsersAre DEF WithUsers
<1>11. new \in ModuleRecs /\ new.id # 0 /\ new.handle = next /\ new.path = path
  <2>1. PICK r \in ModuleRecs : r = modules[m]
    BY <1>7
  <2>2. new = [r EXCEPT !.handle = next] /\ r.id # 0 /\ r.path = path
    BY <1>3, <1>5, <2>1
  <2> HIDE DEF new
  <2> QED BY <1>8, <2>2 DEF ModuleRecs
<1> HIDE DEF new
<1>12. /\ Counted(shlibs', [more EXCEPT ![h] = @ - 1], next + 1)
       /\ \A g, p : Names(libs, g, p) /\ (g # h \/ more[h] > 1) => Names(shlibs', g, p)
  BY <1>5, <1>6, <1>9, <1>10, ImageReleased
<1>13. /\ modules' \in [ModuleSlots -> ModuleRecs] /\ modules'[m] = new
       /\ \A n \in ModuleSlots \ {m} : modules'[n] = modules[n]
  BY <1>5, <1>7, <1>11
<1>14. \A g \in Handles :
         Cardinality(ModulesOn(g)') = Cardinality(ModulesOn(g)) - (IF g = h THEN 1 ELSE 0)
                                      + (IF g = next THEN 1 ELSE 0)
  <2>0. \A g \in Handles :
           Cardinality(ModulesOn(g)') =
                 Cardinality(ModulesOn(g)) - (IF m \in ModulesOn(g) THEN 1 ELSE 0)
                    + (IF new.id # 0 /\ new.handle = g THEN 1 ELSE 0)
    BY <1>5, <1>7, <1>11, ModuleMoved
  <2> TAKE g \in Handles
  <2>1. Cardinality(ModulesOn(g)') =
           Cardinality(ModulesOn(g)) - (IF m \in ModulesOn(g) THEN 1 ELSE 0)
              + (IF new.id # 0 /\ new.handle = g THEN 1 ELSE 0)
    BY <2>0
  <2>2. m \in ModulesOn(g) <=> g = h
    BY <1>1, <1>6 DEF ModulesOn
  <2> QED BY <1>11, <2>1, <2>2
<1>15. Users' = [more EXCEPT ![h] = @ - 1]
  <2>1. \A g \in Handles : Users'[g] = opens[g] + Cardinality(ModulesOn(g)')
    BY <1>5 DEF Users
  <2>2. Users' = [g \in Handles |-> Users'[g]]
    BY DEF Users
  <2>3. \A g \in Handles : Users'[g] = Users[g] - (IF g = h THEN 1 ELSE 0)
                                       + (IF g = next THEN 1 ELSE 0)
    <3> TAKE g \in Handles
    <3>1. PICK a \in Nat : a = opens[g]
      BY UsersAre
    <3>2. PICK k \in Nat : k = Cardinality(ModulesOn(g))
      BY UsersAre
    <3>3. Users[g] = a + k
      BY <3>1, <3>2, UsersAre
    <3>4. Users'[g] = a + (k - (IF g = h THEN 1 ELSE 0) + (IF g = next THEN 1 ELSE 0))
      BY <1>14, <2>1, <3>1, <3>2
    <3> QED BY <3>3, <3>4
  <2>4. Users'[h] = more[h] - 1 /\ \A g \in Handles \ {h} : Users'[g] = more[g]
    <3>1. Users'[next] = 1
      BY <1>8, <1>9, <2>3
    <3>2. \A g \in Handles \ {h, next} : Users'[g] = Users[g]
      BY <2>3, UsersAre
    <3>3. Users'[h] = Users[h] - 1
      BY <1>6, <1>8, <2>3, UsersAre
    <3> QED BY <1>10, <3>1, <3>2, <3>3
  <2>5. more[h] - 1 \in Nat
    BY <1>6, <1>10, UsersAre
  <2>6. Users' \in [Handles -> Nat]
    BY <1>10, <2>2, <2>4, <2>5
  <2> QED BY <1>6, <1>10, <2>4, <2>6, UsersWritten
<1>16. \A n \in ModuleSlots : modules'[n].id # 0 =>
          Names(shlibs', modules'[n].handle, modules'[n].path)
  <2> SUFFICES ASSUME NEW n \in ModuleSlots, modules'[n].id # 0
               PROVE  Names(shlibs', modules'[n].handle, modules'[n].path)
    OBVIOUS
  <2>1. CASE n = m
    BY <1>8, <1>9, <1>11, <1>12, <1>13, <2>1
  <2>2. CASE n # m
    <3>1. modules'[n] = modules[n] /\ modules[n].id # 0
      BY <1>13, <2>2
    <3>2. modules[n].handle # h \/ Users[h] > 1
      BY <1>1, <1>5, <2>2, <3>1, ModuleLeaves
    <3>3. Names(shlibs, modules[n].handle, modules[n].path)
      BY <3>1 DEF LibrariesInv
    <3> QED BY <1>9, <1>10, <1>12, <3>1, <3>2, <3>3
  <2> QED BY <2>1, <2>2
<1> QED BY <1>5, <1>12, <1>13, <1>15, <1>16 DEF LibrariesInv

\* Every call keeps the invariant.
LEMMA LibrariesInvNext ==
    ASSUME LibrariesInv, [LibrariesNext]_libraryVars PROVE LibrariesInv'
<1>1. CASE UNCHANGED libraryVars
  <2>1. UNCHANGED <<shlibs, modules, g_shlib_next_handle, g_module_next_id, opens>>
    BY <1>1 DEF libraryVars
  <2>2. Users' = Users
    BY <2>1 DEF Users, ModulesOn
  <2> QED BY <2>1, <2>2 DEF LibrariesInv
<1> QED BY <1>1, DlOpenSharedInv, DlOpenNewInv, DlCloseInv, ModLoadInv, ModLoadNoRoomInv,
           ModUnloadInv, ModReloadInv, LibrariesEmpty DEF LibrariesNext

\* However dlopen, dlclose, modload, modunload and modreload mix, an image is
\* counted once for every open handle and every module on it, and no handle
\* dangles (syscall.c), for every size of the tables.
THEOREM LibrariesRefsAgree == LibrariesSpec => []RefsAgree
<1>1. LibrariesInit => LibrariesInv
  BY LibrariesEmpty
<1> QED BY <1>1, LibrariesInvNext, LibrariesInvMeans, PTL DEF LibrariesSpec
------------------------------------------------------------------------------
\* Slot s lies cyclically after t and before the cursor.
Behind(t, s, cursor) ==
    IF t < cursor THEN t < s /\ s < cursor ELSE t < s \/ s < cursor

TurnInv ==
    /\ TypeOK
    /\ \A t \in runnable : \A s \in since[t] : Behind(t, s, g_cursor)
----------------------------------------------------------------------------
\* How many slots the scan passes before it looks at slot t.
Steps(cursor, t) == IF t >= cursor THEN t - cursor ELSE t - cursor + ThreadSlots

\* The scan looks at slot t after Steps(g_cursor, t) others, and only then.
LEMMA ScanReaches ==
    ASSUME TypeOK, NEW t \in KSlots
    PROVE  /\ Steps(g_cursor, t) \in KSlots
           /\ Scanned(Steps(g_cursor, t)) = t
           /\ \A k \in KSlots : Scanned(k) = t => k = Steps(g_cursor, t)
<1> DEFINE k0 == Steps(g_cursor, t)
<1>1. g_cursor \in 0 .. ThreadSlots - 1 /\ ThreadSlots \in Nat \ {0}
  BY ThreadAssumption DEF TypeOK, KSlots
<1>2. \A k \in KSlots : Scanned(k) = IF g_cursor + k < ThreadSlots
                                     THEN g_cursor + k
                                     ELSE g_cursor + k - ThreadSlots
  <2> TAKE k \in KSlots
  <2>1. g_cursor \in Nat /\ g_cursor < ThreadSlots /\ k \in Nat /\ k <= ThreadSlots
    BY <1>1 DEF KSlots
  <2>2. (g_cursor + k) % ThreadSlots = IF g_cursor + k < ThreadSlots
                                       THEN g_cursor + k
                                       ELSE g_cursor + k - ThreadSlots
    BY <1>1, <2>1, WrapOnce, Zenon
  <2> QED BY <2>2 DEF Scanned
<1>3. k0 \in KSlots
  BY <1>1 DEF KSlots, Steps
<1>4. Scanned(k0) = t
  BY <1>1, <1>2, <1>3 DEF KSlots, Steps
<1>5. \A k \in KSlots : Scanned(k) = t => k = k0
  BY <1>1, <1>2 DEF KSlots, Steps
<1> QED BY <1>3, <1>4, <1>5

\* The thread that is picked is the first runnable one from the cursor on: no
\* runnable thread is reached in fewer steps.
LEMMA PickIsFirst ==
    ASSUME TypeOK, NEW s \in KSlots, Picks(s), NEW t \in runnable
    PROVE  Steps(g_cursor, t) >= Steps(g_cursor, s)
<1>1. ThreadSlots \in Nat \ {0} /\ runnable \subseteq KSlots
  BY ThreadAssumption DEF TypeOK, KSlots
<1>2. PICK k \in KSlots : /\ s = Scanned(k)
                          /\ \A earlier \in 0 .. k - 1 : Scanned(earlier) \notin runnable
  BY DEF Picks
<1>3. k = Steps(g_cursor, s)
  BY <1>2, ScanReaches
<1>4. Steps(g_cursor, t) \in KSlots /\ Scanned(Steps(g_cursor, t)) = t
  BY <1>1, ScanReaches
<1> QED BY <1>1, <1>2, <1>3, <1>4 DEF KSlots
----------------------------------------------------------------------------
\* All tables are empty after kthread_init.
LEMMA TurnInit == KthreadInit => TurnInv
<1> SUFFICES ASSUME KthreadInit PROVE TurnInv
  OBVIOUS
<1>1. created \in 0 .. ThreadSlots /\ g_cursor \in KSlots
  BY ThreadAssumption DEF KthreadInit, KSlots
<1>2. since \in [KSlots -> SUBSET KSlots]
  BY DEF KthreadInit
<1>3. runnable = {} /\ g_current_tid \in 0 .. created
  BY DEF KthreadInit
<1>4. executing \in BOOLEAN
  BY Zenon DEF KthreadInit
<1> QED BY <1>1, <1>2, <1>3, <1>4 DEF TurnInv, TypeOK

\* Calling a thread keeps the arcs: the cursor moves just past it.
LEMMA RunThreadInv ==
    ASSUME TurnInv, NEW s \in KSlots, RunThread(s)
    PROVE  TurnInv'
<1>1. /\ ThreadSlots \in Nat \ {0}
      /\ g_cursor \in 0 .. ThreadSlots - 1
      /\ s \in 0 .. ThreadSlots - 1
      /\ runnable \subseteq 0 .. ThreadSlots - 1
      /\ since \in [KSlots -> SUBSET KSlots]
  BY ThreadAssumption DEF TurnInv, TypeOK, KSlots
<1>2. g_cursor' = IF s + 1 < ThreadSlots THEN s + 1 ELSE 0
  <2>1. s \in Nat /\ s < ThreadSlots /\ 1 \in Nat /\ 1 <= ThreadSlots
    BY <1>1
  <2>2. (s + 1) % ThreadSlots = IF s + 1 < ThreadSlots THEN s + 1 ELSE s + 1 - ThreadSlots
    BY <1>1, <2>1, WrapOnce, Zenon
  <2>3. g_cursor' = (s + 1) % ThreadSlots
    BY DEF RunThread
  <2>4. CASE s + 1 < ThreadSlots
    BY <2>2, <2>3, <2>4
  <2>5. CASE s + 1 >= ThreadSlots
    BY <1>1, <2>2, <2>3, <2>5
  <2> QED BY <1>1, <2>4, <2>5
<1>3. s \in runnable
  BY DEF RunThread, Picks
<1>4. TypeOK'
  BY <1>1, <1>2, <1>3 DEF TurnInv, TypeOK, RunThread, KSlots
<1>5. ASSUME NEW t \in runnable', NEW x \in since'[t]
      PROVE  Behind(t, x, g_cursor')
  <2>1. t \in runnable /\ t \in 0 .. ThreadSlots - 1
    BY <1>1 DEF RunThread
  <2>2. t # s /\ (x = s \/ x \in since[t])
    BY <1>1, <2>1 DEF RunThread, KSlots
  <2>3. Steps(g_cursor, t) >= Steps(g_cursor, s)
    BY <2>1, PickIsFirst DEF RunThread, TurnInv
  <2>4. CASE x = s
    BY <1>1, <1>2, <2>1, <2>2, <2>3, <2>4 DEF Behind, Steps
  <2>5. CASE x \in since[t]
    <3>1. x \in 0 .. ThreadSlots - 1
      BY <1>1, <2>1, <2>5 DEF KSlots
    <3>2. Behind(t, x, g_cursor)
      BY <2>1, <2>5 DEF TurnInv
    <3> QED BY <1>1, <1>2, <2>1, <2>2, <2>3, <3>1, <3>2 DEF Behind, Steps
  <2> QED BY <2>2, <2>4, <2>5
<1> QED BY <1>4, <1>5 DEF TurnInv

\* A thread that becomes runnable starts with an empty arc.
LEMMA ApiInv ==
    ASSUME TurnInv, Create \/ \E s \in KSlots : Wake(s) \/ Stop(s)
    PROVE  TurnInv'
<1>0. ThreadSlots \in Nat \ {0}
  BY ThreadAssumption
<1>1. CASE Create
  <2>1. created \in KSlots /\ created \notin runnable
    BY <1>0, <1>1 DEF Create, TurnInv, TypeOK, KSlots
  <2>2. TypeOK'
    BY <1>0, <1>1, <2>1 DEF Create, TurnInv, TypeOK, KSlots
  <2> QED BY <1>1, <2>1, <2>2 DEF Create, TurnInv, TypeOK
<1>2. ASSUME NEW s \in KSlots, Wake(s) PROVE TurnInv'
  <2>1. TypeOK'
    BY <1>0, <1>2 DEF Wake, TurnInv, TypeOK, KSlots
  <2>2. CASE s \in runnable
    BY <1>2, <2>1, <2>2 DEF Wake, TurnInv
  <2>3. CASE s \notin runnable
    BY <1>2, <2>1, <2>3 DEF Wake, TurnInv, TypeOK
  <2> QED BY <2>2, <2>3
<1>3. ASSUME NEW s \in KSlots, Stop(s) PROVE TurnInv'
  BY <1>0, <1>3 DEF Stop, TurnInv, TypeOK, KSlots
<1> QED BY <1>1, <1>2, <1>3

\* Every step keeps the invariant.
LEMMA TurnNext == TurnInv /\ [Next]_vars => TurnInv'
<1> SUFFICES ASSUME TurnInv, [Next]_vars PROVE TurnInv'
  OBVIOUS
<1>0. ThreadSlots \in Nat \ {0}
  BY ThreadAssumption
<1>1. CASE Create \/ \E s \in KSlots : Wake(s) \/ Stop(s)
  BY <1>1, ApiInv
<1>2. CASE \E s \in KSlots : RunThread(s)
  BY <1>2, RunThreadInv
<1>3. CASE EntryReturn
  BY <1>3 DEF EntryReturn, TurnInv, TypeOK
<1>4. CASE RunNothing
  BY <1>0, <1>4 DEF RunNothing, TurnInv, TypeOK
<1>5. CASE Reset
  BY <1>0, <1>5 DEF Reset, TurnInv, TypeOK, KSlots
<1>6. CASE UNCHANGED vars
  BY <1>6 DEF vars, TurnInv, TypeOK
<1> QED BY <1>1, <1>2, <1>3, <1>4, <1>5, <1>6 DEF Next, Step
----------------------------------------------------------------------------
\* The arcs are an invariant of the kernel threads.
THEOREM TurnInvariant == Spec => []TurnInv
<1>1. Spec => KthreadInit /\ [][Next]_vars
  BY PTL DEF Spec
<1> QED BY <1>1, TurnInit, TurnNext, PTL

\* The type invariant, for every number of slots.
THEOREM KthreadTypeCorrect == Spec => []TypeOK
<1>1. TurnInv => TypeOK
  BY DEF TurnInv
<1> QED BY <1>1, TurnInvariant, PTL

\* A step that calls slot s calls it for the first time since every runnable t.
LEMMA CallIsFirst ==
    ASSUME TurnInv, [Next]_vars, ~executing, executing',
           NEW s \in KSlots, NEW t \in KSlots,
           g_current_tid' = s + 1, t \in runnable
    PROVE  s \notin since[t]
<1>1. PICK r \in KSlots : RunThread(r)
  BY DEF Next, Step, Create, Wake, Stop, EntryReturn, RunNothing, Reset, vars
<1>2. r = s
  BY <1>1, ThreadAssumption DEF RunThread, KSlots
<1>3. Steps(g_cursor, t) >= Steps(g_cursor, s)
  BY <1>1, <1>2, PickIsFirst DEF RunThread, TurnInv
<1>4. /\ g_cursor \in 0 .. ThreadSlots - 1
      /\ ThreadSlots \in Nat \ {0}
  BY ThreadAssumption DEF TurnInv, TypeOK, KSlots
<1>5. s \in since[t] => Behind(t, s, g_cursor)
  BY DEF TurnInv
<1> QED BY <1>3, <1>4, <1>5 DEF Behind, Steps, KSlots

\* Strict round-robin (kthread.c:159-177), for every number of slots.
THEOREM KthreadRoundRobin == Spec => CalledOnceInTurn
<1>1. TurnInv /\ [Next]_vars =>
      [(~executing /\ executing') =>
         \A s, t \in KSlots :
             g_current_tid' = s + 1 /\ t \in runnable => s \notin since[t]]_vars
  BY CallIsFirst
<1>2. Spec => [][Next]_vars
  BY PTL DEF Spec
<1> QED BY <1>1, <1>2, TurnInvariant, PTL DEF CalledOnceInTurn
==============================================================================
