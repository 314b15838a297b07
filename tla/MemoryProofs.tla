----------------------------- MODULE MemoryProofs -----------------------------
(***************************************************************************)
(* Proofs about the mapping tables and the physical pages of                *)
(* c-os/kernel/mm/mm.c, for every size of the tables, every range and every *)
(* boot memory map.                                                         *)
(*                                                                         *)
(* mmap, munmap and qos_pmm_init loop over pages or entries.  The first     *)
(* lemmas give induction over such loops and the values a recursive         *)
(* function names in them.                                                  *)
(*                                                                         *)
(* Mappings: a Clean table maps no page twice, so that what it translates   *)
(* (View) says all there is to know, and room for a page is a matter of how *)
(* many pages are mapped.  Each call is shown to change the view of one     *)
(* address space the way AddressSpaces says.                                *)
(*                                                                         *)
(* Physical pages: each frame lies wholly in an entry of the boot memory    *)
(* map, and one entry lists it once, so that g_frames names a page twice    *)
(* only if two entries overlap in it; an allocation or a free changes the   *)
(* mark of one entry of the table.                                          *)
(***************************************************************************)
EXTENDS Vmm, Pmm, SlotLemmas

\* Induction over the numbers, as a statement about sets: what holds of 0 and, with a
\* number, of the next one, holds of all.
LEMMA SetInduction ==
    ASSUME NEW S, 0 \in S, \A n \in Nat : n \in S => n + 1 \in S
    PROVE  Nat \subseteq S
<1> SUFFICES ASSUME Nat \ S # {} PROVE FALSE
  OBVIOUS
<1>1. PICK m \in Nat \ S : \A k \in Nat \ S : m <= k
  <2>1. (Nat \ S) \subseteq Nat
    OBVIOUS
  <2> QED BY <2>1, LeastSlot, Zenon
<1>2. m # 0 /\ m - 1 \in Nat /\ (m - 1) + 1 = m
  BY <1>1
<1>3. m - 1 \in S
  BY <1>1, <1>2
<1> QED BY <1>1, <1>2, <1>3

\* What holds before a loop, and after a turn when before it, holds after all n turns.
LEMMA LoopInduction ==
    ASSUME NEW S, NEW n \in Nat, 0 \in S, \A i \in 1 .. n : i - 1 \in S => i \in S
    PROVE  0 .. n \subseteq S
<1> DEFINE T == {i \in Nat : i <= n => i \in S}
<1>1. 0 \in T
  OBVIOUS
<1>2. \A i \in Nat : i \in T => i + 1 \in T
  <2> TAKE i \in Nat
  <2>1. CASE i + 1 <= n
    <3>1. i + 1 \in 1 .. n /\ i <= n /\ (i + 1) - 1 = i
      BY <2>1
    <3> QED BY <3>1
  <2> QED BY <2>1
<1>3. Nat \subseteq T
  <2> HIDE DEF T
  <2> QED BY <1>1, <1>2, SetInduction
<1> QED BY <1>3

\* g has the values of a variable before the first of n turns of a loop and after each:
\* turn i takes it from v to st[i][v].
Turns(g, S, b, n, st) ==
    /\ g \in [0 .. n -> S] /\ g[0] = b
    /\ \A i \in 1 .. n : g[i] = st[i][g[i - 1]]

\* Every loop has such values; the specifications name them with a recursive function.
LEMMA LoopRuns ==
    ASSUME NEW S, NEW b \in S, NEW st \in [Nat -> [S -> S]], NEW n \in Nat
    PROVE  \E g : Turns(g, S, b, n, st)
<1> DEFINE K == {k \in Nat : \E g : Turns(g, S, b, k, st)}
<1>1. 0 \in K
  <2>1. PICK g : g = [i \in 0 .. 0 |-> b]
    BY Zenon
  <2>2. Turns(g, S, b, 0, st)
    BY <2>1 DEF Turns
  <2> QED BY <2>2
<1>2. ASSUME NEW k \in Nat, k \in K PROVE k + 1 \in K
  <2>1. PICK g : Turns(g, S, b, k, st)
    BY <1>2
  <2>2. /\ g \in [0 .. k -> S] /\ g[0] = b
        /\ \A i \in 1 .. k : g[i] = st[i][g[i - 1]]
    BY <2>1 DEF Turns
  <2>3. PICK v \in S : v = st[k + 1][g[k]]
    <3>1. g[k] \in S /\ k + 1 \in Nat
      BY <2>2
    <3> QED BY <3>1
  <2>4. PICK h : h = [i \in 0 .. k + 1 |-> IF i = k + 1 THEN v ELSE g[i]]
    BY Zenon
  <2>5. /\ h \in [0 .. k + 1 -> S] /\ h[k + 1] = v
        /\ \A i \in 0 .. k : h[i] = g[i]
    BY <2>2, <2>4
  <2>6. h[0] = b
    BY <2>2, <2>5
  <2>7. \A i \in 1 .. k + 1 : h[i] = st[i][h[i - 1]]
    <3> TAKE i \in 1 .. k + 1
    <3>1. CASE i = k + 1
      <4>1. i - 1 = k /\ h[k] = g[k]
        BY <2>5, <3>1
      <4> QED BY <2>3, <2>5, <3>1, <4>1
    <3>2. CASE i # k + 1
      <4>1. i \in 1 .. k /\ i \in 0 .. k /\ i - 1 \in 0 .. k
        BY <3>2
      <4> QED BY <2>2, <2>5, <4>1
    <3> QED BY <3>1, <3>2
  <2>8. Turns(h, S, b, k + 1, st)
    BY <2>5, <2>6, <2>7 DEF Turns
  <2> QED BY <2>8
<1> HIDE DEF K
<1>3. n \in K
  BY <1>1, <1>2, SetInduction
<1> QED BY <1>3 DEF K
----------------------------------------------------------------------------
MapRecs == [used : BOOLEAN, va : Nat, pa : Nat, flags : Nat]
MapTables == [MapSlots -> MapRecs]

\* The inductive invariant of one address space: an entry in use has a page and flags,
\* and no page has two.
Clean(t) ==
    /\ t \in MapTables
    /\ \A s \in MapSlots : t[s].used => t[s].va \in Pages /\ t[s].flags # 0
    /\ \A s, r \in MapSlots : t[s].used /\ t[r].used /\ t[s].va = t[r].va => s = r

\* What a page that is not mapped is translated to.
Nowhere == [pa |-> 0, flags |-> 0]

\* The slots are numbers, and the constants have their types.
LEMMA MapSlotsNat == MapSlots \subseteq Nat /\ MaxMappings \in Nat /\ LastPage \in Nat
BY VmmAssumption DEF MapSlots

\* A used entry is the one that the scan for its page finds (vmm_find).
LEMMA FoundOne ==
    ASSUME NEW t, Clean(t), NEW s \in MapSlots, t[s].used
    PROVE  /\ VmmFind(t, t[s].va) = {s} /\ Min(VmmFind(t, t[s].va)) = s
           /\ Translate(t, t[s].va) = [pa |-> t[s].pa, flags |-> t[s].flags]
<1>1. VmmFind(t, t[s].va) = {s}
  BY DEF Clean, VmmFind
<1>2. Min({s}) = s
  <2>1. Min({s}) \in {s}
    BY MapSlotsNat, MinIn
  <2> QED BY <2>1
<1> QED BY <1>1, <1>2 DEF Translate

\* The scan of vmm_find finds an entry of the page, when there is one.
LEMMA FoundIs ==
    ASSUME NEW t, Clean(t), NEW va, VmmFind(t, va) # {}
    PROVE  \E s \in MapSlots : /\ t[s].used /\ t[s].va = va /\ VmmFind(t, va) = {s}
                               /\ Min(VmmFind(t, va)) = s
<1>1. PICK s \in VmmFind(t, va) : TRUE
  OBVIOUS
<1>2. s \in MapSlots /\ t[s].used /\ t[s].va = va
  BY <1>1 DEF VmmFind
<1> QED BY <1>2, FoundOne, Zenon

\* A page is translated to something exactly when it has an entry.
LEMMA ViewMeans ==
    ASSUME NEW t, Clean(t), NEW va
    PROVE  Translate(t, va) = Nowhere <=> VmmFind(t, va) = {}
<1>1. CASE VmmFind(t, va) = {}
  BY <1>1 DEF Translate, Nowhere
<1>2. CASE VmmFind(t, va) # {}
  <2>1. PICK s \in MapSlots : t[s].used /\ t[s].va = va
    BY <1>2, FoundIs
  <2>2. Translate(t, va) = [pa |-> t[s].pa, flags |-> t[s].flags]
    BY <2>1, FoundOne, Zenon
  <2>3. t[s].flags # 0
    BY <2>1 DEF Clean
  <2> QED BY <1>2, <2>2, <2>3 DEF Nowhere
<1> QED BY <1>1, <1>2

\* Table u is t with entry r in slot i.
Entered(u, t, i, r) ==
    u \in MapTables /\ u[i] = r /\ \A s \in MapSlots \ {i} : u[s] = t[s]

\* An assignment to an entry makes such a table.
LEMMA EnteredIs ==
    ASSUME NEW t \in MapTables, NEW i \in MapSlots, NEW r \in MapRecs
    PROVE  Entered([t EXCEPT ![i] = r], t, i, r)
BY DEF Entered, MapTables

\* A new entry for the page va, in the place of its old one or in a free one.
LEMMA EntryWritten ==
    ASSUME NEW t, Clean(t), NEW i \in MapSlots, NEW va \in Pages, NEW pa \in Nat,
           NEW flags \in Nat \ {0}, NEW u,
           Entered(u, t, i, [used |-> TRUE, va |-> va, pa |-> pa, flags |-> flags]),
           VmmFind(t, va) = {i} \/ (VmmFind(t, va) = {} /\ ~ t[i].used)
    PROVE  /\ Clean(u) /\ Translate(u, va) = [pa |-> pa, flags |-> flags]
           /\ \A page \in Pages \ {va} : Translate(u, page) = Translate(t, page)
<1>1. /\ u \in MapTables /\ u[i].used /\ u[i].va = va /\ u[i].pa = pa /\ u[i].flags = flags
      /\ \A s \in MapSlots \ {i} : u[s] = t[s]
  BY DEF Entered
<1>2. \A s \in MapSlots \ {i} : t[s].used => t[s].va # va
  BY DEF VmmFind
<1>3. t[i].used => t[i].va = va
  BY DEF VmmFind
<1>4. Clean(u)
  <2>1. \A s \in MapSlots : u[s].used => u[s].va \in Pages /\ u[s].flags # 0
    BY <1>1 DEF Clean
  <2>2. \A s, r \in MapSlots : u[s].used /\ u[r].used /\ u[s].va = u[r].va => s = r
    BY <1>1, <1>2 DEF Clean
  <2> QED BY <1>1, <2>1, <2>2 DEF Clean
<1>5. Translate(u, va) = [pa |-> pa, flags |-> flags]
  BY <1>1, <1>4, FoundOne, Zenon
<1>6. ASSUME NEW page \in Pages \ {va} PROVE Translate(u, page) = Translate(t, page)
  <2>1. VmmFind(u, page) = VmmFind(t, page)
    BY <1>1, <1>3, <1>6 DEF VmmFind
  <2>2. CASE VmmFind(t, page) = {}
    BY <2>1, <2>2 DEF Translate
  <2>3. CASE VmmFind(t, page) # {}
    <3>1. PICK s \in MapSlots : t[s].used /\ t[s].va = page
      BY <2>3, FoundIs
    <3>2. s # i
      BY <1>3, <1>6, <3>1
    <3>3. u[s] = t[s]
      BY <1>1, <3>2
    <3>4. Translate(t, page) = [pa |-> t[s].pa, flags |-> t[s].flags]
      BY <3>1, FoundOne, Zenon
    <3>5. u[s].used /\ u[s].va = page
      BY <3>1, <3>3
    <3>6. Translate(u, page) = [pa |-> u[s].pa, flags |-> u[s].flags]
      BY <1>4, <3>5, FoundOne, Zenon
    <3> QED BY <3>3, <3>4, <3>6
  <2> QED BY <2>2, <2>3
<1> QED BY <1>4, <1>5, <1>6

\* An entry that is cleared.
LEMMA EntryCleared ==
    ASSUME NEW t, Clean(t), NEW i \in MapSlots, t[i].used, NEW u, Entered(u, t, i, NoMapping)
    PROVE  /\ Clean(u) /\ Translate(u, t[i].va) = Nowhere
           /\ \A page \in Pages \ {t[i].va} : Translate(u, page) = Translate(t, page)
<1>1. /\ u \in MapTables /\ ~ u[i].used /\ \A s \in MapSlots \ {i} : u[s] = t[s]
  BY DEF Entered, NoMapping
<1>2. Clean(u)
  BY <1>1 DEF Clean
<1>3. VmmFind(u, t[i].va) = {}
  BY <1>1 DEF VmmFind, Clean
<1>4. Translate(u, t[i].va) = Nowhere
  BY <1>2, <1>3, ViewMeans
<1>5. ASSUME NEW page \in Pages \ {t[i].va} PROVE Translate(u, page) = Translate(t, page)
  <2>1. VmmFind(u, page) = VmmFind(t, page)
    BY <1>1, <1>5 DEF VmmFind
  <2>2. CASE VmmFind(t, page) = {}
    BY <2>1, <2>2 DEF Translate
  <2>3. CASE VmmFind(t, page) # {}
    <3>1. PICK s \in MapSlots : t[s].used /\ t[s].va = page
      BY <2>3, FoundIs
    <3>2. s # i
      BY <1>5, <3>1
    <3>3. u[s] = t[s]
      BY <1>1, <3>2
    <3>4. Translate(t, page) = [pa |-> t[s].pa, flags |-> t[s].flags]
      BY <3>1, FoundOne, Zenon
    <3>5. u[s].used /\ u[s].va = page
      BY <3>1, <3>3
    <3>6. Translate(u, page) = [pa |-> u[s].pa, flags |-> u[s].flags]
      BY <1>2, <3>5, FoundOne, Zenon
    <3> QED BY <3>3, <3>4, <3>6
  <2> QED BY <2>2, <2>3
<1> QED BY <1>2, <1>4, <1>5

\* qos_vmm_map_as maps the page and leaves the others alone.
LEMMA MappedView ==
    ASSUME NEW t, Clean(t), NEW va \in Pages, MayMap(t, va), NEW pa \in Nat,
           NEW flags \in Nat \ {0}
    PROVE  /\ Clean(Mapped(t, va, pa, flags))
           /\ View(Mapped(t, va, pa, flags)) = [View(t) EXCEPT ![va] = [pa |-> pa, flags |-> flags]]
<1>1. PICK i : i = Min(IF VmmFind(t, va) # {} THEN VmmFind(t, va) ELSE VmmFree(t))
  OBVIOUS
<1>2. i \in MapSlots /\ (VmmFind(t, va) = {i} \/ (VmmFind(t, va) = {} /\ ~ t[i].used))
  <2>1. CASE VmmFind(t, va) # {}
    BY <1>1, <2>1, FoundIs
  <2>2. CASE VmmFind(t, va) = {}
    <3>1. VmmFree(t) # {} /\ VmmFree(t) \subseteq Nat
      BY <2>2, MapSlotsNat, Zenon DEF MayMap, VmmFree
    <3>2. i \in VmmFree(t)
      BY <1>1, <2>2, <3>1, MinIn
    <3> QED BY <2>2, <3>2 DEF VmmFree
  <2> QED BY <2>1, <2>2
<1>3. PICK r \in MapRecs : r = [used |-> TRUE, va |-> va, pa |-> pa, flags |-> flags]
  <2>1. va \in Nat /\ flags \in Nat
    BY MapSlotsNat DEF Pages
  <2>2. [used |-> TRUE, va |-> va, pa |-> pa, flags |-> flags] \in MapRecs
    BY <2>1 DEF MapRecs
  <2> QED BY <2>2
<1>4. PICK u : u = Mapped(t, va, pa, flags)
  OBVIOUS
<1>5. u = [t EXCEPT ![i] = r]
  BY <1>1, <1>3, <1>4 DEF Mapped
<1>6. Entered(u, t, i, r)
  BY <1>2, <1>5, EnteredIs, Zenon DEF Clean
<1>7. /\ Clean(u) /\ Translate(u, va) = [pa |-> pa, flags |-> flags]
      /\ \A page \in Pages \ {va} : Translate(u, page) = Translate(t, page)
  BY <1>2, <1>3, <1>6, EntryWritten
<1>8. View(u) = [View(t) EXCEPT ![va] = [pa |-> pa, flags |-> flags]]
  BY <1>7, Zenon DEF View
<1> QED BY <1>4, <1>7, <1>8

\* qos_vmm_unmap_as unmaps the page, if it was mapped, and leaves the others alone.
LEMMA CutView ==
    ASSUME NEW t, Clean(t), NEW va \in Pages
    PROVE  Clean(Cut(t, va)) /\ View(Cut(t, va)) = [View(t) EXCEPT ![va] = Nowhere]
<1>1. CASE VmmFind(t, va) = {}
  <2>1. Cut(t, va) = t
    BY <1>1 DEF Cut
  <2>2. Translate(t, va) = Nowhere
    BY <1>1, ViewMeans
  <2>3. View(t) = [View(t) EXCEPT ![va] = Nowhere]
    BY <2>2 DEF View
  <2> QED BY <2>1, <2>3
<1>2. CASE VmmFind(t, va) # {}
  <2>1. PICK i \in MapSlots : t[i].used /\ t[i].va = va /\ Min(VmmFind(t, va)) = i
    BY <1>2, FoundIs
  <2>2. PICK u : u = Cut(t, va)
    OBVIOUS
  <2>3. u = [t EXCEPT ![i] = NoMapping] /\ NoMapping \in MapRecs
    BY <1>2, <2>1, <2>2 DEF Cut, NoMapping, MapRecs
  <2>4. Entered(u, t, i, NoMapping)
    BY <2>3, EnteredIs, Zenon DEF Clean
  <2>5. /\ Clean(u) /\ Translate(u, va) = Nowhere
        /\ \A page \in Pages \ {va} : Translate(u, page) = Translate(t, page)
    BY <2>1, <2>4, EntryCleared
  <2>6. View(u) = [View(t) EXCEPT ![va] = Nowhere]
    BY <2>5, Zenon DEF View
  <2> QED BY <2>2, <2>5, <2>6
<1> QED BY <1>1, <1>2
----------------------------------------------------------------------------
UsedSlots(t) == {s \in MapSlots : t[s].used}
PagesIn(t) == {page \in Pages : Translate(t, page) # Nowhere}

\* There are as many pages as entries in use.
LEMMA PagesCounted ==
    ASSUME NEW t, Clean(t)
    PROVE  /\ IsFiniteSet(UsedSlots(t)) /\ IsFiniteSet(PagesIn(t))
           /\ Cardinality(PagesIn(t)) = Cardinality(UsedSlots(t))
           /\ Cardinality(PagesIn(t)) \in Nat /\ Cardinality(PagesIn(t)) <= MaxMappings
           /\ Cardinality(PagesIn(t)) = MaxMappings <=> VmmFree(t) = {}
<1>1. PICK U : U = UsedSlots(t)
  OBVIOUS
<1>2. PICK P : P = PagesIn(t)
  OBVIOUS
<1>3. PICK f : f = [s \in U |-> t[s].va]
  BY Zenon
<1>4. \A s \in U : f[s] \in P
  <2> TAKE s \in U
  <2>1. s \in MapSlots /\ t[s].used
    BY <1>1 DEF UsedSlots
  <2>2. t[s].va \in Pages /\ VmmFind(t, t[s].va) # {}
    BY <2>1, FoundOne, Zenon DEF Clean
  <2>3. t[s].va \in PagesIn(t)
    BY <2>2, ViewMeans DEF PagesIn
  <2> QED BY <1>2, <1>3, <2>3
<1>5. \A s, r \in U : f[s] = f[r] => s = r
  BY <1>1, <1>3 DEF UsedSlots, Clean
<1>6. \A page \in P : \E s \in U : f[s] = page
  <2> TAKE page \in P
  <2>1. VmmFind(t, page) # {}
    BY <1>2, ViewMeans DEF PagesIn
  <2>2. PICK s \in MapSlots : t[s].used /\ t[s].va = page
    BY <2>1, FoundIs
  <2> QED BY <1>1, <1>3, <2>2 DEF UsedSlots
<1>7. ExistsBijection(U, P)
  <2>1. f \in [U -> P]
    BY <1>3, <1>4
  <2>2. f \in Injection(U, P)
    BY <1>5, <2>1 DEF Injection, IsInjective
  <2>3. f \in Surjection(U, P)
    BY <1>6, <2>1 DEF Surjection
  <2> QED BY <2>2, <2>3 DEF ExistsBijection, Bijection
<1>8. /\ IsFiniteSet(MapSlots) /\ Cardinality(MapSlots) = MaxMappings /\ MaxMappings \in Nat
  <2>1. 0 \in Int /\ MaxMappings - 1 \in Int /\ MaxMappings \in Nat
    BY MapSlotsNat
  <2>2. /\ IsFiniteSet(0 .. MaxMappings - 1)
        /\ Cardinality(0 .. MaxMappings - 1) =
             IF 0 > MaxMappings - 1 THEN 0 ELSE (MaxMappings - 1) - 0 + 1
    BY <2>1, FS_Interval
  <2> QED BY <2>1, <2>2 DEF MapSlots
<1>9. /\ U \in SUBSET MapSlots
      /\ VmmFree(t) = {} <=> U = MapSlots
  BY <1>1 DEF UsedSlots, VmmFree
<1>10. /\ IsFiniteSet(U) /\ Cardinality(U) \in Nat /\ Cardinality(U) <= MaxMappings
       /\ Cardinality(U) = MaxMappings <=> U = MapSlots
  BY <1>8, <1>9, FS_Subset, FS_CardinalityType
<1>11. IsFiniteSet(P) /\ Cardinality(P) = Cardinality(U)
  BY <1>7, <1>10, FS_Bijection
<1> QED BY <1>1, <1>2, <1>9, <1>10, <1>11

\* A page can be mapped exactly when there is room for it in the table.
LEMMA MayMapMeans ==
    ASSUME NEW t, Clean(t), NEW va \in Pages
    PROVE  MayMap(t, va) <=> Cardinality(PagesIn(t) \cup {va}) <= MaxMappings
<1>1. PICK P : P = PagesIn(t)
  OBVIOUS
<1>2. PICK c \in Nat : c = Cardinality(P) /\ c <= MaxMappings /\ (c = MaxMappings <=> VmmFree(t) = {})
  BY <1>1, PagesCounted
<1>3. Cardinality(P \cup {va}) = IF va \in P THEN c ELSE c + 1
  BY <1>1, <1>2, PagesCounted, FS_AddElement, Zenon
<1>4. va \in P <=> VmmFind(t, va) # {}
  BY <1>1, ViewMeans DEF PagesIn
<1>5. MaxMappings \in Nat
  BY MapSlotsNat
<1>6. CASE va \in P
  BY <1>1, <1>2, <1>3, <1>4, <1>6 DEF MayMap
<1>7. CASE va \notin P
  <2>1. Cardinality(P \cup {va}) <= MaxMappings <=> c # MaxMappings
    BY <1>2, <1>3, <1>5, <1>7
  <2> QED BY <1>1, <1>2, <1>4, <1>7, <2>1 DEF MayMap
<1> QED BY <1>6, <1>7

\* The least number of a set is what Min names.
LEMMA MinIs ==
    ASSUME NEW S, S \subseteq Nat, NEW m \in S, \A k \in S : m <= k
    PROVE  Min(S) = m
<1>1. Min(S) \in S /\ \A k \in S : Min(S) <= k
  BY LeastSlot, Zenon DEF Min
<1>2. PICK k \in Nat : k = Min(S) /\ k <= m /\ m <= k
  BY <1>1, Zenon
<1> QED BY <1>2
----------------------------------------------------------------------------
\* n pages from va on that callers use
InPages(va, n) == va \in Pages /\ n \in Nat /\ va + n - 1 <= LastPage

\* They are pages.
LEMMA PageOf ==
    ASSUME NEW va, NEW n, InPages(va, n)
    PROVE  /\ va \in Nat /\ n \in Nat /\ \A i \in 1 .. n : va + i - 1 \in Pages
           /\ va .. va + n - 1 \subseteq Pages
BY MapSlotsNat DEF InPages, Pages

CleanTables == {t \in MapTables : Clean(t)}

\* The loop that unmaps pages (syscall.c:1800, 1817) has a table after every turn.
LEMMA CutRuns ==
    ASSUME NEW t, Clean(t), NEW va, NEW n, InPages(va, n)
    PROVE  \E g : /\ g[0] = t /\ CutPages(t, va, n) = g[n]
                  /\ \A i \in 1 .. n : g[i] = Cut(g[i - 1], va + i - 1)
<1> DEFINE P(g) == g = [i \in 0 .. n |-> IF i = 0 THEN t ELSE Cut(g[i - 1], va + i - 1)]
<1>1. n \in Nat /\ \A i \in 1 .. n : va + i - 1 \in Pages
  BY PageOf
<1>2. PICK st : st = [i \in Nat |-> [u \in CleanTables |->
                         IF i \in 1 .. n THEN Cut(u, va + i - 1) ELSE u]]
  BY Zenon
<1>3. t \in CleanTables
  BY DEF CleanTables, Clean
<1>4. st \in [Nat -> [CleanTables -> CleanTables]]
  <2>1. ASSUME NEW i \in 1 .. n, NEW u \in CleanTables PROVE Cut(u, va + i - 1) \in CleanTables
    <3>1. va + i - 1 \in Pages /\ Clean(u)
      BY <1>1 DEF CleanTables
    <3>2. Clean(Cut(u, va + i - 1))
      BY <3>1, CutView
    <3> QED BY <3>2 DEF CleanTables, Clean
  <2> QED BY <1>2, <2>1
<1>5. PICK f : Turns(f, CleanTables, t, n, st)
  BY <1>1, <1>3, <1>4, LoopRuns
<1>6. /\ f \in [0 .. n -> CleanTables] /\ f[0] = t
      /\ \A i \in 1 .. n : f[i] = st[i][f[i - 1]]
  BY <1>5 DEF Turns
<1>7. \A i \in 1 .. n : f[i] = Cut(f[i - 1], va + i - 1)
  <2> TAKE i \in 1 .. n
  <2>1. i \in Nat /\ f[i - 1] \in CleanTables
    BY <1>1, <1>6
  <2> QED BY <1>2, <1>6, <2>1, Zenon
<1>8. P(f)
  BY <1>1, <1>6, <1>7
<1>9. PICK g : g = CHOOSE h : P(h)
  OBVIOUS
<1>10. P(g)
  BY <1>8, <1>9, Zenon
<1>11. CutPages(t, va, n) = g[n]
  BY <1>9 DEF CutPages
<1>12. g[0] = t /\ \A i \in 1 .. n : g[i] = Cut(g[i - 1], va + i - 1)
  BY <1>1, <1>10
<1> QED BY <1>11, <1>12

\* It unmaps these pages and no other.
LEMMA CutPagesView ==
    ASSUME NEW t, Clean(t), NEW va, NEW n, InPages(va, n)
    PROVE  /\ Clean(CutPages(t, va, n))
           /\ \A page \in Pages : Translate(CutPages(t, va, n), page) =
                 IF page \in va .. va + n - 1 THEN Nowhere ELSE Translate(t, page)
<1> DEFINE Done(u, i) == /\ Clean(u)
                         /\ \A page \in Pages : Translate(u, page) =
                               IF page \in va .. va + i - 1 THEN Nowhere ELSE Translate(t, page)
<1>1. PICK g : /\ g[0] = t /\ CutPages(t, va, n) = g[n]
               /\ \A i \in 1 .. n : g[i] = Cut(g[i - 1], va + i - 1)
  BY CutRuns
<1>2. va \in Nat /\ n \in Nat /\ \A i \in 1 .. n : va + i - 1 \in Pages
  BY PageOf
<1>3. PICK S : S = {i \in Nat : Done(g[i], i)}
  BY Zenon
<1>4. 0 \in S
  <2>1. va .. va + 0 - 1 = {}
    BY <1>2
  <2>2. Done(g[0], 0)
    BY <1>1, <2>1
  <2> QED BY <1>3, <2>2
<1>5. ASSUME NEW i \in 1 .. n, i - 1 \in S PROVE i \in S
  <2>1. PICK u : u = g[i - 1]
    OBVIOUS
  <2>2. PICK p \in Pages : p = va + i - 1 /\ p \in Nat
    BY <1>2
  <2>3. Done(u, i - 1)
    BY <1>3, <1>5, <2>1
  <2>4. g[i] = Cut(u, p) /\ Clean(Cut(u, p)) /\ View(Cut(u, p)) = [View(u) EXCEPT ![p] = Nowhere]
    BY <1>1, <2>1, <2>2, <2>3, CutView
  <2>5. PICK w : w = Cut(u, p)
    OBVIOUS
  <2>6. \A page \in Pages : Translate(w, page) = IF page = p THEN Nowhere ELSE Translate(u, page)
    BY <2>4, <2>5, Zenon DEF View
  <2>7. \A page \in Pages : page \in va .. va + i - 1 <=> page = p \/ page \in va .. va + (i - 1) - 1
    BY <1>2, <2>2 DEF Pages
  <2>8. Done(w, i)
    BY <2>3, <2>4, <2>5, <2>6, <2>7
  <2> QED BY <1>3, <2>4, <2>5, <2>8
<1>6. n \in S
  BY <1>2, <1>4, <1>5, LoopInduction
<1> QED BY <1>1, <1>3, <1>6

\* The loop of mmap (syscall.c:1797) has a table after every turn.
LEMMA MapRuns ==
    ASSUME NEW t, Clean(t), NEW va, NEW n, InPages(va, n), NEW flags \in Nat \ {0}
    PROVE  LET g == MapPages(t, va, n, flags) IN
           /\ g[0] = t
           /\ \A i \in 1 .. n : g[i] = IF MayMap(g[i - 1], va + i - 1)
                                       THEN Mapped(g[i - 1], va + i - 1, va + i - 1, flags)
                                       ELSE g[i - 1]
<1> DEFINE Turn(u, p) == IF MayMap(u, p) THEN Mapped(u, p, p, flags) ELSE u
           P(g) == g = [i \in 0 .. n |-> IF i = 0 THEN t ELSE Turn(g[i - 1], va + i - 1)]
<1>1. n \in Nat /\ \A i \in 1 .. n : va + i - 1 \in Pages
  BY PageOf
<1>2. PICK st : st = [i \in Nat |-> [u \in CleanTables |->
                         IF i \in 1 .. n THEN Turn(u, va + i - 1) ELSE u]]
  BY Zenon
<1>3. t \in CleanTables
  BY DEF CleanTables, Clean
<1>4. st \in [Nat -> [CleanTables -> CleanTables]]
  <2>1. ASSUME NEW i \in 1 .. n, NEW u \in CleanTables PROVE Turn(u, va + i - 1) \in CleanTables
    <3>1. PICK p \in Pages : p = va + i - 1 /\ p \in Nat
      BY <1>1 DEF Pages
    <3>2. Clean(u)
      BY DEF CleanTables
    <3>3. MayMap(u, p) => Clean(Mapped(u, p, p, flags))
      BY <3>1, <3>2, MappedView
    <3>4. Clean(Turn(u, p))
      BY <3>2, <3>3
    <3> QED BY <3>1, <3>4 DEF CleanTables, Clean
  <2> HIDE DEF Turn
  <2> QED BY <1>2, <2>1
<1>5. PICK f : Turns(f, CleanTables, t, n, st)
  BY <1>1, <1>3, <1>4, LoopRuns
<1>6. /\ f \in [0 .. n -> CleanTables] /\ f[0] = t
      /\ \A i \in 1 .. n : f[i] = st[i][f[i - 1]]
  BY <1>5 DEF Turns
<1>7. \A i \in 1 .. n : f[i] = Turn(f[i - 1], va + i - 1)
  <2> TAKE i \in 1 .. n
  <2>1. i \in Nat /\ f[i - 1] \in CleanTables
    BY <1>1, <1>6
  <2> HIDE DEF Turn
  <2> QED BY <1>2, <1>6, <2>1, Zenon
<1>8. P(f)
  <2> HIDE DEF Turn
  <2> QED BY <1>1, <1>6, <1>7
<1>9. PICK g : g = CHOOSE h : P(h)
  OBVIOUS
<1>10. P(g)
  <2> HIDE DEF P
  <2> QED BY <1>8, <1>9, Zenon
<1>11. MapPages(t, va, n, flags) = g
  BY <1>9 DEF MapPages
<1>12. g[0] = t /\ \A i \in 1 .. n : g[i] = Turn(g[i - 1], va + i - 1)
  <2> HIDE DEF Turn
  <2> QED BY <1>1, <1>10
<1> QED BY <1>11, <1>12

\* As long as no page before the kth lacked room, the first k are mapped to themselves and
\* nothing else has changed.
LEMMA MapPagesView ==
    ASSUME NEW t, Clean(t), NEW va, NEW n, InPages(va, n), NEW flags \in Nat \ {0},
           NEW g, g = MapPages(t, va, n, flags), NEW k \in 0 .. n,
           \A i \in 0 .. k - 1 : MayMap(g[i], va + i)
    PROVE  /\ Clean(g[k])
           /\ \A page \in Pages : Translate(g[k], page) =
                 IF page \in va .. va + k - 1 THEN [pa |-> page, flags |-> flags]
                 ELSE Translate(t, page)
<1> DEFINE Done(u, i) == /\ Clean(u)
                         /\ \A page \in Pages : Translate(u, page) =
                               IF page \in va .. va + i - 1 THEN [pa |-> page, flags |-> flags]
                               ELSE Translate(t, page)
<1>1. /\ g[0] = t
      /\ \A i \in 1 .. n : g[i] = IF MayMap(g[i - 1], va + i - 1)
                                  THEN Mapped(g[i - 1], va + i - 1, va + i - 1, flags)
                                  ELSE g[i - 1]
  BY MapRuns
<1>2. va \in Nat /\ n \in Nat /\ k \in Nat /\ \A i \in 1 .. n : va + i - 1 \in Pages
  BY PageOf
<1>3. PICK S : S = {i \in Nat : Done(g[i], i)}
  BY Zenon
<1>4. 0 \in S
  <2>1. va .. va + 0 - 1 = {}
    BY <1>2
  <2>2. Done(g[0], 0)
    BY <1>1, <2>1
  <2> QED BY <1>3, <2>2
<1>5. ASSUME NEW i \in 1 .. k, i - 1 \in S PROVE i \in S
  <2>1. PICK u : u = g[i - 1]
    OBVIOUS
  <2>2. PICK p \in Pages : p = va + i - 1 /\ p \in Nat
    BY <1>2
  <2>3. Done(u, i - 1)
    BY <1>3, <1>5, <2>1
  <2>4. MayMap(u, p)
    <3>1. i - 1 \in 0 .. k - 1 /\ va + (i - 1) = p
      BY <1>2, <2>2
    <3> QED BY <2>1, <3>1
  <2>5. PICK w : w = Mapped(u, p, p, flags)
    OBVIOUS
  <2>6. g[i] = w
    <3>1. i \in 1 .. n
      BY <1>2
    <3> QED BY <1>1, <2>1, <2>2, <2>4, <2>5, <3>1
  <2>7. Clean(w) /\ View(w) = [View(u) EXCEPT ![p] = [pa |-> p, flags |-> flags]]
    BY <2>2, <2>3, <2>4, <2>5, MappedView
  <2>8. \A page \in Pages : Translate(w, page) =
           IF page = p THEN [pa |-> p, flags |-> flags] ELSE Translate(u, page)
    BY <2>7, Zenon DEF View
  <2>9. \A page \in Pages : page \in va .. va + i - 1 <=> page = p \/ page \in va .. va + (i - 1) - 1
    BY <1>2, <2>2 DEF Pages
  <2>10. Done(w, i)
    BY <2>3, <2>7, <2>8, <2>9
  <2> QED BY <1>3, <2>6, <2>10
<1>6. k \in S
  BY <1>2, <1>4, <1>5, LoopInduction
<1> QED BY <1>3, <1>6

\* So k pages more are mapped, less those that were before.
LEMMA MapPagesIn ==
    ASSUME NEW t, Clean(t), NEW va, NEW n, InPages(va, n), NEW flags \in Nat \ {0},
           NEW g, g = MapPages(t, va, n, flags), NEW k \in 0 .. n,
           \A i \in 0 .. k - 1 : MayMap(g[i], va + i)
    PROVE  PagesIn(g[k]) = PagesIn(t) \cup (va .. va + k - 1)
<1>1. \A page \in Pages : Translate(g[k], page) =
         IF page \in va .. va + k - 1 THEN [pa |-> page, flags |-> flags] ELSE Translate(t, page)
  BY MapPagesView
<1>2. \A page : [pa |-> page, flags |-> flags] # Nowhere
  BY DEF Nowhere
<1>3. va .. va + k - 1 \subseteq Pages
  <2>1. va .. va + n - 1 \subseteq Pages /\ va \in Nat /\ n \in Nat
    BY PageOf
  <2>2. va .. va + k - 1 \subseteq va .. va + n - 1
    BY <2>1
  <2> QED BY <2>1, <2>2
<1> QED BY <1>1, <1>2, <1>3, Zenon DEF PagesIn

\* The pages of a range that find no room when the range is mapped page by page.
NoRoom(t, va, n) ==
    {p \in (va .. va + n - 1) \ PagesIn(t) : Cardinality(PagesIn(t) \cup (va .. p)) > MaxMappings}

\* mmap maps each page of the range to itself; or some page finds no room, and of the
\* pages before the first such one none is mapped.
LEMMA MmapView ==
    ASSUME NEW t, Clean(t), NEW va, NEW n, InPages(va, n), NEW flags \in Nat \ {0},
           NEW full, full = NoRoom(t, va, n), NEW u, u = MmapTable(t, va, n, flags)
    PROVE  /\ Clean(u)
           /\ full = {} => \A page \in Pages : Translate(u, page) =
                 IF page \in va .. va + n - 1 THEN [pa |-> page, flags |-> flags]
                 ELSE Translate(t, page)
           /\ full # {} => \A page \in Pages : Translate(u, page) =
                 IF page \in va .. Min(full) - 1 THEN Nowhere ELSE Translate(t, page)
<1> USE DEF NoRoom
<1>1. PICK g : g = MapPages(t, va, n, flags)
  OBVIOUS
<1>2. PICK stuck : stuck = {i \in 0 .. n - 1 : ~ MayMap(g[i], va + i)}
  BY Zenon
<1>3. /\ va \in Nat /\ n \in Nat /\ \A i \in 1 .. n : va + i - 1 \in Pages
      /\ va .. va + n - 1 \subseteq Pages
  BY PageOf
<1>4. u = IF stuck = {} THEN g[n] ELSE CutPages(g[Min(stuck)], va, Min(stuck))
  BY <1>1, <1>2 DEF MmapTable
<1>5. ASSUME NEW k \in 0 .. n - 1, \A i \in 0 .. k - 1 : MayMap(g[i], va + i)
      PROVE  va + k \in full <=> ~ MayMap(g[k], va + k)
  <2>1. k \in 0 .. n /\ va + k \in Pages /\ va + k \in va .. va + n - 1
    BY <1>3
  <2>2. Clean(g[k]) /\ PagesIn(g[k]) = PagesIn(t) \cup (va .. va + k - 1)
    BY <1>1, <1>5, <2>1, MapPagesView, MapPagesIn
  <2>3. PagesIn(g[k]) \cup {va + k} = PagesIn(t) \cup (va .. va + k)
    <3>1. va .. va + k = (va .. va + k - 1) \cup {va + k}
      BY <1>3
    <3> QED BY <2>2, <3>1
  <2>4. MayMap(g[k], va + k) <=> Cardinality(PagesIn(t) \cup (va .. va + k)) <= MaxMappings
    BY <2>1, <2>2, <2>3, MayMapMeans
  <2>5. va + k \in PagesIn(t) => MayMap(g[k], va + k)
    <3>1. va + k \in PagesIn(t) => va + k \in PagesIn(g[k])
      BY <2>2
    <3>2. va + k \in PagesIn(g[k]) => VmmFind(g[k], va + k) # {}
      BY <2>1, <2>2, ViewMeans DEF PagesIn
    <3> QED BY <3>1, <3>2 DEF MayMap
  <2>6. PICK c \in Nat : c = Cardinality(PagesIn(t) \cup (va .. va + k))
    <3>1. IsFiniteSet(PagesIn(t))
      BY PagesCounted
    <3>2. IsFiniteSet(va .. va + k)
      BY <1>3, FS_Interval
    <3>3. IsFiniteSet(PagesIn(t) \cup (va .. va + k))
      BY <3>1, <3>2, FS_Union, Zenon
    <3> QED BY <3>3, FS_CardinalityType
  <2>7. c > MaxMappings <=> ~ (c <= MaxMappings)
    BY MapSlotsNat
  <2> QED BY <2>1, <2>4, <2>5, <2>6, <2>7
<1>6. \A p \in full : p \in va .. va + n - 1 /\ p - va \in 0 .. n - 1 /\ va + (p - va) = p
  BY <1>3
<1>7. CASE stuck = {}
  <2>1. \A i \in 0 .. n - 1 : MayMap(g[i], va + i)
    BY <1>2, <1>7
  <2>2. full = {}
    <3> SUFFICES ASSUME NEW p \in full PROVE FALSE
      OBVIOUS
    <3>1. PICK k \in 0 .. n - 1 : va + k = p
      BY <1>6
    <3>2. \A i \in 0 .. k - 1 : i \in 0 .. n - 1
      BY <1>3
    <3> QED BY <1>5, <2>1, <3>1, <3>2
  <2>3. n \in 0 .. n
    BY <1>3
  <2>4. /\ Clean(g[n])
        /\ \A page \in Pages : Translate(g[n], page) =
              IF page \in va .. va + n - 1 THEN [pa |-> page, flags |-> flags]
              ELSE Translate(t, page)
    BY <1>1, <2>1, <2>3, MapPagesView
  <2> QED BY <1>4, <1>7, <2>2, <2>4, Zenon
<1>8. CASE stuck # {}
  <2>1. PICK k \in stuck : \A i \in stuck : k <= i
    BY <1>2, <1>8, LeastSlot
  <2>2. k \in 0 .. n - 1 /\ ~ MayMap(g[k], va + k) /\ k \in Nat
    BY <1>2, <1>3, <2>1
  <2>3. Min(stuck) = k
    BY <1>2, <2>1, MinIs
  <2>4. ASSUME NEW i \in 0 .. k - 1 PROVE MayMap(g[i], va + i)
    <3>1. i \in 0 .. n - 1 /\ ~ (k <= i)
      BY <1>3, <2>2
    <3> QED BY <1>2, <2>1, <3>1
  <2>5. va + k \in full
    BY <1>5, <2>2, <2>4
  <2>6. \A p \in full : va + k <= p
    <3> SUFFICES ASSUME NEW p \in full, ~ (va + k <= p) PROVE FALSE
      OBVIOUS
    <3>1. PICK j \in 0 .. n - 1 : va + j = p /\ j = p - va
      BY <1>6
    <3>2. j < k
      BY <1>3, <2>2, <3>1
    <3>3. j \in 0 .. k - 1 /\ \A i \in 0 .. j - 1 : i \in 0 .. k - 1
      BY <2>2, <3>2
    <3> QED BY <1>5, <2>4, <3>1, <3>3
  <2>7. Min(full) = va + k
    <3>1. full \subseteq Nat
      BY <1>3
    <3> QED BY <2>5, <2>6, <3>1, MinIs, Zenon
  <2>8. k \in 0 .. n
    BY <1>3, <2>2
  <2>9. /\ Clean(g[k])
        /\ \A page \in Pages : Translate(g[k], page) =
              IF page \in va .. va + k - 1 THEN [pa |-> page, flags |-> flags]
              ELSE Translate(t, page)
    BY <1>1, <2>4, <2>8, MapPagesView
  <2>10. InPages(va, k)
    BY <1>3, <2>2, MapSlotsNat DEF InPages
  <2>11. /\ Clean(CutPages(g[k], va, k))
         /\ \A page \in Pages : Translate(CutPages(g[k], va, k), page) =
               IF page \in va .. va + k - 1 THEN Nowhere ELSE Translate(g[k], page)
    BY <2>9, <2>10, CutPagesView
  <2>12. u = CutPages(g[k], va, k)
    BY <1>4, <1>8, <2>3
  <2>13. \A page \in Pages : Translate(u, page) =
            IF page \in va .. Min(full) - 1 THEN Nowhere ELSE Translate(t, page)
    <3> TAKE page \in Pages
    <3>1. PICK W : W = va .. va + k - 1
      OBVIOUS
    <3>2. Translate(u, page) = IF page \in W THEN Nowhere ELSE Translate(g[k], page)
      BY <2>11, <2>12, <3>1
    <3>3. page \notin W => Translate(g[k], page) = Translate(t, page)
      BY <2>9, <3>1, Zenon
    <3>4. PICK m : m = Min(full)
      BY Zenon
    <3>5. va .. m - 1 = W
      BY <1>3, <2>2, <2>7, <3>1, <3>4
    <3>6. Translate(u, page) = IF page \in va .. m - 1 THEN Nowhere ELSE Translate(t, page)
      BY <3>2, <3>3, <3>5, Zenon
    <3> QED BY <3>4, <3>6
  <2> QED BY <2>5, <2>11, <2>12, <2>13
<1> QED BY <1>7, <1>8

\* munmap unmaps the pages of the range up to the first that is not mapped.
LEMMA MunmapView ==
    ASSUME NEW t, Clean(t), NEW va, NEW n, InPages(va, n),
           NEW cut, cut = {p \in va .. va + n - 1 : va .. p \subseteq PagesIn(t)}
    PROVE  LET u == MunmapTable(t, va, n) IN
           /\ Clean(u)
           /\ \A page \in Pages : Translate(u, page) =
                 IF page \in cut THEN Nowhere ELSE Translate(t, page)
<1>1. PICK gap : gap = {page \in va .. va + n - 1 : VmmFind(t, page) = {}}
  BY Zenon
<1>2. PICK k : k = IF gap = {} THEN n ELSE Min(gap) - va
  OBVIOUS
<1>3. MunmapTable(t, va, n) = CutPages(t, va, k)
  BY <1>1, <1>2 DEF MunmapTable
<1>4. va \in Nat /\ n \in Nat /\ va .. va + n - 1 \subseteq Pages
  BY PageOf
<1>5. \A p \in va .. va + n - 1 : p \in gap <=> p \notin PagesIn(t)
  BY <1>1, <1>4, ViewMeans DEF PagesIn
<1>6. /\ k \in 0 .. n
      /\ \A p \in va .. va + k - 1 : p \in PagesIn(t)
      /\ k < n => va + k \notin PagesIn(t)
  <2>1. CASE gap = {}
    BY <1>2, <1>4, <1>5, <2>1
  <2>2. CASE gap # {}
    <3>1. PICK m \in gap : \A p \in gap : m <= p
      BY <1>1, <1>4, <2>2, LeastSlot
    <3>2. Min(gap) = m /\ m \in va .. va + n - 1
      BY <1>1, <1>4, <3>1, MinIs
    <3>3. k \in 0 .. n /\ va + k = m
      BY <1>2, <1>4, <2>2, <3>2
    <3>4. ASSUME NEW p \in va .. va + k - 1 PROVE p \in PagesIn(t)
      <4>1. p \in va .. va + n - 1 /\ ~ (m <= p)
        BY <1>4, <3>3
      <4> QED BY <1>5, <3>1, <4>1
    <3> QED BY <1>5, <3>1, <3>2, <3>3, <3>4
  <2> QED BY <2>1, <2>2
<1>7. cut = va .. va + k - 1
  <2>1. ASSUME NEW p \in va .. va + k - 1 PROVE p \in cut
    <3>1. p \in va .. va + n - 1 /\ \A q \in va .. p : q \in va .. va + k - 1
      BY <1>4, <1>6
    <3> QED BY <1>6, <3>1
  <2>2. ASSUME NEW p \in cut PROVE p \in va .. va + k - 1
    <3>1. p \in va .. va + n - 1 /\ va .. p \subseteq PagesIn(t)
      OBVIOUS
    <3>2. CASE p >= va + k
      <4>1. k < n /\ va + k \in va .. p
        BY <1>4, <1>6, <3>1, <3>2
      <4> QED BY <1>6, <3>1, <4>1
    <3> QED BY <1>4, <1>6, <3>1, <3>2
  <2> QED BY <2>1, <2>2
<1>8. InPages(va, k)
  BY <1>4, <1>6, MapSlotsNat DEF InPages
<1> QED BY <1>3, <1>7, <1>8, CutPagesView
----------------------------------------------------------------------------
\* The inductive invariant of the address spaces.
VmmInv ==
    /\ DOMAIN mappings = Asids /\ mappings = [asid \in Asids |-> mappings[asid]]
    /\ \A asid \in Asids : Clean(mappings[asid])
    /\ g_vmm_asid \in Asids

\* AddressSpaces counts and takes minima as the tables do.
LEMMA SameOperators ==
    \A S : SpacesOfTables!Cardinality(S) = Cardinality(S) /\ SpacesOfTables!Min(S) = Min(S)
<1>1. \A S : SpacesOfTables!Cardinality(S) = Cardinality(S)
  BY Zenon DEF SpacesOfTables!Cardinality, Cardinality
<1>2. \A S : SpacesOfTables!Min(S) = Min(S)
  BY Zenon DEF SpacesOfTables!Min, Min
<1> QED BY <1>1, <1>2

\* A call that replaces the table of one address space by a clean one keeps the
\* invariant and changes what that one translates.
LEMMA SpaceStep ==
    ASSUME VmmInv, NEW asid \in Asids, NEW u, Clean(u), g_vmm_asid' = g_vmm_asid,
           mappings' = [mappings EXCEPT ![asid] = u]
    PROVE  VmmInv' /\ Space' = [Space EXCEPT ![asid] = View(u)]
<1>1. /\ DOMAIN mappings' = Asids /\ mappings' = [a \in Asids |-> mappings'[a]]
      /\ mappings'[asid] = u /\ \A a \in Asids \ {asid} : mappings'[a] = mappings[a]
  BY DEF VmmInv
<1>2. VmmInv'
  <2>1. \A a \in Asids : Clean(mappings'[a])
    BY <1>1 DEF VmmInv
  <2>2. g_vmm_asid' \in Asids
    BY DEF VmmInv
  <2> QED BY <1>1, <2>1, <2>2, Zenon DEF VmmInv
<1>3. \A a \in Asids : Space'[a] = IF a = asid THEN View(u) ELSE Space[a]
  BY <1>1 DEF Space
<1>4. Space' = [a \in Asids |-> Space'[a]] /\ Space = [a \in Asids |-> Space[a]]
  BY DEF Space
<1> QED BY <1>2, <1>3, <1>4

\* What AddressSpaces calls the mapped pages.
LEMMA MappedInIs ==
    ASSUME NEW asid \in Asids
    PROVE  SpacesOfTables!MappedIn(Space[asid]) = PagesIn(mappings[asid])
BY DEF SpacesOfTables!MappedIn, SpacesOfTables!Unmapped, Space, View, PagesIn, Nowhere

\* qos_vmm_map_as maps one page.
LEMMA MapAsStep ==
    ASSUME VmmInv, NEW asid \in Asids, NEW va \in Pages, NEW pa \in Frames, NEW flags \in Flags,
           MapAs(asid, va, pa, flags)
    PROVE  VmmInv' /\ SpacesOfTables!MapPage(asid, va, pa, flags)
<1>1. PICK t : t = mappings[asid] /\ Clean(t)
  BY DEF VmmInv
<1>2. pa \in Nat /\ flags \in Nat \ {0} /\ MayMap(t, va)
  BY <1>1, VmmAssumption DEF MapAs
<1>3. PICK u : u = Mapped(t, va, pa, flags)
  OBVIOUS
<1>4. Clean(u) /\ View(u) = [View(t) EXCEPT ![va] = [pa |-> pa, flags |-> flags]]
  BY <1>1, <1>2, <1>3, MappedView
<1>5. /\ mappings' = [mappings EXCEPT ![asid] = u] /\ g_vmm_asid' = g_vmm_asid
      /\ asked' = <<"map", asid, va, pa, flags>>
  BY <1>1, <1>3 DEF MapAs
<1>6. VmmInv' /\ Space' = [Space EXCEPT ![asid] = View(u)]
  BY <1>4, <1>5, SpaceStep, Zenon
<1>7. Space[asid] = View(t)
  BY <1>1 DEF Space
<1>8. Space' = [Space EXCEPT ![asid][va] = [pa |-> pa, flags |-> flags]]
  BY <1>4, <1>6, <1>7
<1>9. Cardinality(SpacesOfTables!MappedIn(Space[asid]) \cup {va}) <= MaxMappings
  BY <1>1, <1>2, MappedInIs, MayMapMeans
<1> QED BY <1>5, <1>6, <1>8, <1>9, SameOperators, Zenon DEF SpacesOfTables!MapPage

\* The pages cut are unmapped in one address space.
LEMMA CutSpace ==
    ASSUME VmmInv, NEW asid \in Asids, NEW u, NEW cut,
           \A page \in Pages : Translate(u, page) =
              IF page \in cut THEN Nowhere ELSE Translate(mappings[asid], page)
    PROVE  View(u) = SpacesOfTables!Without(Space[asid], cut)
BY DEF SpacesOfTables!Without, SpacesOfTables!Unmapped, Space, View, Nowhere

\* munmap unmaps a range of the current address space.
LEMMA MunmapStep ==
    ASSUME VmmInv, NEW va \in Pages \ {0}, NEW n \in 1 .. LastPage - va + 1, Munmap(va, n)
    PROVE  VmmInv' /\ SpacesOfTables!UnmapRange(g_vmm_asid, va, n)
<1>1. PICK asid \in Asids : asid = g_vmm_asid
  BY DEF VmmInv
<1>2. PICK t : t = mappings[asid] /\ Clean(t)
  BY DEF VmmInv
<1>3. InPages(va, n)
  BY MapSlotsNat DEF InPages, Pages
<1>4. PICK cut : cut = {p \in va .. va + n - 1 : va .. p \subseteq PagesIn(t)}
  BY Zenon
<1>5. PICK u : u = MunmapTable(t, va, n)
  OBVIOUS
<1>6. /\ Clean(u)
      /\ \A page \in Pages : Translate(u, page) =
            IF page \in cut THEN Nowhere ELSE Translate(t, page)
  BY <1>2, <1>3, <1>4, <1>5, MunmapView
<1>7. /\ mappings' = [mappings EXCEPT ![asid] = u] /\ g_vmm_asid' = g_vmm_asid
      /\ asked' = <<"unmap", asid, va, n>>
  BY <1>1, <1>2, <1>5 DEF Munmap
<1>8. VmmInv' /\ Space' = [Space EXCEPT ![asid] = View(u)]
  BY <1>6, <1>7, SpaceStep, Zenon
<1>9. View(u) = SpacesOfTables!Without(Space[asid], cut)
  BY <1>2, <1>6, CutSpace
<1>10. cut = {p \in va .. va + n - 1 : va .. p \subseteq SpacesOfTables!MappedIn(Space[asid])}
  BY <1>2, <1>4, MappedInIs
<1> QED BY <1>1, <1>7, <1>8, <1>9, <1>10 DEF SpacesOfTables!UnmapRange

\* qos_vmm_unmap_as unmaps a range of one page.
LEMMA UnmapAsStep ==
    ASSUME VmmInv, NEW asid \in Asids, NEW va \in Pages, UnmapAs(asid, va)
    PROVE  VmmInv' /\ SpacesOfTables!UnmapRange(asid, va, 1)
<1>1. PICK t : t = mappings[asid] /\ Clean(t)
  BY DEF VmmInv
<1>2. PICK u : u = Cut(t, va)
  OBVIOUS
<1>3. Clean(u) /\ View(u) = [View(t) EXCEPT ![va] = Nowhere]
  BY <1>1, <1>2, CutView
<1>4. /\ mappings' = [mappings EXCEPT ![asid] = u] /\ g_vmm_asid' = g_vmm_asid
      /\ asked' = <<"unmap", asid, va, 1>> /\ VmmFind(t, va) # {}
  BY <1>1, <1>2 DEF UnmapAs
<1>5. VmmInv' /\ Space' = [Space EXCEPT ![asid] = View(u)]
  BY <1>3, <1>4, SpaceStep, Zenon
<1>6. va \in PagesIn(t) /\ va \in Nat
  BY <1>1, <1>4, ViewMeans DEF PagesIn, Pages
<1>7. PICK cut : cut = {p \in va .. va + 1 - 1 :
                           va .. p \subseteq SpacesOfTables!MappedIn(Space[asid])}
  BY Zenon
<1>8. cut = {va}
  <2>1. va .. va + 1 - 1 = {va} /\ va .. va = {va}
    BY <1>6
  <2>2. va \in SpacesOfTables!MappedIn(Space[asid])
    BY <1>1, <1>6, MappedInIs
  <2> QED BY <1>7, <2>1, <2>2
<1>9. \A page \in Pages : Translate(u, page) = IF page \in cut THEN Nowhere ELSE Translate(t, page)
  BY <1>3, <1>8, Zenon DEF View
<1>10. View(u) = SpacesOfTables!Without(Space[asid], cut)
  BY <1>1, <1>9, CutSpace
<1> QED BY <1>4, <1>5, <1>7, <1>10 DEF SpacesOfTables!UnmapRange

\* mmap maps a range of the current address space or, for want of room, unmaps the
\* part of it that it had reached.
LEMMA MmapStep ==
    ASSUME VmmInv, NEW va \in Pages \ {0}, NEW n \in 1 .. LastPage - va + 1, NEW flags \in Flags,
           Mmap(va, n, flags)
    PROVE  VmmInv' /\ SpacesOfTables!MapRange(g_vmm_asid, va, n, flags)
<1>1. PICK asid \in Asids : asid = g_vmm_asid
  BY DEF VmmInv
<1>2. PICK t : t = mappings[asid] /\ Clean(t)
  BY DEF VmmInv
<1>3. InPages(va, n) /\ flags \in Nat \ {0}
  BY MapSlotsNat, VmmAssumption DEF InPages, Pages
<1>4. PICK full : full = NoRoom(t, va, n)
  OBVIOUS
<1>5. PICK u : u = MmapTable(t, va, n, flags)
  OBVIOUS
<1>6. /\ Clean(u)
      /\ full = {} => \A page \in Pages : Translate(u, page) =
            IF page \in va .. va + n - 1 THEN [pa |-> page, flags |-> flags]
            ELSE Translate(t, page)
      /\ full # {} => \A page \in Pages : Translate(u, page) =
            IF page \in va .. Min(full) - 1 THEN Nowhere ELSE Translate(t, page)
  <2>1. Clean(t) /\ InPages(va, n) /\ flags \in Nat \ {0}
    BY <1>2, <1>3
  <2> QED BY <1>4, <1>5, <2>1, MmapView
<1>7. /\ mappings' = [mappings EXCEPT ![asid] = u] /\ g_vmm_asid' = g_vmm_asid
      /\ asked' = <<"mmap", asid, va, n, flags>>
  BY <1>1, <1>2, <1>5 DEF Mmap
<1>8. VmmInv' /\ Space' = [Space EXCEPT ![asid] = View(u)]
  BY <1>6, <1>7, SpaceStep, Zenon
<1>9. full = {p \in (va .. va + n - 1) \ SpacesOfTables!MappedIn(Space[asid]) :
                 SpacesOfTables!Cardinality(SpacesOfTables!MappedIn(Space[asid]) \cup (va .. p))
                    > MaxMappings}
  BY <1>2, <1>4, MappedInIs, SameOperators DEF NoRoom
<1>10. View(u) = IF full # {} THEN SpacesOfTables!Without(Space[asid], va .. SpacesOfTables!Min(full) - 1)
                 ELSE [p \in Pages |-> IF p \in va .. va + n - 1 THEN [pa |-> p, flags |-> flags]
                                       ELSE Space[asid][p]]
  <2>1. CASE full # {}
    <3>1. PICK cut : cut = va .. Min(full) - 1
      OBVIOUS
    <3>2. \A page \in Pages : Translate(u, page) =
             IF page \in cut THEN Nowhere ELSE Translate(mappings[asid], page)
      BY <1>2, <1>6, <2>1, <3>1
    <3>3. View(u) = SpacesOfTables!Without(Space[asid], cut)
      BY <3>2, CutSpace
    <3> QED BY <2>1, <3>1, <3>3, SameOperators
  <2>2. CASE full = {}
    <3>1. \A p \in Pages : Space[asid][p] = Translate(t, p)
      BY <1>2 DEF Space, View
    <3> QED BY <1>6, <2>2, <3>1 DEF View
  <2> QED BY <2>1, <2>2, Zenon
<1>11. SpacesOfTables!MapRange(asid, va, n, flags)
  BY <1>7, <1>8, <1>9, <1>10, Zenon DEF SpacesOfTables!MapRange
<1> QED BY <1>1, <1>8, <1>11

\* No page is mapped after qos_vmm_reset.
LEMMA NothingMapped ==
    ASSUME NEW t, t = [s \in MapSlots |-> NoMapping]
    PROVE  Clean(t) /\ View(t) = [page \in Pages |-> SpacesOfTables!Unmapped]
<1>1. Clean(t)
  BY DEF Clean, MapTables, MapRecs, NoMapping
<1>2. \A page \in Pages : VmmFind(t, page) = {}
  BY DEF VmmFind, NoMapping
<1>3. \A page \in Pages : Translate(t, page) = SpacesOfTables!Unmapped
  BY <1>2 DEF Translate, SpacesOfTables!Unmapped
<1> QED BY <1>1, <1>3 DEF View

\* The address spaces are empty at first.
LEMMA VmmStarts == VmmInit => VmmInv /\ SpacesOfTables!AddressSpacesInit
<1> SUFFICES ASSUME VmmInit PROVE VmmInv /\ SpacesOfTables!AddressSpacesInit
  OBVIOUS
<1>1. PICK t : t = [s \in MapSlots |-> NoMapping]
  BY Zenon
<1>2. mappings = [asid \in Asids |-> t] /\ g_vmm_asid = 0 /\ asked = <<>>
  BY <1>1 DEF VmmInit
<1>3. 0 \in Asids
  BY VmmAssumption DEF Asids
<1>4. VmmInv
  BY <1>1, <1>2, <1>3, NothingMapped DEF VmmInv
<1>5. Space = [asid \in Asids |-> [page \in Pages |-> SpacesOfTables!Unmapped]]
  BY <1>1, <1>2, NothingMapped DEF Space
<1> QED BY <1>2, <1>4, <1>5 DEF SpacesOfTables!AddressSpacesInit

\* And again after a reset.
LEMMA VmmResetStep == VmmReset => VmmInv' /\ SpacesOfTables!Restart
<1> SUFFICES ASSUME VmmReset PROVE VmmInv' /\ SpacesOfTables!Restart
  OBVIOUS
<1>1. PICK t : t = [s \in MapSlots |-> NoMapping]
  BY Zenon
<1>2. mappings' = [asid \in Asids |-> t] /\ g_vmm_asid' = 0 /\ asked' = <<>>
  BY <1>1 DEF VmmReset
<1>3. 0 \in Asids
  BY VmmAssumption DEF Asids
<1>4. Clean(t) /\ View(t) = [page \in Pages |-> SpacesOfTables!Unmapped]
  BY <1>1, NothingMapped
<1>5. VmmInv'
  BY <1>2, <1>3, <1>4 DEF VmmInv, Clean, MapTables, MapSlots, MapRecs, Pages
<1>6. Space' = [asid \in Asids |-> [page \in Pages |-> SpacesOfTables!Unmapped]]
  BY <1>2, <1>4 DEF Space
<1> QED BY <1>2, <1>5, <1>6 DEF SpacesOfTables!Restart

\* Every call is a step of AddressSpaces or none, and keeps the invariant.
LEMMA VmmStep ==
    ASSUME VmmInv, [VmmNext]_vmmVars
    PROVE  VmmInv' /\ [SpacesOfTables!AddressSpacesNext]_(SpacesOfTables!spacesVars)
<1>1. CASE UNCHANGED vmmVars
  <2>1. UNCHANGED <<mappings, g_vmm_asid, asked>>
    BY <1>1 DEF vmmVars
  <2>2. VmmInv' /\ UNCHANGED Space
    BY <2>1 DEF VmmInv, Space, Clean, MapTables, MapSlots, MapRecs, Pages
  <2> QED BY <2>1, <2>2 DEF SpacesOfTables!spacesVars
<1>2. ASSUME NEW asid \in Asids, SetAsid(asid)
      PROVE  VmmInv' /\ UNCHANGED SpacesOfTables!spacesVars
  <2>1. UNCHANGED <<mappings, asked>> /\ g_vmm_asid' = asid
    BY <1>2 DEF SetAsid
  <2>2. UNCHANGED Space
    BY <2>1 DEF Space
  <2>3. \A a \in Asids : Clean(mappings[a])'
    <3> TAKE a \in Asids
    <3>1. Clean(mappings[a]) /\ mappings'[a] = mappings[a]
      BY <2>1 DEF VmmInv
    <3> QED BY <3>1 DEF Clean, MapTables, MapSlots, MapRecs, Pages
  <2>4. VmmInv'
    BY <2>1, <2>3 DEF VmmInv
  <2> QED BY <2>1, <2>2, <2>4 DEF SpacesOfTables!spacesVars
<1>3. ASSUME NEW asid \in Asids, NEW va \in Pages, NEW pa \in Frames, NEW flags \in Flags,
             MapAs(asid, va, pa, flags)
      PROVE  VmmInv' /\ SpacesOfTables!AddressSpacesNext
  BY <1>3, MapAsStep DEF SpacesOfTables!AddressSpacesNext
<1>4. Cardinality(Pages) = LastPage + 1 /\ LastPage \in Nat
  BY MapSlotsNat, FS_Interval DEF Pages
<1>5. ASSUME NEW asid \in Asids, NEW va \in Pages, UnmapAs(asid, va)
      PROVE  VmmInv' /\ SpacesOfTables!AddressSpacesNext
  <2>1. 1 \in 1 .. Cardinality(Pages)
    BY <1>4 DEF Pages
  <2>2. VmmInv' /\ SpacesOfTables!UnmapRange(asid, va, 1)
    BY <1>5, UnmapAsStep
  <2> QED BY <2>1, <2>2, SameOperators, Zenon DEF SpacesOfTables!AddressSpacesNext
<1>6. ASSUME NEW va \in Pages \ {0}, NEW n \in 1 .. LastPage - va + 1,
             Munmap(va, n) \/ \E flags \in Flags : Mmap(va, n, flags)
      PROVE  VmmInv' /\ SpacesOfTables!AddressSpacesNext
  <2>1. n \in 1 .. Cardinality(Pages) /\ g_vmm_asid \in Asids
    BY <1>4 DEF Pages, VmmInv
  <2>2. CASE Munmap(va, n)
    <3>1. VmmInv' /\ SpacesOfTables!UnmapRange(g_vmm_asid, va, n)
      BY <2>2, MunmapStep
    <3> QED BY <2>1, <3>1, SameOperators, Zenon DEF SpacesOfTables!AddressSpacesNext
  <2>3. CASE \E flags \in Flags : Mmap(va, n, flags)
    <3>1. PICK flags \in Flags : Mmap(va, n, flags)
      BY <2>3
    <3>2. VmmInv' /\ SpacesOfTables!MapRange(g_vmm_asid, va, n, flags)
      BY <3>1, MmapStep
    <3> QED BY <2>1, <3>2, SameOperators, Zenon DEF SpacesOfTables!AddressSpacesNext
  <2> QED BY <1>6, <2>2, <2>3
<1>7. CASE VmmReset
  BY <1>7, VmmResetStep DEF SpacesOfTables!AddressSpacesNext
<1>8. CASE VmmNext
  <2>1. VmmInv' /\ (SpacesOfTables!AddressSpacesNext \/ UNCHANGED SpacesOfTables!spacesVars)
    BY <1>2, <1>3, <1>5, <1>6, <1>7, <1>8 DEF VmmNext
  <2> QED BY <2>1
<1> QED BY <1>1, <1>8

\* The invariant holds after any sequence of calls: no page has two entries.
THEOREM VmmInvariant == VmmSpec => []VmmInv
<1>1. VmmInit => VmmInv
  BY VmmStarts
<1>2. VmmInv /\ [VmmNext]_vmmVars => VmmInv'
  BY VmmStep
<1> QED BY <1>1, <1>2, PTL DEF VmmSpec

\* The tables of mm.c implement separate partial maps of bounded size, mmap and munmap
\* with their loops and the roll-back included.
THEOREM VmmImplementsSpaces == VmmSpec => ImplementsSpaces
<1>1. VmmInit => SpacesOfTables!AddressSpacesInit
  BY VmmStarts
<1>2. VmmInv /\ [VmmNext]_vmmVars =>
         [SpacesOfTables!AddressSpacesNext]_(SpacesOfTables!spacesVars)
  BY VmmStep
<1> QED BY <1>1, <1>2, VmmInvariant, PTL
        DEF VmmSpec, ImplementsSpaces, SpacesOfTables!AddressSpaces
----------------------------------------------------------------------------
\* The usable entries of a boot memory map.
Entries == [base : Nat, length : Nat]

\* A page that lies wholly in an entry, at a multiple of the page size.
PageIn(f, entry) ==
    /\ f \in Nat /\ \E k \in Nat : f = k * PageSize
    /\ Inside(f, entry)

\* Tables of pages no longer than g_frames.
FrameTables == {q \in Seq(Nat) : Len(q) <= PmmMaxPages}

\* The products of the page size that the sums below need.
LEMMA Multiples ==
    ASSUME NEW P \in Nat \ {0}, NEW a \in Nat, NEW b \in Nat
    PROVE  /\ a * P \in Nat /\ (a + b) * P = a * P + b * P
           /\ a <= b => a * P <= b * P
           /\ a < b => a * P + P <= b * P
<1>1. \A c, d \in Nat : c * P \in Nat /\ (c + d) * P = c * P + d * P
  OBVIOUS
<1>2. a <= b => b - a \in Nat /\ a + (b - a) = b
  OBVIOUS
<1>3. a <= b => a * P <= b * P
  <2> HAVE a <= b
  <2>1. b * P = a * P + (b - a) * P /\ (b - a) * P \in Nat /\ a * P \in Nat
    BY <1>1, <1>2
  <2> QED BY <2>1
<1>4. ASSUME a < b PROVE a * P + P <= b * P
  <2>1. PICK c \in Nat : b = (a + 1) + c
    BY <1>4
  <2>2. b * P = (a + 1) * P + c * P /\ (a + 1) * P = a * P + 1 * P /\ 1 * P = P
    BY <1>1, <2>1
  <2>3. a * P \in Nat /\ c * P \in Nat
    BY <1>1
  <2> QED BY <2>2, <2>3
<1> QED BY <1>1, <1>3, <1>4

\* Rounding down to a multiple.
LEMMA RoundDown ==
    ASSUME NEW P \in Nat \ {0}, NEW x \in Nat
    PROVE  x \div P \in Nat /\ (x \div P) * P <= x /\ x < (x \div P) * P + P
OBVIOUS

\* pmm_add_range appends pages of the entry, each after the last, within the table.
LEMMA RangeAdded ==
    ASSUME NEW frames \in FrameTables, NEW entry \in Entries
    PROVE  \E n \in Nat, a \in Nat :
              /\ AddRange(frames, entry) = frames \o [i \in 1 .. n |-> (a + (i - 1)) * PageSize]
              /\ Len(frames) + n <= PmmMaxPages
              /\ \A i \in 1 .. n : PageIn((a + (i - 1)) * PageSize, entry)
<1>1. PageSize \in Nat \ {0} /\ PmmMaxPages \in Nat /\ entry.base \in Nat /\ entry.length \in Nat
  BY PmmAssumption DEF Entries
<1>2. Len(frames) \in Nat /\ Len(frames) <= PmmMaxPages
  BY DEF FrameTables
<1>3. PICK x \in Nat : x = entry.base + PageSize - 1
  BY <1>1
<1>4. PICK a \in Nat : a = x \div PageSize /\ x < a * PageSize + PageSize
  BY <1>1, RoundDown
<1>5. PICK start \in Nat : start = a * PageSize /\ AlignUp(entry.base) = start
  BY <1>1, <1>3, <1>4, Multiples DEF AlignUp
<1>6. entry.base <= start
  BY <1>1, <1>3, <1>4, <1>5
<1>7. PICK y \in Nat : y = entry.base + entry.length
  BY <1>1
<1>8. PICK end \in Nat : end = AlignDown(entry.base + entry.length) /\ end <= y
  <2>1. y \div PageSize \in Nat /\ (y \div PageSize) * PageSize <= y
    BY <1>1, RoundDown
  <2>2. (y \div PageSize) * PageSize \in Nat
    BY <1>1, <2>1, Multiples
  <2> QED BY <1>7, <2>1, <2>2 DEF AlignDown
<1>9. PICK q \in Nat : /\ q = IF end > start THEN (end - start) \div PageSize ELSE 0
                       /\ end > start => start + q * PageSize <= end
  <2>1. CASE end > start
    <3>1. end - start \in Nat
      BY <2>1
    <3>2. PICK q \in Nat : q = (end - start) \div PageSize /\ q * PageSize <= end - start
      BY <1>1, <3>1, RoundDown
    <3>3. q * PageSize \in Nat
      BY <1>1, Multiples
    <3>4. start + q * PageSize <= end
      BY <3>2, <3>3
    <3> QED BY <2>1, <3>2, <3>4
  <2>2. CASE ~ (end > start)
    BY <2>2
  <2> QED BY <2>1, <2>2
<1>10. PICK room \in Nat : room = PmmMaxPages - Len(frames)
  BY <1>1, <1>2
<1>11. PICK n : n = Min({q, room})
  OBVIOUS
<1>12. n \in Nat /\ n <= q /\ n <= room
  <2>1. PICK m \in {q, room} : \A k \in {q, room} : m <= k
    OBVIOUS
  <2>2. Min({q, room}) = m
    BY <2>1, MinIs
  <2> QED BY <1>11, <2>1, <2>2
<1>13. AddRange(frames, entry) = frames \o [i \in 1 .. n |-> start + (i - 1) * PageSize]
  BY <1>5, <1>8, <1>9, <1>10, <1>11 DEF AddRange
<1>14. ASSUME NEW i \in 1 .. n
       PROVE  /\ start + (i - 1) * PageSize = (a + (i - 1)) * PageSize
              /\ PageIn((a + (i - 1)) * PageSize, entry)
  <2>1. i - 1 \in Nat /\ i \in Nat /\ i - 1 < q /\ q # 0
    BY <1>12
  <2>2. (i - 1) * PageSize + PageSize <= q * PageSize /\ (i - 1) * PageSize \in Nat
    BY <1>1, <2>1, Multiples
  <2>3. start + (i - 1) * PageSize = (a + (i - 1)) * PageSize
    BY <1>1, <1>5, <2>1, Multiples
  <2>4. start + q * PageSize <= end /\ q * PageSize \in Nat
    BY <1>1, <1>9, <2>1, Multiples
  <2>5. PICK f \in Nat : f = start + (i - 1) * PageSize
    BY <2>2
  <2>6. entry.base <= f /\ f + PageSize <= y
    BY <1>1, <1>6, <1>8, <2>2, <2>4, <2>5
  <2>7. PageIn(f, entry)
    <3>1. a + (i - 1) \in Nat
      BY <2>1
    <3> QED BY <1>7, <2>3, <2>5, <2>6, <3>1 DEF PageIn, Inside
  <2> QED BY <2>3, <2>5, <2>7
<1>15. [i \in 1 .. n |-> start + (i - 1) * PageSize] = [i \in 1 .. n |-> (a + (i - 1)) * PageSize]
  BY <1>14
<1>16. Len(frames) + n <= PmmMaxPages
  BY <1>1, <1>2, <1>10, <1>12
<1> QED BY <1>12, <1>13, <1>14, <1>15, <1>16, Zenon

\* Two of the first k entries of the map offer the page.
OfferedTwice(f, map, k) ==
    \E e, h \in 1 .. k : e # h /\ PageIn(f, map[e]) /\ PageIn(f, map[h])

\* The frames are pages of the first k entries of the boot memory map, and distinct
\* but for those offered twice.
Found(q, map, k) ==
    /\ q \in FrameTables
    /\ \A i, j \in DOMAIN q : i # j /\ q[i] = q[j] => OfferedTwice(q[i], map, k)
    /\ \A i \in DOMAIN q : \E e \in 1 .. k : PageIn(q[i], map[e])

\* What the first k - 1 entries offer twice, the first k do.
LEMMA OfferedMore ==
    ASSUME NEW f, NEW map, NEW k \in Nat \ {0}, OfferedTwice(f, map, k - 1)
    PROVE  OfferedTwice(f, map, k)
<1>1. 1 .. k - 1 \subseteq 1 .. k
  OBVIOUS
<1> QED BY <1>1, Zenon DEF OfferedTwice

\* pmm_add_range keeps the table a table of pages.
LEMMA AddedTable ==
    ASSUME NEW frames \in FrameTables, NEW entry \in Entries
    PROVE  AddRange(frames, entry) \in FrameTables
<1>1. PICK n \in Nat, a \in Nat :
         /\ AddRange(frames, entry) = frames \o [i \in 1 .. n |-> (a + (i - 1)) * PageSize]
         /\ Len(frames) + n <= PmmMaxPages
         /\ \A i \in 1 .. n : PageIn((a + (i - 1)) * PageSize, entry)
  BY RangeAdded, Zenon
<1>2. PICK q : q = [i \in 1 .. n |-> (a + (i - 1)) * PageSize]
  BY Zenon
<1>3. q \in Seq(Nat) /\ Len(q) = n
  <2>1. \A i \in 1 .. n : (a + (i - 1)) * PageSize \in Nat
    BY <1>1, Zenon DEF PageIn
  <2> QED BY <1>2, <2>1
<1>4. frames \in Seq(Nat)
  BY DEF FrameTables
<1> QED BY <1>1, <1>2, <1>3, <1>4 DEF FrameTables

\* The turn of an entry adds pages of that entry only, each once.
LEMMA EntryAdded ==
    ASSUME NEW map \in Seq(Entries), NEW k \in 1 .. Len(map), NEW q, Found(q, map, k - 1)
    PROVE  Found(AddRange(q, map[k]), map, k)
<1>1. q \in FrameTables /\ map[k] \in Entries /\ k \in DOMAIN map
  BY DEF Found
<1>2. PICK n \in Nat, a \in Nat :
         /\ AddRange(q, map[k]) = q \o [i \in 1 .. n |-> (a + (i - 1)) * PageSize]
         /\ Len(q) + n <= PmmMaxPages
         /\ \A i \in 1 .. n : PageIn((a + (i - 1)) * PageSize, map[k])
  BY <1>1, RangeAdded, Zenon
<1>3. PICK new : new = [i \in 1 .. n |-> (a + (i - 1)) * PageSize]
  BY Zenon
<1>4. PICK r : r = AddRange(q, map[k])
  OBVIOUS
<1>5. r \in FrameTables
  BY <1>1, <1>4, AddedTable
<1>6. q \in Seq(Nat) /\ Len(q) \in Nat /\ DOMAIN q = 1 .. Len(q)
  BY <1>1 DEF FrameTables
<1>7. new \in Seq(Nat) /\ Len(new) = n
  <2>1. \A i \in 1 .. n : (a + (i - 1)) * PageSize \in Nat
    BY <1>2, Zenon DEF PageIn
  <2> QED BY <1>3, <2>1
<1>8. /\ DOMAIN r = 1 .. Len(q) + n
      /\ \A i \in 1 .. Len(q) : r[i] = q[i]
      /\ \A i \in Len(q) + 1 .. Len(q) + n : r[i] = new[i - Len(q)]
  BY <1>2, <1>3, <1>4, <1>6, <1>7
<1>9. ASSUME NEW i \in 1 .. Len(q)
      PROVE  \E e \in 1 .. k - 1 : PageIn(r[i], map[e])
  BY <1>6, <1>8, Zenon DEF Found
<1>10. ASSUME NEW i \in Len(q) + 1 .. Len(q) + n
       PROVE  PageIn(r[i], map[k]) /\ i - Len(q) \in 1 .. n
                /\ r[i] = (a + (i - Len(q) - 1)) * PageSize
  <2>1. i - Len(q) \in 1 .. n
    BY <1>6
  <2>2. r[i] = (a + (i - Len(q) - 1)) * PageSize
    <3>1. new[i - Len(q)] = (a + (i - Len(q) - 1)) * PageSize
      BY <1>3, <2>1
    <3> QED BY <1>8, <3>1
  <2> QED BY <1>2, <2>1, <2>2, Zenon
<1>11. \A i \in DOMAIN r : \E e \in 1 .. k : PageIn(r[i], map[e])
  <2> TAKE i \in DOMAIN r
  <2>1. CASE i \in 1 .. Len(q)
    <3>1. PICK e \in 1 .. k - 1 : PageIn(r[i], map[e])
      BY <1>9, <2>1
    <3>2. e \in 1 .. k
      OBVIOUS
    <3> QED BY <3>1, <3>2
  <2>2. CASE i \in Len(q) + 1 .. Len(q) + n
    BY <1>10, <2>2
  <2> QED BY <1>6, <1>8, <2>1, <2>2
<1>12. ASSUME NEW i \in 1 .. Len(q), NEW j \in Len(q) + 1 .. Len(q) + n, r[i] = r[j]
       PROVE  OfferedTwice(r[i], map, k)
  <2>1. PICK e \in 1 .. k - 1 : PageIn(r[i], map[e])
    BY <1>9
  <2>2. e \in 1 .. k /\ k \in 1 .. k /\ e # k
    OBVIOUS
  <2>3. PageIn(r[i], map[k])
    BY <1>10, <1>12
  <2> QED BY <2>1, <2>2, <2>3, Zenon DEF OfferedTwice
<1>13. ASSUME NEW i \in Len(q) + 1 .. Len(q) + n, NEW j \in Len(q) + 1 .. Len(q) + n, i < j
       PROVE  r[i] # r[j]
  <2>0. /\ a + (i - Len(q) - 1) \in Nat /\ a + (j - Len(q) - 1) \in Nat
        /\ a + (i - Len(q) - 1) < a + (j - Len(q) - 1)
    BY <1>6, <1>13
  <2>1. PICK x \in Nat, y \in Nat : x = a + (i - Len(q) - 1) /\ y = a + (j - Len(q) - 1) /\ x < y
    BY <2>0, Zenon
  <2>2. PageSize \in Nat \ {0}
    BY PmmAssumption
  <2>3. x * PageSize + PageSize <= y * PageSize /\ x * PageSize \in Nat
    BY <2>1, <2>2, Multiples, Zenon
  <2>4. x * PageSize # y * PageSize
    BY <2>2, <2>3
  <2> QED BY <1>10, <2>1, <2>4
<1>14. \A i, j \in DOMAIN r : i # j /\ r[i] = r[j] => OfferedTwice(r[i], map, k)
  <2> SUFFICES ASSUME NEW i \in DOMAIN r, NEW j \in DOMAIN r, i # j, r[i] = r[j]
               PROVE  OfferedTwice(r[i], map, k)
    OBVIOUS
  <2>1. /\ i \in 1 .. Len(q) \/ i \in Len(q) + 1 .. Len(q) + n
        /\ j \in 1 .. Len(q) \/ j \in Len(q) + 1 .. Len(q) + n
        /\ i \in Nat /\ j \in Nat
    BY <1>6, <1>8
  <2>2. CASE i \in 1 .. Len(q) /\ j \in 1 .. Len(q)
    <3>1. r[i] = q[i] /\ r[j] = q[j] /\ i \in DOMAIN q /\ j \in DOMAIN q
      BY <1>6, <1>8, <2>2
    <3>2. OfferedTwice(q[i], map, k - 1)
      BY <3>1, Zenon DEF Found
    <3> QED BY <3>1, <3>2, OfferedMore
  <2>3. CASE i \in Len(q) + 1 .. Len(q) + n /\ j \in Len(q) + 1 .. Len(q) + n
    <3>1. ~ (i < j) /\ ~ (j < i)
      BY <1>13, <2>3
    <3> QED BY <2>1, <3>1
  <2> QED BY <1>12, <2>1, <2>2, <2>3
<1> QED BY <1>4, <1>5, <1>11, <1>14 DEF Found

\* qos_pmm_init takes the entries of the map one after the other.
LEMMA InitRuns ==
    ASSUME NEW map \in Seq(Entries)
    PROVE  \E g : /\ g[0] = <<>> /\ FramesOf(map) = g[Len(map)]
                  /\ \A i \in 1 .. Len(map) : g[i] =
                        IF map[i].length >= PageSize THEN AddRange(g[i - 1], map[i]) ELSE g[i - 1]
<1> DEFINE P(g) == g = [i \in 0 .. Len(map) |->
                          IF i = 0 THEN <<>>
                          ELSE IF map[i].length >= PageSize THEN AddRange(g[i - 1], map[i])
                          ELSE g[i - 1]]
<1>1. PICK n \in Nat : n = Len(map) /\ \A i \in 1 .. n : map[i] \in Entries
  OBVIOUS
<1>2. PICK st : st = [i \in Nat |-> [q \in FrameTables |->
                         IF i \in 1 .. n /\ map[i].length >= PageSize
                         THEN AddRange(q, map[i]) ELSE q]]
  BY Zenon
<1>3. <<>> \in FrameTables
  BY PmmAssumption DEF FrameTables
<1>4. st \in [Nat -> [FrameTables -> FrameTables]]
  <2>1. \A i \in 1 .. n : \A q \in FrameTables : AddRange(q, map[i]) \in FrameTables
    BY <1>1, AddedTable
  <2> QED BY <1>2, <2>1
<1>5. PICK f : Turns(f, FrameTables, <<>>, n, st)
  BY <1>1, <1>3, <1>4, LoopRuns
<1>6. /\ f \in [0 .. n -> FrameTables] /\ f[0] = <<>>
      /\ \A i \in 1 .. n : f[i] = st[i][f[i - 1]]
  BY <1>5 DEF Turns
<1>7. \A i \in 1 .. n : f[i] =
         IF map[i].length >= PageSize THEN AddRange(f[i - 1], map[i]) ELSE f[i - 1]
  <2> TAKE i \in 1 .. n
  <2>1. i \in Nat /\ f[i - 1] \in FrameTables
    BY <1>1, <1>6
  <2> QED BY <1>2, <1>6, <2>1, Zenon
<1>8. P(f)
  BY <1>1, <1>6, <1>7
<1>9. PICK g : g = CHOOSE h : P(h)
  OBVIOUS
<1>10. P(g)
  BY <1>8, <1>9, Zenon
<1>11. FramesOf(map) = g[Len(map)]
  BY <1>9 DEF FramesOf
<1>12. /\ g[0] = <<>>
       /\ \A i \in 1 .. Len(map) : g[i] =
             IF map[i].length >= PageSize THEN AddRange(g[i - 1], map[i]) ELSE g[i - 1]
  BY <1>1, <1>10
<1> QED BY <1>11, <1>12

\* The pages it finds lie in the entries of the map, and none is there twice that only
\* one entry offers.
LEMMA FramesFound ==
    ASSUME NEW map \in Seq(Entries)
    PROVE  Found(FramesOf(map), map, Len(map))
<1>1. map \in Seq(Entries) /\ Len(map) \in Nat
  OBVIOUS
<1>2. PICK g : /\ g[0] = <<>> /\ FramesOf(map) = g[Len(map)]
               /\ \A i \in 1 .. Len(map) : g[i] =
                     IF map[i].length >= PageSize THEN AddRange(g[i - 1], map[i]) ELSE g[i - 1]
  BY <1>1, InitRuns
<1> DEFINE S == {i \in Nat : Found(g[i], map, i)}
<1>3. 0 \in S
  <2>1. PICK q \in Seq(Nat) : q = <<>> /\ Len(q) = 0
    <3>1. <<>> \in Seq(Nat) /\ Len(<<>>) = 0
      OBVIOUS
    <3> QED BY <3>1, Zenon
  <2>3. DOMAIN q = {}
    BY <2>1
  <2>2. Found(q, map, 0)
    BY <2>1, <2>3, PmmAssumption DEF Found, FrameTables
  <2> QED BY <1>2, <2>1, <2>2
<1>4. ASSUME NEW i \in 1 .. Len(map), i - 1 \in S PROVE i \in S
  <2>1. Found(g[i - 1], map, i - 1) /\ i \in Nat
    BY <1>1, <1>4
  <2>2. CASE map[i].length >= PageSize
    <3>1. g[i] = AddRange(g[i - 1], map[i])
      BY <1>2, <2>2
    <3> QED BY <2>1, <3>1, EntryAdded
  <2>3. CASE ~ (map[i].length >= PageSize)
    <3>1. g[i] = g[i - 1] /\ 1 .. i - 1 \subseteq 1 .. i /\ i \in Nat \ {0}
      BY <1>2, <2>1, <2>3
    <3>2. PICK q : q = g[i - 1] /\ Found(q, map, i - 1)
      BY <2>1
    <3>3. \A a, b \in DOMAIN q : a # b /\ q[a] = q[b] => OfferedTwice(q[a], map, i)
      BY <3>1, <3>2, OfferedMore DEF Found
    <3>4. \A a \in DOMAIN q : \E e \in 1 .. i : PageIn(q[a], map[e])
      BY <3>1, <3>2, Zenon DEF Found
    <3>5. Found(q, map, i)
      BY <3>2, <3>3, <3>4 DEF Found
    <3> QED BY <2>1, <3>1, <3>2, <3>5
  <2> QED BY <2>2, <2>3
<1> HIDE DEF S
<1>5. 0 .. Len(map) \subseteq S
  BY <1>1, <1>3, <1>4, LoopInduction, Zenon
<1>6. Len(map) \in S
  BY <1>1, <1>5
<1> QED BY <1>2, <1>6 DEF S

\* No reserved region holds the first byte of the page.
Open(page) == \A r \in reserved : ~ Within(page, r)

\* An entry of the table whose page has no other.
Single(i) == \A j \in DOMAIN g_frames : g_frames[i] = g_frames[j] => i = j

\* The inductive invariant of the pages.  g_frames is a table of pages of the boot memory
\* map and used has a mark for each; an entry loses the mark of a reserved region only
\* to a stray free, so that what callers get is open or stray; and what FramesAgree
\* says of the marks and of the count.
PmmInv ==
    /\ boot \in Seq(Entries) /\ Found(g_frames, boot, Len(boot))
    /\ reserved \subseteq Regions
    /\ used \in [DOMAIN g_frames -> BOOLEAN]
    /\ \A i \in DOMAIN g_frames : ~ used[i] => Open(g_frames[i]) \/ g_frames[i] \in stray
    /\ \A page \in given : /\ \E i \in DOMAIN g_frames : g_frames[i] = page
                           /\ Open(page) \/ page \in stray
    /\ \A i \in DOMAIN g_frames : Single(i) =>
          (used[i] <=> \/ g_frames[i] \in given
                       \/ ~ Open(g_frames[i]) /\ g_frames[i] \notin stray)
    /\ g_free_count = Cardinality({i \in DOMAIN g_frames : ~ used[i]})

\* What the table gives for any step.
LEMMA FrameFacts ==
    ASSUME PmmInv
    PROVE  /\ DOMAIN g_frames \subseteq Nat /\ IsFiniteSet(DOMAIN g_frames)
           /\ \A i \in DOMAIN g_frames : used[i] \in BOOLEAN
           /\ \A i \in DOMAIN g_frames : g_frames[i] \in Nat
<1>1. g_frames \in Seq(Nat)
  BY DEF PmmInv, Found, FrameTables
<1>2. DOMAIN g_frames = 1 .. Len(g_frames) /\ Len(g_frames) \in Nat
  BY <1>1
<1>3. IsFiniteSet(1 .. Len(g_frames))
  BY <1>2, FS_Interval
<1>4. \A i \in DOMAIN g_frames : g_frames[i] \in Nat
  BY <1>1
<1>5. \A i \in DOMAIN g_frames : used[i] \in BOOLEAN
  BY DEF PmmInv
<1> QED BY <1>2, <1>3, <1>4, <1>5

\* An open page is touched only by regions that begin in the middle of it.
LEMMA OpenTouched ==
    ASSUME NEW page \in Nat, NEW r \in Entries, ~ Within(page, r), Touches(page, r)
    PROVE  page < r.base
<1>1. r.base \in Nat /\ r.length \in Nat
  BY DEF Entries
<1> QED BY <1>1 DEF Within, Touches

\* The invariant is as strong as the property.
LEMMA PmmInvShows == PmmInv => FramesAgree
<1> SUFFICES ASSUME PmmInv PROVE FramesAgree
  OBVIOUS
<1>1. ASSUME NEW i \in DOMAIN g_frames, NEW j \in DOMAIN g_frames,
             i # j, g_frames[i] = g_frames[j]
      PROVE  \E e, f \in DOMAIN boot : /\ e # f /\ Inside(g_frames[i], boot[e])
                                       /\ Inside(g_frames[i], boot[f])
  <2>1. OfferedTwice(g_frames[i], boot, Len(boot))
    BY <1>1 DEF PmmInv, Found
  <2>2. DOMAIN boot = 1 .. Len(boot)
    BY DEF PmmInv
  <2> QED BY <2>1, <2>2, Zenon DEF OfferedTwice, PageIn
<1>2. ASSUME NEW i \in DOMAIN g_frames, Single(i)
      PROVE  used[i] <=> \/ g_frames[i] \in given
                         \/ /\ \E r \in reserved : Within(g_frames[i], r)
                            /\ g_frames[i] \notin stray
  BY <1>2 DEF PmmInv, Open
<1>3. ASSUME NEW page \in given
      PROVE  /\ \E i \in DOMAIN g_frames : g_frames[i] = page
             /\ \A r \in reserved : Touches(page, r) => page < r.base \/ page \in stray
  <2>1. PICK i \in DOMAIN g_frames : g_frames[i] = page
    BY DEF PmmInv
  <2>2. page \in Nat
    BY <2>1, FrameFacts
  <2>3. ASSUME NEW r \in reserved, Touches(page, r), page \notin stray
        PROVE  page < r.base
    <3>1. ~ Within(page, r)
      BY <2>3 DEF PmmInv, Open
    <3>2. r \in Entries
      BY PmmAssumption DEF PmmInv, Entries
    <3> QED BY <2>2, <2>3, <3>1, <3>2, OpenTouched
  <2> QED BY <2>1, <2>3
<1>4. g_free_count = Cardinality({i \in DOMAIN g_frames : ~ used[i]})
  BY DEF PmmInv
<1> QED BY <1>1, <1>2, <1>3, <1>4, Zenon DEF FramesAgree, Single

\* Pages of a boot memory map, of which the reserved ones are marked and the others counted.
Fresh(map, frames, regions, marks) ==
    /\ map \in Seq(Entries) /\ Found(frames, map, Len(map))
    /\ marks \in [DOMAIN frames -> BOOLEAN]
    /\ \A i \in DOMAIN frames : marks[i] <=> \E r \in regions : Within(frames[i], r)
    /\ FreeAfterReserve(frames, regions) = Cardinality({i \in DOMAIN frames : ~ marks[i]})

\* That is what qos_pmm_init leaves, also when it fails.
LEMMA FreshTable ==
    ASSUME NEW map \in MemoryMaps \cup {<<>>}, NEW frames, NEW regions, NEW marks,
           frames = FramesOf(map), marks = UsedAfterReserve(frames, regions)
    PROVE  Fresh(map, frames, regions, marks)
<1>1. map \in Seq(Entries)
  <2>1. <<>> \in Seq(Entries)
    OBVIOUS
  <2> QED BY <2>1, PmmAssumption, Zenon DEF Entries
<1>2. Found(frames, map, Len(map))
  BY <1>1, FramesFound
<1>3. /\ marks \in [DOMAIN frames -> BOOLEAN]
      /\ \A i \in DOMAIN frames : marks[i] <=> \E r \in regions : Within(frames[i], r)
  BY DEF UsedAfterReserve
<1>4. {i \in DOMAIN frames : \A r \in regions : ~ Within(frames[i], r)} =
         {i \in DOMAIN frames : ~ marks[i]}
  BY <1>3
<1> QED BY <1>1, <1>2, <1>3, <1>4, Zenon DEF FreeAfterReserve, Fresh

\* qos_pmm_init establishes the invariant.
LEMMA PmmStarts == PmmInit => PmmInv
<1> SUFFICES ASSUME PmmInit PROVE PmmInv
  OBVIOUS
<1>1. /\ boot \in MemoryMaps \cup {<<>>} /\ g_frames = FramesOf(boot)
      /\ used = UsedAfterReserve(g_frames, reserved)
      /\ g_free_count = FreeAfterReserve(g_frames, reserved)
      /\ reserved \subseteq Regions /\ given = {} /\ stray = {}
  BY DEF PmmInit
<1>2. Fresh(boot, g_frames, reserved, used)
  BY <1>1, FreshTable
<1> QED BY <1>1, <1>2 DEF Fresh, PmmInv, Open

\* So does a later one.
LEMMA PmmResetStep == PmmReset => PmmInv'
<1> SUFFICES ASSUME PmmReset PROVE PmmInv'
  OBVIOUS
<1>1. /\ boot' \in MemoryMaps \cup {<<>>} /\ g_frames' = FramesOf(boot')
      /\ used' = UsedAfterReserve(g_frames', reserved')
      /\ g_free_count' = FreeAfterReserve(g_frames', reserved')
      /\ reserved' \subseteq Regions /\ given' = {} /\ stray' = {}
  BY DEF PmmReset
<1>2. Fresh(boot', g_frames', reserved', used')
  BY <1>1, FreshTable
<1> QED BY <1>1, <1>2 DEF Fresh, PmmInv, Open

\* qos_pmm_alloc_page gives the page of an unused entry, which is open or stray.
LEMMA AllocStep == PmmInv /\ AllocPage => PmmInv'
<1> SUFFICES ASSUME PmmInv, AllocPage PROVE PmmInv'
  OBVIOUS
<1>1. PICK free : free = {i \in DOMAIN g_frames : ~ used[i]}
  BY Zenon
<1>2. PICK m : m = Min(free)
  OBVIOUS
<1>3. /\ free # {} /\ used' = [used EXCEPT ![m] = TRUE]
      /\ g_free_count' = g_free_count - 1 /\ given' = given \cup {g_frames[m]}
      /\ UNCHANGED <<g_frames, boot, reserved, stray>>
  BY <1>1, <1>2 DEF AllocPage
<1>4. m \in DOMAIN g_frames /\ ~ used[m] /\ m \in free
  <2>1. free \subseteq Nat
    BY <1>1, FrameFacts
  <2> QED BY <1>1, <1>2, <1>3, <2>1, MinIn
<1>5. /\ used' \in [DOMAIN g_frames -> BOOLEAN]
      /\ \A i \in DOMAIN g_frames : used'[i] <=> (used[i] \/ i = m)
  BY <1>3, <1>4 DEF PmmInv
<1>6. /\ \A i \in DOMAIN g_frames : ~ used[i] => Open(g_frames[i]) \/ g_frames[i] \in stray
      /\ \A page \in given : /\ \E i \in DOMAIN g_frames : g_frames[i] = page
                             /\ Open(page) \/ page \in stray
      /\ \A i \in DOMAIN g_frames : Single(i) =>
            (used[i] <=> \/ g_frames[i] \in given
                         \/ ~ Open(g_frames[i]) /\ g_frames[i] \notin stray)
      /\ g_free_count = Cardinality(free)
  BY <1>1 DEF PmmInv
<1>7. ASSUME NEW i \in DOMAIN g_frames, Single(i)
      PROVE  used'[i] <=> \/ g_frames[i] \in given'
                          \/ ~ Open(g_frames[i]) /\ g_frames[i] \notin stray
  <2>1. g_frames[i] \in given' <=> (g_frames[i] \in given \/ i = m)
    BY <1>3, <1>4, <1>7 DEF Single
  <2> QED BY <1>5, <1>6, <1>7, <2>1
<1>8. ASSUME NEW page \in given'
      PROVE  /\ \E i \in DOMAIN g_frames : g_frames[i] = page
             /\ Open(page) \/ page \in stray
  <2>1. page \in given \/ page = g_frames[m]
    BY <1>3
  <2> QED BY <1>4, <1>6, <2>1
<1>9. g_free_count' = Cardinality({i \in DOMAIN g_frames : ~ used'[i]})
  <2>1. {i \in DOMAIN g_frames : ~ used'[i]} = free \ {m}
    BY <1>1, <1>5
  <2>2. IsFiniteSet(free)
    BY <1>1, FrameFacts, FS_Subset
  <2>3. Cardinality(free \ {m}) = Cardinality(free) - 1
    BY <1>4, <2>2, FS_RemoveElement
  <2> QED BY <1>3, <1>6, <2>1, <2>3, Zenon
<1>10. \A i \in DOMAIN g_frames : ~ used'[i] => Open(g_frames[i]) \/ g_frames[i] \in stray
  BY <1>5, <1>6
<1>11. /\ \A page : Open(page)' <=> Open(page)
       /\ \A i : Single(i)' <=> Single(i)
  BY <1>3 DEF Open, Single
<1>12. boot \in Seq(Entries) /\ Found(g_frames, boot, Len(boot)) /\ reserved \subseteq Regions
  BY DEF PmmInv
<1> QED BY <1>3, <1>5, <1>7, <1>8, <1>9, <1>10, <1>11, <1>12, Zenon DEF PmmInv

\* qos_pmm_free_page clears the mark of the first entry of the page; if no caller had the
\* page, it is stray from now on.
LEMMA FreeStep ==
    ASSUME NEW n \in DOMAIN g_frames, PmmInv, FreePage(g_frames[n])
    PROVE  PmmInv'
<1>0. PICK page : page = g_frames[n]
  OBVIOUS
<1>1. PICK at : at = {i \in DOMAIN g_frames : g_frames[i] = page}
  BY Zenon
<1>2. PICK m : m = Min(at)
  OBVIOUS
<1>3. /\ used[m] /\ used' = [used EXCEPT ![m] = FALSE]
      /\ g_free_count' = g_free_count + 1 /\ given' = given \ {page}
      /\ stray' = stray \cup ({page} \ given)
      /\ UNCHANGED <<g_frames, boot, reserved>>
  BY <1>0, <1>1, <1>2 DEF FreePage
<1>4. m \in DOMAIN g_frames /\ g_frames[m] = page
  <2>1. at # {} /\ at \subseteq Nat
    BY <1>0, <1>1, FrameFacts
  <2>2. Min(at) \in at
    BY <2>1, MinIn, Zenon
  <2> QED BY <1>1, <1>2, <2>2
<1>5. /\ used' \in [DOMAIN g_frames -> BOOLEAN]
      /\ \A i \in DOMAIN g_frames : used'[i] <=> (used[i] /\ i # m)
  BY <1>3, <1>4 DEF PmmInv
<1>6. /\ \A i \in DOMAIN g_frames : ~ used[i] => Open(g_frames[i]) \/ g_frames[i] \in stray
      /\ \A p \in given : /\ \E i \in DOMAIN g_frames : g_frames[i] = p
                          /\ Open(p) \/ p \in stray
      /\ \A i \in DOMAIN g_frames : Single(i) =>
            (used[i] <=> \/ g_frames[i] \in given
                         \/ ~ Open(g_frames[i]) /\ g_frames[i] \notin stray)
      /\ g_free_count = Cardinality({i \in DOMAIN g_frames : ~ used[i]})
  BY DEF PmmInv
<1>7. Open(page) \/ page \in stray'
  BY <1>3, <1>6
<1>8. ASSUME NEW i \in DOMAIN g_frames, Single(i)
      PROVE  used'[i] <=> \/ g_frames[i] \in given'
                          \/ ~ Open(g_frames[i]) /\ g_frames[i] \notin stray'
  <2>1. CASE i = m
    BY <1>3, <1>4, <1>5, <1>7, <2>1
  <2>2. CASE i # m
    <3>1. g_frames[i] # page
      BY <1>4, <1>8, <2>2 DEF Single
    <3>2. /\ g_frames[i] \in given' <=> g_frames[i] \in given
          /\ g_frames[i] \in stray' <=> g_frames[i] \in stray
      BY <1>3, <3>1
    <3> QED BY <1>5, <1>6, <1>8, <2>2, <3>2
  <2> QED BY <2>1, <2>2
<1>9. ASSUME NEW p \in given'
      PROVE  /\ \E i \in DOMAIN g_frames : g_frames[i] = p
             /\ Open(p) \/ p \in stray'
  BY <1>3, <1>6
<1>10. ASSUME NEW i \in DOMAIN g_frames, ~ used'[i]
       PROVE  Open(g_frames[i]) \/ g_frames[i] \in stray'
  BY <1>3, <1>4, <1>5, <1>6, <1>7, <1>10
<1>11. g_free_count' = Cardinality({i \in DOMAIN g_frames : ~ used'[i]})
  <2>1. PICK free : free = {i \in DOMAIN g_frames : ~ used[i]}
    BY Zenon
  <2>2. {i \in DOMAIN g_frames : ~ used'[i]} = free \cup {m} /\ m \notin free
    BY <1>3, <1>4, <1>5, <2>1
  <2>3. IsFiniteSet(free)
    BY <2>1, FrameFacts, FS_Subset
  <2>4. Cardinality(free \cup {m}) = Cardinality(free) + 1
    BY <2>2, <2>3, FS_AddElement, Zenon
  <2> QED BY <1>3, <1>6, <2>1, <2>2, <2>4, Zenon
<1>12. /\ \A p : Open(p)' <=> Open(p)
       /\ \A i : Single(i)' <=> Single(i)
  BY <1>3 DEF Open, Single
<1>13. boot \in Seq(Entries) /\ Found(g_frames, boot, Len(boot)) /\ reserved \subseteq Regions
  BY DEF PmmInv
<1> QED BY <1>3, <1>5, <1>8, <1>9, <1>10, <1>11, <1>12, <1>13, Zenon DEF PmmInv

\* Every step of the page allocator keeps the invariant.
LEMMA PmmStep == PmmInv /\ [PmmNext]_pmmVars => PmmInv'
<1> SUFFICES ASSUME PmmInv, [PmmNext]_pmmVars PROVE PmmInv'
  OBVIOUS
<1>1. CASE AllocPage
  BY <1>1, AllocStep
<1>2. CASE \E i \in DOMAIN g_frames : FreePage(g_frames[i])
  BY <1>2, FreeStep
<1>3. CASE PmmReset
  BY <1>3, PmmResetStep
<1>4. CASE UNCHANGED pmmVars
  BY <1>4 DEF pmmVars, PmmInv, Open, Single
<1> QED BY <1>1, <1>2, <1>3, <1>4 DEF PmmNext

\* The page tables keep their inductive invariant in every behaviour of qos_pmm_init,
\* qos_pmm_alloc_page and qos_pmm_free_page.
THEOREM PmmInvariant == PmmSpec => []PmmInv
<1> QED BY PmmStarts, PmmStep, PTL DEF PmmSpec

\* The table, its marks and the free count agree with the boot memory map and with what
\* callers did (mm.c:46-165), for every map, overlapping entries included, every page
\* size and every set of reserved regions: a page is listed twice only if two entries
\* offer it, and what callers have without a free of a reserved page touches a reserved
\* region only where one begins in the middle of the page.
THEOREM PmmFramesAgree == PmmSpec => []FramesAgree
BY PmmInvShows, PmmInvariant, PTL

\* A page a caller has from qos_pmm_alloc_page begins at a multiple of the page size, the
\* test of qos_pmm_free_page, and lies wholly in a usable entry of the boot memory map of
\* the last qos_pmm_init.
GivenUsable ==
    \A page \in given : \E e \in DOMAIN boot : PageIn(page, boot[e])

\* Whatever is allocated, freed or reset, no caller has memory that the boot memory map
\* does not offer.
THEOREM PmmGivenUsable == PmmSpec => []GivenUsable
<1>1. ASSUME PmmInv PROVE GivenUsable
  <2> SUFFICES ASSUME NEW page \in given
               PROVE  \E e \in DOMAIN boot : PageIn(page, boot[e])
    BY DEF GivenUsable
  <2>1. PICK i \in DOMAIN g_frames : g_frames[i] = page
    BY <1>1 DEF PmmInv
  <2>2. PICK e \in 1 .. Len(boot) : PageIn(page, boot[e])
    BY <1>1, <2>1 DEF PmmInv, Found
  <2>3. DOMAIN boot = 1 .. Len(boot)
    BY <1>1 DEF PmmInv
  <2> QED BY <2>2, <2>3
<1> QED BY <1>1, PmmInvariant, PTL
============================================================================
