--------------------------------- MODULE Pmm ---------------------------------
(***************************************************************************)
(* The physical pages of c-os/kernel/mm/mm.c: qos_pmm_init builds the table *)
(* from the boot memory map, and callers allocate and free pages.           *)
(*                                                                         *)
(* A boot memory map is the sequence of its usable entries, which may       *)
(* overlap: the code does not look.  The empty one stands for a boot_info   *)
(* that is rejected.  Callers may free any page of the table.               *)
(***************************************************************************)
EXTENDS Naturals, Sequences, FiniteSetsExt

CONSTANTS PageSize,       \* QOS_PAGE_SIZE
          PmmMaxPages,    \* QOS_PMM_MAX_PAGES
          MemoryMaps,     \* boot memory maps: sequences of usable [base, length]
          Regions         \* [base, length] of what may have to be reserved

ASSUME PmmAssumption ==
    /\ PageSize \in Nat \ {0} /\ PmmMaxPages \in Nat
    /\ Regions \subseteq [base : Nat, length : Nat]
    /\ MemoryMaps \subseteq Seq([base : Nat, length : Nat])

VARIABLES g_frames, used, g_free_count,
          boot,           \* history: the memory map of the last qos_pmm_init
          reserved,       \* history: the regions it was told of
          given,          \* history: the pages callers have
          stray           \* history: the pages freed by callers that did not have them

pmmVars == <<g_frames, used, g_free_count, boot, reserved, given, stray>>

AlignUp(x) == ((x + PageSize - 1) \div PageSize) * PageSize
AlignDown(x) == (x \div PageSize) * PageSize

Within(x, range) == x >= range.base /\ x < range.base + range.length

\* pmm_add_range: the whole pages of the entry, as far as the table goes
AddRange(frames, entry) ==
    LET start == AlignUp(entry.base)
        end == AlignDown(entry.base + entry.length)
        n == Min({IF end > start THEN (end - start) \div PageSize ELSE 0,
                  PmmMaxPages - Len(frames)})
    IN  frames \o [i \in 1 .. n |-> start + (i - 1) * PageSize]

\* Mutant: pages in two reserved regions are taken off the count twice.
FreeAfterReserveTwice(frames, regions) ==
    Len(frames) - FoldSet(LAMBDA r, n : n + Cardinality({i \in DOMAIN frames : Within(frames[i], r)}),
                          0, regions)

\* pmm_reserve_range for each region: an entry counts once
FreeAfterReserve(frames, regions) ==
    Cardinality({i \in DOMAIN frames : \A r \in regions : ~ Within(frames[i], r)})

\* The table qos_pmm_init builds, without the entries shorter than a page.
FramesOf(map) ==
    LET run[i \in 0 .. Len(map)] ==
            IF i = 0 THEN <<>>
            ELSE IF map[i].length >= PageSize THEN AddRange(run[i - 1], map[i])
            ELSE run[i - 1]
    IN  run[Len(map)]

\* g_used after pmm_reserve_range for each region
UsedAfterReserve(frames, regions) ==
    [i \in DOMAIN frames |-> \E r \in regions : Within(frames[i], r)]

\* qos_pmm_init; with no page to be had it fails before it reserves anything and
\* leaves an empty table
PmmInit ==
    /\ boot \in MemoryMaps \cup {<<>>}
    /\ g_frames = FramesOf(boot)
    /\ reserved \in SUBSET Regions /\ (g_frames = <<>> => reserved = {})
    /\ used = UsedAfterReserve(g_frames, reserved)
    /\ g_free_count = FreeAfterReserve(g_frames, reserved)
    /\ given = {} /\ stray = {}

\* qos_pmm_init again, from a later kernel_entry
PmmReset ==
    /\ boot' \in MemoryMaps \cup {<<>>}
    /\ g_frames' = FramesOf(boot')
    /\ reserved' \in SUBSET Regions /\ (g_frames' = <<>> => reserved' = {})
    /\ used' = UsedAfterReserve(g_frames', reserved')
    /\ g_free_count' = FreeAfterReserve(g_frames', reserved')
    /\ given' = {} /\ stray' = {}

\* qos_pmm_alloc_page
AllocPage ==
    LET free == {i \in DOMAIN g_frames : ~ used[i]} IN
    /\ free # {}
    /\ used' = [used EXCEPT ![Min(free)] = TRUE]
    /\ g_free_count' = g_free_count - 1
    /\ given' = given \cup {g_frames[Min(free)]}
    /\ UNCHANGED <<g_frames, boot, reserved, stray>>

\* qos_pmm_free_page: the first entry of the page, whoever marked it
FreePage(page) ==
    LET entry == Min({i \in DOMAIN g_frames : g_frames[i] = page}) IN
    /\ used[entry]
    /\ used' = [used EXCEPT ![entry] = FALSE]
    /\ g_free_count' = g_free_count + 1
    /\ given' = given \ {page}
    /\ stray' = stray \cup ({page} \ given)
    /\ UNCHANGED <<g_frames, boot, reserved>>

PmmNext ==
    \/ AllocPage
    \/ \E i \in DOMAIN g_frames : FreePage(g_frames[i])
    \/ PmmReset

PmmSpec == PmmInit /\ [][PmmNext]_pmmVars
----------------------------------------------------------------------------
\* The page lies wholly in a range, or has a byte of it.
Inside(page, range) ==
    range.base <= page /\ page + PageSize <= range.base + range.length
Touches(page, range) ==
    range.base < page + PageSize /\ page < range.base + range.length

\* The table, its marks and the count agree with what the boot map offers and what
\* callers did, although entries and regions may overlap and begin or end anywhere
\* (mm.c:46-165).  A page is listed twice, and so handed out twice, only if two
\* entries of the map offer it.  A page listed once is in use exactly if a caller
\* has it, or a reserved region holds its first byte and no caller freed it all the
\* same.  A page that callers have got without such a free is outside every
\* reserved region but one that begins in the middle of it (ReservedNotGiven is
\* about those).  The free count is the number of unused entries.
FramesAgree ==
    /\ \A i, j \in DOMAIN g_frames :
          i # j /\ g_frames[i] = g_frames[j]
          => \E e, f \in DOMAIN boot : /\ e # f
                                       /\ Inside(g_frames[i], boot[e])
                                       /\ Inside(g_frames[i], boot[f])
    /\ \A i \in DOMAIN g_frames :
          (\A j \in DOMAIN g_frames : g_frames[i] = g_frames[j] => i = j)
          => (used[i] <=> \/ g_frames[i] \in given
                          \/ /\ \E r \in reserved : Within(g_frames[i], r)
                             /\ g_frames[i] \notin stray)
    /\ \A page \in given :
          /\ \E i \in DOMAIN g_frames : g_frames[i] = page
          /\ \A r \in reserved : Touches(page, r) => page < r.base \/ page \in stray
    /\ g_free_count = Cardinality({i \in DOMAIN g_frames : ~ used[i]})

\* The design document reserves the ranges of the kernel image and of the initramfs
\* and the page of boot_info (docs/superpowers/specs/2026-03-11-qos-design.md:229-230):
\* no page callers get has a byte of a reserved region, unless a caller freed it
\* before.  pmm_reserve_range tests the first byte of a page only (mm.c:69).
ReservedNotGiven ==
    \A page \in given \ stray : \A r \in reserved : ~ Touches(page, r)
============================================================================
