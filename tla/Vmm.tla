--------------------------------- MODULE Vmm ---------------------------------
(***************************************************************************)
(* The mappings of c-os/kernel/mm/mm.c and the mmap and munmap system calls *)
(* of c-os/kernel/syscall/syscall.c.                                        *)
(*                                                                         *)
(* Addresses are page numbers, and a length is a number of pages: an        *)
(* unaligned address and zero flags are rejected, and a rejected call       *)
(* changes nothing and is no step.  Page 0 can be mapped, and mapped to, by *)
(* qos_vmm_map_as; mmap and munmap reject it.                               *)
(***************************************************************************)
EXTENDS Naturals, FiniteSetsExt

CONSTANTS MaxAs,          \* QOS_VMM_MAX_AS
          MaxMappings,    \* QOS_VMM_MAX_MAPPINGS
          LastPage,       \* bound: the last page callers use
          Frames,         \* the pages callers of qos_vmm_map_as map to
          Flags           \* without 0

ASSUME VmmAssumption ==
    /\ MaxAs \in Nat \ {0} /\ {MaxMappings, LastPage} \subseteq Nat
    /\ Flags \subseteq Nat \ {0} /\ Frames \subseteq Nat

VARIABLES mappings,       \* g_vused, g_vas, g_pas and g_vflags
          g_vmm_asid,
          asked           \* history: the last call

vmmVars == <<mappings, g_vmm_asid, asked>>

Asids == 0 .. MaxAs - 1
MapSlots == 0 .. MaxMappings - 1
Pages == 0 .. LastPage

NoMapping == [used |-> FALSE, va |-> 0, pa |-> 0, flags |-> 0]

VmmInit ==
    /\ mappings = [asid \in Asids |-> [s \in MapSlots |-> NoMapping]]
    /\ g_vmm_asid = 0
    /\ asked = <<>>
----------------------------------------------------------------------------
\* vmm_find and vmm_free_slot in the table t of one address space
VmmFind(t, va) == {s \in MapSlots : t[s].used /\ t[s].va = va}
VmmFree(t) == {s \in MapSlots : ~ t[s].used}

MayMap(t, va) == VmmFind(t, va) # {} \/ VmmFree(t) # {}

\* Mutant: a page that is mapped already gets a second entry.
MappedAgain(t, va, pa, flags) ==
    [t EXCEPT ![Min(IF VmmFree(t) # {} THEN VmmFree(t) ELSE VmmFind(t, va))] =
        [used |-> TRUE, va |-> va, pa |-> pa, flags |-> flags]]

\* qos_vmm_map_as: the entry of the page, else the first free one
Mapped(t, va, pa, flags) ==
    [t EXCEPT ![Min(IF VmmFind(t, va) # {} THEN VmmFind(t, va) ELSE VmmFree(t))] =
        [used |-> TRUE, va |-> va, pa |-> pa, flags |-> flags]]

\* qos_vmm_unmap_as, without effect on a page that is not mapped
Cut(t, va) ==
    IF VmmFind(t, va) = {} THEN t ELSE [t EXCEPT ![Min(VmmFind(t, va))] = NoMapping]

\* qos_vmm_set_asid
SetAsid(asid) == g_vmm_asid' = asid /\ UNCHANGED <<mappings, asked>>

MapAs(asid, va, pa, flags) ==
    /\ asked' = <<"map", asid, va, pa, flags>>
    /\ MayMap(mappings[asid], va)
    /\ mappings' = [mappings EXCEPT ![asid] = Mapped(@, va, pa, flags)]
    /\ UNCHANGED g_vmm_asid

UnmapAs(asid, va) ==
    /\ asked' = <<"unmap", asid, va, 1>>
    /\ VmmFind(mappings[asid], va) # {}
    /\ mappings' = [mappings EXCEPT ![asid] = Cut(@, va)]
    /\ UNCHANGED g_vmm_asid
----------------------------------------------------------------------------
\* The table after a loop that unmaps the n pages from va on
CutPages(t, va, n) ==
    LET run[i \in 0 .. n] == IF i = 0 THEN t ELSE Cut(run[i - 1], va + i - 1)
    IN  run[n]

\* The tables after each turn of the loop of mmap, which gets as far as there is room
MapPages(t, va, n, flags) ==
    LET run[i \in 0 .. n] ==
            IF i = 0 THEN t
            ELSE IF MayMap(run[i - 1], va + i - 1)
            THEN Mapped(run[i - 1], va + i - 1, va + i - 1, flags)
            ELSE run[i - 1]
    IN  run

\* mmap; a page without room ends it with the pages before it unmapped, also
\* those that were mapped before the call
MmapTable(t, va, n, flags) ==
    LET run == MapPages(t, va, n, flags)
        stuck == {i \in 0 .. n - 1 : ~ MayMap(run[i], va + i)}
    IN  IF stuck = {} THEN run[n] ELSE CutPages(run[Min(stuck)], va, Min(stuck))

Mmap(va, n, flags) ==
    /\ asked' = <<"mmap", g_vmm_asid, va, n, flags>>
    /\ mappings' = [mappings EXCEPT ![g_vmm_asid] = MmapTable(@, va, n, flags)]
    /\ UNCHANGED g_vmm_asid

\* munmap stops at the first page that is not mapped; what it did stays done
MunmapTable(t, va, n) ==
    LET unmapped == {page \in va .. va + n - 1 : VmmFind(t, page) = {}}
    IN  CutPages(t, va, IF unmapped = {} THEN n ELSE Min(unmapped) - va)

Munmap(va, n) ==
    /\ asked' = <<"unmap", g_vmm_asid, va, n>>
    /\ mappings' = [mappings EXCEPT ![g_vmm_asid] = MunmapTable(@, va, n)]
    /\ UNCHANGED g_vmm_asid

\* qos_vmm_reset, from a later kernel_entry
VmmReset ==
    /\ asked' = <<>>
    /\ mappings' = [asid \in Asids |-> [s \in MapSlots |-> NoMapping]]
    /\ g_vmm_asid' = 0
----------------------------------------------------------------------------
VmmNext ==
    \/ \E asid \in Asids : SetAsid(asid)
    \/ \E asid \in Asids, va \in Pages, pa \in Frames, flags \in Flags :
          MapAs(asid, va, pa, flags)
    \/ \E asid \in Asids, va \in Pages : UnmapAs(asid, va)
    \/ \E va \in Pages \ {0} : \E n \in 1 .. LastPage - va + 1 :
          Munmap(va, n) \/ \E flags \in Flags : Mmap(va, n, flags)
    \/ VmmReset

VmmSpec == VmmInit /\ [][VmmNext]_vmmVars
----------------------------------------------------------------------------
\* qos_vmm_translate_as and qos_vmm_flags_as
Translate(t, va) ==
    LET found == VmmFind(t, va)
    IN  IF found = {} THEN [pa |-> 0, flags |-> 0]
        ELSE [pa |-> t[Min(found)].pa, flags |-> t[Min(found)].flags]

\* What a table and the tables translate each page to.
View(t) == [page \in Pages |-> Translate(t, page)]
Space == [asid \in Asids |-> View(mappings[asid])]
SpacesOfTables == INSTANCE AddressSpaces WITH space <- Space

\* The tables implement AddressSpaces: what is translated is what was mapped
\* last (no page has a stale second entry that an unmap would uncover), a call
\* touches one address space, an entry is free again after its unmap, and mmap
\* takes all pages or gives up only for want of room.
ImplementsSpaces == SpacesOfTables!AddressSpaces
============================================================================
