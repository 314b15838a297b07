---------------------------- MODULE AddressSpaces ----------------------------
(***************************************************************************)
(* What the mapping calls of c-os/kernel/mm/mm.c and the mmap and munmap    *)
(* system calls promise: address spaces are separate partial maps from      *)
(* pages to frames, of bounded size, and a call does what it was asked for. *)
(***************************************************************************)
EXTENDS Naturals, FiniteSetsExt

CONSTANTS Asids, Pages, Frames, Flags, MaxMappings

VARIABLES space,     \* space[asid][page] is [pa, flags], or Unmapped
          asked      \* the last call

spacesVars == <<space, asked>>

Unmapped == [pa |-> 0, flags |-> 0]
MappedIn(m) == {page \in Pages : m[page] # Unmapped}

Without(m, some) == [page \in Pages |-> IF page \in some THEN Unmapped ELSE m[page]]

AddressSpacesInit ==
    /\ space = [asid \in Asids |-> [page \in Pages |-> Unmapped]]
    /\ asked = <<>>

MapPage(asid, page, pa, flags) ==
    /\ asked' = <<"map", asid, page, pa, flags>>
    /\ Cardinality(MappedIn(space[asid]) \cup {page}) <= MaxMappings
    /\ space' = [space EXCEPT ![asid][page] = [pa |-> pa, flags |-> flags]]

\* The pages from page on that are mapped are unmapped, up to the first that is not.
UnmapRange(asid, page, n) ==
    /\ asked' = <<"unmap", asid, page, n>>
    /\ LET cut == {p \in page .. page + n - 1 : page .. p \subseteq MappedIn(space[asid])}
       IN  space' = [space EXCEPT ![asid] = Without(@, cut)]

\* Each page of the range is mapped to the frame of its number; or there is no
\* room for one of them, and those before the first of these are not mapped.
MapRange(asid, page, n, flags) ==
    /\ asked' = <<"mmap", asid, page, n, flags>>
    /\ LET m == space[asid]
           range == page .. page + n - 1
           full == {p \in range \ MappedIn(m) :
                       Cardinality(MappedIn(m) \cup (page .. p)) > MaxMappings}
       IN  space' = [space EXCEPT ![asid] =
              IF full # {} THEN Without(m, page .. Min(full) - 1)
              ELSE [p \in Pages |-> IF p \in range THEN [pa |-> p, flags |-> flags] ELSE m[p]]]

Restart ==
    /\ asked' = <<>>
    /\ space' = [asid \in Asids |-> [page \in Pages |-> Unmapped]]

AddressSpacesNext ==
    \/ \E asid \in Asids, page \in Pages :
          \/ \E flags \in Flags, pa \in Frames : MapPage(asid, page, pa, flags)
          \/ \E n \in 1 .. Cardinality(Pages) :
                \/ UnmapRange(asid, page, n)
                \/ \E flags \in Flags : MapRange(asid, page, n, flags)
    \/ Restart

AddressSpaces == AddressSpacesInit /\ [][AddressSpacesNext]_spacesVars
============================================================================
