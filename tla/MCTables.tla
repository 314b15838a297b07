------------------------------- MODULE MCTables ------------------------------
(***************************************************************************)
(* Small instances of Files, Libraries, Vmm and Pmm for TLC.                *)
(*                                                                         *)
(* focus is the part the callers of a behaviour use: the parts share no     *)
(* state and no property relates two of them, so exploring them one at a    *)
(* time loses nothing.                                                      *)
(***************************************************************************)
EXTENDS Files, Libraries, Vmm, Pmm, TLC

VARIABLE focus

vars == <<nodes, files, pipes, fds, shlibs, modules, g_shlib_next_handle,
          g_module_next_id, opens, mappings, g_vmm_asid, asked, g_frames,
          used, g_free_count, boot, reserved, given, stray, focus>>

\* Nothing tells one path from another, and no property is a liveness property.
MCSymmetry == Permutations(Paths) \cup Permutations(LibPaths)

MCMemoryMaps ==
    {<<[base |-> 1, length |-> 5], [base |-> 6, length |-> 1], [base |-> 8, length |-> 7]>>,
     <<[base |-> 9, length |-> 6], [base |-> 2, length |-> 4]>>,
     <<[base |-> 2, length |-> 5], [base |-> 4, length |-> 5]>>}
MCRegions == {[base |-> 0, length |-> 3], [base |-> 4, length |-> 1], [base |-> 2, length |-> 4],
              [base |-> 9, length |-> 2]}

MCInit ==
    /\ FilesInit /\ LibrariesInit /\ VmmInit /\ PmmInit
    /\ focus \in {"files", "libraries", "vmm", "pmm"}
    /\ focus # "pmm" => boot = <<>>

MCNext ==
    \/ /\ focus = "files" /\ FilesNext
       /\ UNCHANGED <<shlibs, modules, g_shlib_next_handle, g_module_next_id, opens, mappings,
                      g_vmm_asid, asked, g_frames, used, g_free_count, boot, reserved, given,
                      stray, focus>>
    \/ /\ focus = "libraries" /\ LibrariesNext
       /\ UNCHANGED <<nodes, files, pipes, fds, mappings, g_vmm_asid, asked, g_frames, used,
                      g_free_count, boot, reserved, given, stray, focus>>
    \/ /\ focus = "vmm" /\ VmmNext
       /\ UNCHANGED <<nodes, files, pipes, fds, shlibs, modules, g_shlib_next_handle,
                      g_module_next_id, opens, g_frames, used, g_free_count, boot, reserved,
                      given, stray, focus>>
    \/ /\ focus = "pmm" /\ PmmNext
       /\ UNCHANGED <<nodes, files, pipes, fds, shlibs, modules, g_shlib_next_handle,
                      g_module_next_id, opens, mappings, g_vmm_asid, asked, focus>>

MCSpec == MCInit /\ [][MCNext]_vars
============================================================================
