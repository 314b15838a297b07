------------------------------ MODULE Libraries ------------------------------
(***************************************************************************)
(* Shared libraries and kernel modules of c-os/kernel/syscall/syscall.c: a  *)
(* table of loaded images, which dlopen and modules share by counting, and  *)
(* the table of modules.                                                    *)
(*                                                                         *)
(* Whether the file at a path is a loadable image is the callers' affair: a *)
(* load may always fail, and then changes nothing.  Callers close a handle  *)
(* as often as they got it from dlopen.  Handles and module numbers stay    *)
(* below MaxLoads, where neither wraps nor looks like an error.             *)
(***************************************************************************)
EXTENDS Integers, FiniteSets, FiniteSetsExt

CONSTANTS LibPaths,
          ShlibMax,       \* QOS_SHLIB_MAX
          ModuleMax,      \* QOS_MODULE_MAX
          MaxLoads,       \* bound on the handles, and on the module numbers
          MaxOpens        \* bound on the open handles of the callers

ASSUME LibrariesAssumption ==
    {ShlibMax, ModuleMax, MaxLoads} \subseteq Nat /\ MaxOpens \in Nat \ {0}

VARIABLES shlibs,         \* the g_shlib_* arrays; handle 0 is g_shlib_used = 0
          modules,        \* the g_module_* arrays; id 0 is g_module_used = 0
          g_shlib_next_handle, g_module_next_id,
          opens           \* what callers hold: handle |-> number of dlopens

libraryVars == <<shlibs, modules, g_shlib_next_handle, g_module_next_id, opens>>

LibSlots == 0 .. ShlibMax - 1
ModuleSlots == 0 .. ModuleMax - 1
Handles == 1 .. MaxLoads

NoLib == [handle |-> 0, refcount |-> 0, path |-> ""]
NoModule == [id |-> 0, handle |-> 0, path |-> ""]

LibrariesInit ==
    /\ shlibs = [s \in LibSlots |-> NoLib]
    /\ modules = [m \in ModuleSlots |-> NoModule]
    /\ g_shlib_next_handle = 1 /\ g_module_next_id = 1
    /\ opens = [h \in Handles |-> 0]
----------------------------------------------------------------------------
\* shlib_find_slot_by_path, by_handle, shlib_free_slot; modules alike
LibsAt(path) == {s \in LibSlots : shlibs[s].handle # 0 /\ shlibs[s].path = path}
FreeLibs == {s \in LibSlots : shlibs[s].handle = 0}
ModulesAt(path) == {m \in ModuleSlots : modules[m].id # 0 /\ modules[m].path = path}
FreeModules == {m \in ModuleSlots : modules[m].id = 0}

\* shlib_load_path of an image that is not shared: a new handle in a free slot
MayLoadNew == FreeLibs # {} /\ g_shlib_next_handle <= MaxLoads
LoadedNew(path) ==
    [shlibs EXCEPT ![Min(FreeLibs)] =
        [handle |-> g_shlib_next_handle, refcount |-> 1, path |-> path]]

\* shlib_load_path of an image that is there: one more user
Shared(path) == [shlibs EXCEPT ![Min(LibsAt(path))].refcount = @ + 1]

\* Mutant: the image goes with the first user that leaves.
ReleasedAtOnce(libs, handle) ==
    [s \in LibSlots |-> IF libs[s].handle = handle /\ handle # 0 THEN NoLib ELSE libs[s]]

\* shlib_release_handle
Released(libs, handle) ==
    [s \in LibSlots |->
        IF libs[s].handle # handle \/ handle = 0 THEN libs[s]
        ELSE IF libs[s].refcount = 1 THEN NoLib
        ELSE [libs[s] EXCEPT !.refcount = @ - 1]]

\* dlopen
DlOpenShared(path) ==
    /\ LibsAt(path) # {}
    /\ LET handle == shlibs[Min(LibsAt(path))].handle
       IN  opens[handle] < MaxOpens /\ opens' = [opens EXCEPT ![handle] = @ + 1]
    /\ shlibs' = Shared(path)
    /\ UNCHANGED <<modules, g_shlib_next_handle, g_module_next_id>>

DlOpenNew(path) ==
    /\ LibsAt(path) = {} /\ MayLoadNew
    /\ shlibs' = LoadedNew(path)
    /\ opens' = [opens EXCEPT ![g_shlib_next_handle] = @ + 1]
    /\ g_shlib_next_handle' = g_shlib_next_handle + 1
    /\ UNCHANGED <<modules, g_module_next_id>>

DlClose(handle) ==
    /\ opens[handle] > 0
    /\ opens' = [opens EXCEPT ![handle] = @ - 1]
    /\ shlibs' = Released(shlibs, handle)
    /\ UNCHANGED <<modules, g_shlib_next_handle, g_module_next_id>>
----------------------------------------------------------------------------
\* The image module_load_path uses: shared when it is there
MayLoad(path) == LibsAt(path) # {} \/ MayLoadNew
Loaded(path) == IF LibsAt(path) # {} THEN Shared(path) ELSE LoadedNew(path)
HandleOf(path) == IF LibsAt(path) # {} THEN shlibs[Min(LibsAt(path))].handle
                  ELSE g_shlib_next_handle
NextHandle(path) == IF LibsAt(path) # {} THEN g_shlib_next_handle ELSE g_shlib_next_handle + 1

\* modload of a path that is no module yet
ModLoad(path) ==
    /\ ModulesAt(path) = {} /\ MayLoad(path)
    /\ FreeModules # {} /\ g_module_next_id <= MaxLoads
    /\ shlibs' = Loaded(path)
    /\ modules' = [modules EXCEPT ![Min(FreeModules)] =
                      [id |-> g_module_next_id, handle |-> HandleOf(path), path |-> path]]
    /\ g_shlib_next_handle' = NextHandle(path)
    /\ g_module_next_id' = g_module_next_id + 1
    /\ UNCHANGED opens

\* modload without room for the module: the image is released again, the handle
\* it got is spent
ModLoadNoRoom(path) ==
    /\ ModulesAt(path) = {} /\ MayLoad(path) /\ FreeModules = {}
    /\ shlibs' = Released(Loaded(path), HandleOf(path))
    /\ g_shlib_next_handle' = NextHandle(path)
    /\ UNCHANGED <<modules, g_module_next_id, opens>>

\* modunload
ModUnload(m) ==
    /\ modules[m].id # 0
    /\ modules' = [modules EXCEPT ![m] = NoModule]
    /\ shlibs' = Released(shlibs, modules[m].handle)
    /\ UNCHANGED <<g_shlib_next_handle, g_module_next_id, opens>>

\* modreload: a new image, whoever uses the old one, which is released after
ModReload(m) ==
    /\ modules[m].id # 0 /\ MayLoadNew
    /\ modules' = [modules EXCEPT ![m].handle = g_shlib_next_handle]
    /\ shlibs' = Released(LoadedNew(modules[m].path), modules[m].handle)
    /\ g_shlib_next_handle' = g_shlib_next_handle + 1
    /\ UNCHANGED <<g_module_next_id, opens>>

\* qos_syscall_reset, when the kernel starts over and nobody holds a handle
LibrariesReset ==
    /\ shlibs' = [s \in LibSlots |-> NoLib]
    /\ modules' = [m \in ModuleSlots |-> NoModule]
    /\ g_shlib_next_handle' = 1 /\ g_module_next_id' = 1
    /\ opens' = [h \in Handles |-> 0]
----------------------------------------------------------------------------
LibrariesNext ==
    \/ \E path \in LibPaths :
          DlOpenShared(path) \/ DlOpenNew(path) \/ ModLoad(path) \/ ModLoadNoRoom(path)
    \/ \E handle \in Handles : DlClose(handle)
    \/ \E m \in ModuleSlots : ModUnload(m) \/ ModReload(m)
    \/ LibrariesReset

LibrariesSpec == LibrariesInit /\ [][LibrariesNext]_libraryVars
----------------------------------------------------------------------------
LibrariesTypeOK ==
    /\ shlibs \in [LibSlots -> [handle : Handles \cup {0}, refcount : Nat,
                                path : LibPaths \cup {""}]]
    /\ modules \in [ModuleSlots -> [id : 0 .. MaxLoads, handle : Handles \cup {0},
                                    path : LibPaths \cup {""}]]
    /\ g_shlib_next_handle \in 1 .. MaxLoads + 1
    /\ g_module_next_id \in 1 .. MaxLoads + 1
    /\ opens \in [Handles -> 0 .. MaxOpens]

ModulesOn(handle) == {m \in ModuleSlots : modules[m].id # 0 /\ modules[m].handle = handle}

\* However opens, loads, reloads and closes mix, an image is counted once for
\* every dlopen that is not closed and once for the module on it, so it goes
\* exactly when the last of them does; a handle somebody holds names one image,
\* and a module's handle names an image of the module's path.
RefsAgree ==
    /\ LibrariesTypeOK
    /\ \A s \in LibSlots : LET lib == shlibs[s] IN lib.handle # 0 =>
          /\ lib.refcount > 0
          /\ lib.refcount = opens[lib.handle] + Cardinality(ModulesOn(lib.handle))
          /\ \A t \in LibSlots : shlibs[t].handle = lib.handle => s = t
    /\ \A h \in Handles : opens[h] > 0 => \E s \in LibSlots : shlibs[s].handle = h
    /\ \A m \in ModuleSlots : modules[m].id # 0 =>
          \E s \in LibSlots : /\ shlibs[s].handle = modules[m].handle
                              /\ shlibs[s].handle # 0
                              /\ shlibs[s].path = modules[m].path
============================================================================
