SPECIFICATION Spec
CONSTANTS
    ProcSlots = 2
    Pids = {p1, p2}
    Ppids = {0}
    Sigs = {2, 9, 19}
    Installed = {"DFL", "CATCH"}
    Masks = {{}, {2, 9, 19}}
    Codes = {130}
SYMMETRY PidSymmetry
INVARIANTS
    TableAgrees
    UnblockableSignals
    ZombieNotStopped
PROPERTIES
    KillNotLost
