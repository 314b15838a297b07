SPECIFICATION Spec
CONSTANTS
    ProcSlots = 2
    Pids = {p1, p2}
    Ppids = {0}
    Sigs = {9, 18, 19}
    Installed = {"DFL", "IGN", "CATCH"}
    Masks = {{}, {9, 18, 19}}
    Codes = {0}
SYMMETRY PidSymmetry
PROPERTIES
    SigcontWakes
