SPECIFICATION Spec
CONSTANTS
    Pids = {1, 2, 3, 4, 5}
    NumLevels = 2
    MaxTasks = 4
    Watched = 1
INVARIANTS
    QueuesAgree
    BoundedOvertaking
PROPERTIES
    NoStarvation
