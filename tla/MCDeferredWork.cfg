SPECIFICATION Spec
CONSTANTS
    NumVectors = 3
    TimerSlots = 1
    MaxJiffies = 3
    Delays = {1}
    Intervals = {0, 2}
    NapiSlots = 2
    WorkSlots = 2
    MaxWorkId = 2
INVARIANTS
    NothingForgotten
PROPERTIES
    WorkServedWhenQuiet
    InstancesServedWhenQuiet
    
