SPECIFICATION TimerSpec
CONSTANTS
    NumVectors = 3
    TimerSlots = 1
    MaxJiffies = 3
    Delays = {1, 2}
    Intervals = {0, 2}
PROPERTIES
    MarkedIsServed
