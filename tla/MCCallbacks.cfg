SPECIFICATION MCSpec
CONSTANTS
    NumVectors = 3
    TimerSlots = 2
    MaxJiffies = 5
    Delays = {1, 2}
    Intervals = {0, 1, 2}
    WorkSlots = 3
    MaxWorkId = 6
    ThreadSlots = 4
INVARIANTS
    MarkIsCovered
    DueIsMarked
    NoDrift
    NoLostWork
    IdsDistinct
    FifoUnlessRecycled
    RingIsQueue
PROPERTIES
    NeverEarly
    OneShotOnce
    DueIsServed
    ImplementsPool
    WorkIsServed
    CalledOnceInTurn
    RunnableRuns
