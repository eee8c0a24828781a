SPECIFICATION Spec
CONSTANTS
    main = main
    a = a
    b = b
    idle = idle
    NoThread = NoThread
    Threads = {main, a, b, idle}
    Main = main
    Idle = idle
    Timers = {}
    WaitQs = {semq}
    SemQ = semq
    semq = semq
    NumCoop = 1
    NumPreempt = 1
    Port = "arm"
    InitPrio <- MCInitPrio
    NewPrios = {}
    SliceSettings <- MCSlices
    Sources = {"clk", "dev"}
    MaxLock = 0
    Limit = 2
    InitCount = 0
INVARIANTS WaitQueueExact NoLostWakeup ForeverTakesSucceed
PROPERTIES ExpiredNotGiven GivenToMostUrgent Refines
