SPECIFICATION Spec
CONSTANTS
    main = main
    a = a
    b = b
    idle = idle
    m1 = m1
    NoThread = NoThread
    Threads = {main, a, b, idle}
    Main = main
    Idle = idle
    Timers = {}
    WaitQs = {m1}
    Mutexes = {m1}
    NumCoop = 1
    NumPreempt = 3
    Ceiling = 1
    Port = "arm"
    InitPrio <- MCCoopHigh
    NewPrios = {}
    SliceSettings <- MCSlices
    Sources = {"clk", "dev"}
    MaxLock = 0
    MaxCount = 2
    Timeouts = {"NO_WAIT", "TIMED", "FOREVER"}
INVARIANTS Exclusive Inherited PriorityRestored NoStrandedWaiter OwnerNeverDemoted
PROPERTIES NewOwnerMostUrgent
