SPECIFICATION FairSpec
CONSTANTS
    main = main
    a = a
    b = b
    idle = idle
    m1 = m1
    NoThread = NoThread
    Threads = {main, a, b, idle}
    Main = main
    Idle = idle
    Timers = {}
    WaitQs = {m1}
    Mutexes = {m1}
    NumCoop = 0
    NumPreempt = 3
    Ceiling = 0
    Port = "arm"
    InitPrio <- MCInitPrio
    NewPrios = {}
    SliceSettings <- MCSlices
    Sources = {"clk"}
    MaxLock = 0
    MaxCount = 1
    Timeouts = {"FOREVER"}
PROPERTIES WaiterServed
