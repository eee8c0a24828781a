SPECIFICATION SchedSpec
CONSTANTS
    main = main
    a = a
    b = b
    idle = idle
    NoThread = NoThread
    Threads = {main, a, b, idle}
    Main = main
    Idle = idle
    Timers = {}
    WaitQs = {}
    NumCoop = 1
    NumPreempt = 1
    Port = "arm"
    InitPrio <- MCInitPrio
    NewPrios <- MCNewPrios
    SliceSettings <- MCSlices
    Sources = {"clk", "dev"}
    MaxLock = 2
INVARIANTS TypeOK ReadyQueueExact CacheIsNext NoMissedPreemption
PROPERTIES NonPreemptibleKeepsCpu
