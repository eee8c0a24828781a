SPECIFICATION FairSpec
CONSTANTS
    main = main
    a = a
    b = b
    idle = idle
    NoThread = NoThread
    Threads = {main, a, idle}
    Main = main
    Idle = idle
    Timers = {}
    WaitQs = {semq}
    SemQ = semq
    semq = semq
    NumCoop = 1
    NumPreempt = 1
    Port = "arm"
    InitPrio <- MCInitPrio
    NewPrios <- MCNewPrios
    SliceSettings <- MCSliceTwo
    Sources = {"clk"}
    MaxLock = 1
    Limit = 1
    InitCount = 0
PROPERTIES TimedTakeEnds SlicesShared
