SPECIFICATION Spec
CONSTANTS
    main = main
    a = a
    b = b
    idle = idle
    NoThread = NoThread
    Threads = {main, a, b, idle}
    Main = main
    Idle = idle
    Timers = {}
    WaitQs = {msgq_w, stack_w, slab_w, pool_w, tx_w, rx_w, read_w, write_w}
    msgq_w = msgq_w
    stack_w = stack_w
    slab_w = slab_w
    pool_w = pool_w
    tx_w = tx_w
    rx_w = rx_w
    read_w = read_w
    write_w = write_w
    MsgQWaitQ = msgq_w
    StackWaitQ = stack_w
    SlabWaitQ = slab_w
    NumCoop = 1
    NumPreempt = 1
    Port = "arm"
    InitPrio <- MCInitPrio
    NewPrios = {}
    SliceSettings <- MCSlices
    Sources = {"clk", "dev"}
    MaxLock = 0
    x1 = x1
    x2 = x2
    Items = {x1, x2}
    Nil = Nil
    Patience <- MCPatience
    Victims = {a}
    MaxMsgs = 2
    NumMax = 1
    NumLevels = 3
    PoolWaitQ = pool_w
    PoolLevels <- MCPoolLevels
    MaxBlocks = 2
    TxWaitQ = tx_w
    RxWaitQ = rx_w
    K_ANY = K_ANY
    PipeSize = 2
    Requests = {1, 3}
    ReadWaitQ = read_w
    WriteWaitQ = write_w
    Uses = {"msgq", "stack", "slab", "pool", "mbox", "pipe"}
SYMMETRY ItemSymmetry
INVARIANTS DataTypeOK WaitersMatchBuffer StackKeepsWords SlabBlocksOwned PoolPartitioned Rendezvous PipeKeepsBytes PipeWaitersJustified
PROPERTIES MsgQRefines
