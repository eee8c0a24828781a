SPECIFICATION Spec
CONSTANTS
    main = main
    a = a
    b = b
    idle = idle
    NoThread = NoThread
    Threads = {main, a, b, idle}
    Main = main
    Idle = idle
    x1 = x1
    x2 = x2
    d1 = d1
    tm1 = tm1
    Items = {x1, x2, d1}
    Timers = {d1, tm1}
    Nil = Nil
    WaitQs = {queue_w, alert_w, timer_w, poll_w}
    queue_w = queue_w
    alert_w = alert_w
    timer_w = timer_w
    poll_w = poll_w
    QueueWaitQ = queue_w
    AlertWaitQ = alert_w
    TimerWaitQ = timer_w
    PollWaitQ = poll_w
    NumCoop = 1
    NumPreempt = 1
    Port = "arm"
    InitPrio <- MCInitPrio
    NewPrios = {}
    SliceSettings <- MCSlices
    Sources = {"clk", "dev"}
    MaxLock = 0
    Patience <- MCPatience
    Victims = {a}
    Appenders = {a}
    IsrGets = FALSE
    NestedStops = FALSE
    Worker = b
    AlertWork = x1
    MaxPended = 1
    MaxSends = 3
    Tmr = tm1
    Signals <- MCSignals
    Uses = {"queue", "workq", "delayed", "alert", "timer", "poll"}
INVARIANTS QueueKeepsItems WorkNotLost AlertsCarried SyncNotStranded ReadyAfterExpiry PollSeesSignals PollCleansUp
