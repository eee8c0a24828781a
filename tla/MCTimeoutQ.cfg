SPECIFICATION FairSpec
CONSTANTS
    x = x
    y = y
    z = z
    w = w
    Timeouts = {x, y, z, w}
    None = None
    MaxTicks = 3
INVARIANTS LinkedAsMarked NothingOverdue
PROPERTIES Refines EventuallyOff
