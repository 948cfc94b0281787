\* A delivery with two riders, two calls and three changes of the order or of
\* the client's account; a ring lasts one tick, a lease two, a call three.
SPECIFICATION OCSpec
CONSTANTS
    Riders = {r1, r2}
    Calls = {k1, k2}
    Doubtful = {"client"}
    Ring = 1
    Lease = 2
    Cap = 3
    ByPickup = FALSE
    MaxChanges = 3
    MaxSignals = 2
INVARIANTS
    ActiveCallsAreCurrent
PROPERTIES
    DeadlinesAreFinal
    EveryCallEnds
\* Without a call, and with no change left, nothing has to happen.
CHECK_DEADLOCK FALSE
