\* One run, two TimeoutWaiters requests (e.g. `abort` then `disco`, or ^\
\* pressed twice) while the run is between its select and its deferred
\* DeleteRunWaitInfo.
CONSTANTS
    c1 = c1
    r1 = r1
    r2 = r2
    h1 = h1
    h2 = h2
    NoWaiter = NoWaiter
    Hosts = {h1}
    Ops <- OpsOne
    OpHost <- OpHostOne
    OpKind <- OpKindOne
    MaxAborts = 2
SPECIFICATION Spec
INVARIANT NoStuckAbortSend
CHECK_DEADLOCK FALSE
