\* A connect and a run on distinct keys, one TimeoutWaiters request.
CONSTANTS
    c1 = c1
    r1 = r1
    r2 = r2
    h1 = h1
    h2 = h2
    NoWaiter = NoWaiter
    Hosts = {h1, h2}
    Ops <- OpsDistinct
    OpHost <- OpHostDistinct
    OpKind <- OpKindDistinct
    MaxAborts = 1
SPECIFICATION Spec
INVARIANT TypeOK
INVARIANT NoStuckAbortSend
PROPERTY EveryOpReturns
PROPERTY WorkerResponseTaken
\* Every operation may end with all goroutines finished: the program idles.
CHECK_DEADLOCK FALSE
