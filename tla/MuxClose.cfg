\* Clients that may exit at any point while the service loop's cleanup calls Close.
CONSTANTS
    x1 = x1  x2 = x2  None = None
    Clients <- ClientsTwo
    Script <- ScriptTwo
    Closes = TRUE
    ClientsMayDie = TRUE
    FairPeers = TRUE
SPECIFICATION Spec
INVARIANT TypeOK
PROPERTY CloseReturns
\* Once every client is finished the Mux idles, waiting for connections.
CHECK_DEADLOCK FALSE
