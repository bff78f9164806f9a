\* An exec client that may exit before sending its descriptors.
CONSTANTS
    x1 = x1  x2 = x2  None = None
    Clients <- ClientsOne
    Script <- ScriptOne
    Closes = FALSE
    ClientsMayDie = TRUE
    FairPeers = TRUE
SPECIFICATION Spec
INVARIANT FdsBeforeWiring
\* Once every client is finished the Mux idles, waiting for connections.
CHECK_DEADLOCK FALSE
