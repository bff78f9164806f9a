\* An exec and a check client against a live Mux; clients and remote responsive.
CONSTANTS
    x1 = x1  x2 = x2  None = None
    Clients <- ClientsTwo
    Script <- ScriptTwo
    Closes = FALSE
    ClientsMayDie = FALSE
    FairPeers = TRUE
SPECIFICATION Spec
INVARIANT CodecRoundTrip
PROPERTY RequestsAnswered
\* Once every client is finished the Mux idles, waiting for connections.
CHECK_DEADLOCK FALSE
