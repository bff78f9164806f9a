CONSTANTS
    t0 = t0  t1 = t1  t2 = t2  b1 = b1  p = p
    RP = RP  None = None
    Targets <- TargetsThree
    Chain <- ChainThree
    BastionConns = 2
    Concurrency = 2
    DialFailures = {0, 1, 2}
    Password = TRUE
    Background = FALSE
    KeyAuthFails = {t0}
SPECIFICATION Spec
INVARIANT StatusTruthful
CHECK_DEADLOCK FALSE
