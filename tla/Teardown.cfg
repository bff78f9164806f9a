\* One CLI session over a proxy chain with all bastion dials up, server
\* mode: `target`, `run` on t1, `clean`, `summary`, then `clear`.
CONSTANTS
    b1 = b1  b2 = b2  p = p  t1 = t1  t2 = t2  t3 = t3  d = d  k = k  r = r
    c = c  g1 = g1  g2 = g2  g3 = g3  s = s  tg = tg  x = x
    None = None
    Hosts <- HostsChain
    Parent <- ParentChain
    Proxies <- ProxiesChain
    BastionConns = 2
    DialsOK = {2}
    ServerMode = TRUE
    Actors <- ActorsSession
    Role <- RoleSession
    Target <- TargetSession
    Before <- BeforeSession
    Targets0 <- TargetsSession
    Load <- LoadSession
    Quiet = {}
    DaemonDebug = FALSE
SPECIFICATION Spec
INVARIANT TypeOK NoSendToDeadInbox NoPanic CleanDisconnects
PROPERTY CleanupOrder
\* The model stops once the actors are done: the program idles there.
CHECK_DEADLOCK FALSE
