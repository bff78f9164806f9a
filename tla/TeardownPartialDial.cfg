\* One of a bastion's two dials failed; disconnectEverywhere.
CONSTANTS
    b1 = b1  b2 = b2  p = p  t1 = t1  t2 = t2  t3 = t3  d = d  k = k  r = r  c = c  g1 = g1  g2 = g2  g3 = g3  s = s  tg = tg  x = x
    None = None
    Hosts <- HostsChain
    Parent <- ParentChain
    Proxies <- ProxiesChain
    BastionConns = 2
    DialsOK = {1, 2}
    ServerMode = TRUE
    Actors <- ActorsD
    Role <- RoleAll
    Target <- TargetAll
    Before <- BeforeNone
    Targets0 <- TargetsLeaves
    Load <- LoadNone
    Quiet = {}
    DaemonDebug = FALSE
SPECIFICATION Spec
INVARIANT NoSendToDeadInbox
\* The model stops once the actors are done: the program idles there.
CHECK_DEADLOCK FALSE
