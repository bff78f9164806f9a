\* `clean` in one CLI session while `summary` runs in another.
CONSTANTS
    b1 = b1  b2 = b2  p = p  t1 = t1  t2 = t2  t3 = t3  d = d  k = k  r = r
    c = c  g1 = g1  g2 = g2  g3 = g3  s = s  tg = tg  x = x
    None = None
    Hosts <- HostsDirect
    Parent <- ParentDirect
    Proxies <- ProxiesDirect
    BastionConns = 2
    DialsOK = {2}
    ServerMode = TRUE
    Actors <- ActorsCleanSummary
    Role <- RoleCleanSummary
    Target <- TargetCleanSummary
    Before <- BeforeNone
    Targets0 <- TargetsTwo
    Load <- LoadNone
    Quiet = {}
    DaemonDebug = FALSE
SPECIFICATION Spec
INVARIANT NoPanic
\* The model stops once the actors are done: the program idles there.
CHECK_DEADLOCK FALSE
