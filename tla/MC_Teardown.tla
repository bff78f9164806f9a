---------------------------- MODULE MC_Teardown ----------------------------
(* Topologies and actor sets for checking Teardown.                        *)
EXTENDS Teardown, TLC

CONSTANTS b1, b2, p, t1, t2, t3, d, k, r, c, g1, g2, g3, s, tg, x

\* Two bastions dialled directly, an indirect bastion p behind b1, and
\* targets behind p, b1 and b2 (the shape of ~/.metassh proxy chains).
HostsChain == {b1, b2, p, t1, t2, t3}
ParentChain == (b1 :> None) @@ (b2 :> None) @@ (p :> b1)
               @@ (t1 :> p) @@ (t2 :> b1) @@ (t3 :> b2)
ProxiesChain == {b1, b2, p}

\* A target t1 dialled directly (no proxy) and a bastion b1 with t2 behind it.
HostsDirect == {b1, t1, t2}
ParentDirect == (b1 :> None) @@ (t1 :> None) @@ (t2 :> b1)
ProxiesDirect == {b1}

\* Actor sets: d runs disconnectEverywhere, k disconnectHost(t2), r a
\* runEverywhere sender for t2.
ActorsD == {d}
ActorsDK == {d, k}
ActorsDR == {d, r}
RoleAll == (d :> "disconnectEverywhere") @@ (k :> "disconnectHost") @@ (r :> "run")
TargetAll == (d :> t2) @@ (k :> t2) @@ (r :> t2)
\* No ordering: the actors run concurrently.
BeforeNone == [a \in {d, k, r, c, g1, g2, g3, s, tg, x} |-> {}]
\* The targets `target` loaded: the three leaves of the chain.
TargetsLeaves == {t1, t2, t3}

\* No `target` command loads anything.
LoadNone == [a \in {d, k, r, c, g1, g2, g3, s, tg, x} |-> {}]

\* One CLI session: `target` printing t1 (already a target) and t3, then
\* `run` on t1, `clean` (with a goroutine per target), `summary`, `clear`;
\* then SIGINT, whose handler x tears down what is left and exits.
TargetsSession == {t1}
ActorsSession == {tg, r, c, g1, g3, s, d, x}
RoleSession == (tg :> "target") @@ (r :> "run") @@ (c :> "clean")
               @@ (g1 :> "cleanHost") @@ (g3 :> "cleanHost")
               @@ (s :> "summary") @@ (d :> "clear") @@ (x :> "cleanDeath")
TargetSession == (tg :> t1) @@ (r :> t1) @@ (c :> t1) @@ (g1 :> t1)
                 @@ (g3 :> t3) @@ (s :> t1) @@ (d :> t1) @@ (x :> t1)
BeforeSession == (tg :> {}) @@ (r :> {tg}) @@ (c :> {r}) @@ (g1 :> {})
                 @@ (g3 :> {}) @@ (s :> {c}) @@ (d :> {s}) @@ (x :> {d})
LoadSession == [a \in ActorsSession |-> IF a = tg THEN {t1, t3} ELSE {}]

\* Two CLI sessions: `clean` in one while `summary` runs in the other,
\* over t1 (direct) and t2 (behind b1).
TargetsTwo == {t1, t2}
ActorsCleanSummary == {c, g1, g2, s}
RoleCleanSummary == (c :> "clean") @@ (g1 :> "cleanHost") @@ (g2 :> "cleanHost")
                    @@ (s :> "summary")
TargetCleanSummary == (c :> t1) @@ (g1 :> t1) @@ (g2 :> t2) @@ (s :> t1)
=============================================================================
