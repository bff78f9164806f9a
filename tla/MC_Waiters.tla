----------------------------- MODULE MC_Waiters -----------------------------
(* Instances of Waiters for TLC: a few operations as model values, the     *)
(* host each works on and its kind.                                        *)
EXTENDS Waiters, TLC

CONSTANTS c1, r1, r2, h1, h2

\* One proxyConnect and one runCmd operation on the same host: distinct
\* registry keys (connWaiters vs runWaiters), and TimeoutWaiters has to
\* reach both, conn first.
OpsDistinct == {c1, r1}
OpHostDistinct == (c1 :> h1) @@ (r1 :> h1)
OpKindDistinct == (c1 :> "conn") @@ (r1 :> "run")

\* One runCmd operation: enough for the repeated-abort race.
OpsOne == {r1}
OpHostOne == (r1 :> h1)
OpKindOne == (r1 :> "run")

\* Two runCmd operations on the same host, as two concurrent `run`
\* commands (two CLI sessions, or `run -b` then `run`) produce.
OpsSameHost == {r1, r2}
OpHostSameHost == (r1 :> h1) @@ (r2 :> h1)
OpKindSameHost == (r1 :> "run") @@ (r2 :> "run")

=============================================================================
