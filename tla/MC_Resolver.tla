----------------------------- MODULE MC_Resolver -----------------------------
EXTENDS Resolver, TLC

CONSTANTS t0, t1, t2, b1, p

\* t0 is dialled directly, t1 sits behind bastion b1, t2 behind b1 and p.
TargetsThree == {t0, t1, t2}
ChainThree == (t0 :> <<t0>>) @@ (t1 :> <<b1, t1>>) @@ (t2 :> <<b1, p, t2>>)
=============================================================================
