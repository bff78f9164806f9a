------------------------------ MODULE MC_Mux ------------------------------
(* Client sets for checking Mux.                                           *)
EXTENDS MuxCodec, TLC

CONSTANTS x1, x2

\* One `ssh -S sock host cmd` and one `ssh -O check`.
ClientsTwo == {x1, x2}
ScriptTwo == (x1 :> "exec") @@ (x2 :> "check")

\* One `ssh -S sock host cmd` alone.
ClientsOne == {x1}
ScriptOne == x1 :> "exec"
=============================================================================
