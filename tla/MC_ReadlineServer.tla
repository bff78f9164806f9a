-------------------------- MODULE MC_ReadlineServer --------------------------
EXTENDS ReadlineServer, TLC

CONSTANTS u1, u2

\* Two users, each opening an interactive ssh session (pty-req, then shell).
SessionsTwo == {u1, u2}
ScriptInteractive == [s \in SessionsTwo |-> <<"pty", "shell">>]
=============================================================================
