\* Two interactive sessions opened at about the same time.
CONSTANTS
    u1 = u1  u2 = u2  None = None
    Sessions <- SessionsTwo
    Script <- ScriptInteractive
SPECIFICATION Spec
INVARIANT ReadlineOwnTerminal
\* Once both sessions are done the server idles.
CHECK_DEADLOCK FALSE
