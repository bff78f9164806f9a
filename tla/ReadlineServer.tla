---------------------------- MODULE ReadlineServer ----------------------------
(***************************************************************************)
(* The CLI sessions of the SSH server (server.go).  Every channel gets a   *)
(* handleChannel goroutine that serves its requests in order.  GNU         *)
(* readline is one C library with global state: a "pty-req" binds its      *)
(* rl_instream and rl_outstream to the session's tty when the server's     *)
(* readlineSession flag is clear; a "shell" reads the flag and, when clear,*)
(* sets it and runs cli with readline in a goroutine that clears it on     *)
(* return; otherwise it runs cli without readline, blocking the request   *)
(* loop.  The flag is a plain bool shared by all sessions: its read and    *)
(* its write are separate steps.                                           *)
(***************************************************************************)
EXTENDS Naturals, Sequences

CONSTANTS
    Sessions,  \* SSH channels of type "session"
    Script,    \* Script[s]: the requests of s, over {"pty", "shell"}
    None

ASSUME \A s \in Sessions : Script[s] \in Seq({"pty", "shell"})

VARIABLES
    readlineSession,  \* SSHServer.readlineSession
    rlStream,         \* the session whose tty rl_instream/rl_outstream open
    pc,               \* pc[s]: index of the next request of s
    spc,              \* spc[s]: loop, shell (flag read), plain, done
    seen,             \* seen[s]: the value of the flag s read
    rl                \* sessions running cli(con, newE, true)

vars == <<readlineSession, rlStream, pc, spc, seen, rl>>

TypeOK ==
    /\ readlineSession \in BOOLEAN
    /\ rlStream \in Sessions \cup {None}
    /\ pc \in [Sessions -> Nat]
    /\ spc \in [Sessions -> {"loop", "shell", "plain", "done"}]
    /\ seen \in [Sessions -> BOOLEAN]
    /\ rl \subseteq Sessions

\* NewSSHServer: the flag clear; readline on the process's own stdin.
Init ==
    /\ readlineSession = FALSE
    /\ rlStream = None
    /\ pc = [s \in Sessions |-> 1]
    /\ spc = [s \in Sessions |-> "loop"]
    /\ seen = [s \in Sessions |-> FALSE]
    /\ rl = {}

NextReq(s, r) ==
    /\ spc[s] = "loop"
    /\ pc[s] <= Len(Script[s])
    /\ Script[s][pc[s]] = r

\* "pty-req": pty.Open; when no readline session holds the flag,
\* rlInstream/rlOutstream(tty) and the two io.Copy goroutines.
PtyReq(s) ==
    /\ NextReq(s, "pty")
    /\ IF readlineSession THEN UNCHANGED rlStream ELSE rlStream' = s
    /\ pc' = [pc EXCEPT ![s] = @ + 1]
    /\ UNCHANGED <<readlineSession, spc, seen, rl>>

\* pty.Open fails: handleChannel returns.
PtyFail(s) ==
    /\ NextReq(s, "pty")
    /\ spc' = [spc EXCEPT ![s] = "done"]
    /\ UNCHANGED <<readlineSession, rlStream, pc, seen, rl>>

\* "shell": `if !s.readlineSession`, the read.
ShellCheck(s) ==
    /\ NextReq(s, "shell")
    /\ seen' = [seen EXCEPT ![s] = readlineSession]
    /\ spc' = [spc EXCEPT ![s] = "shell"]
    /\ UNCHANGED <<readlineSession, rlStream, pc, rl>>

\* The branch taken on the value read: set the flag and start the readline
\* cli goroutine, or run cli without readline in this goroutine.
ShellStart(s) ==
    /\ spc[s] = "shell"
    /\ IF seen[s]
       THEN /\ spc' = [spc EXCEPT ![s] = "plain"]
            /\ UNCHANGED <<readlineSession, pc, rl>>
       ELSE /\ readlineSession' = TRUE
            /\ rl' = rl \cup {s}
            /\ spc' = [spc EXCEPT ![s] = "loop"]
            /\ pc' = [pc EXCEPT ![s] = @ + 1]
    /\ UNCHANGED <<rlStream, seen>>

\* cli without readline returns (the user quits or the channel closes).
PlainEnds(s) ==
    /\ spc[s] = "plain"
    /\ spc' = [spc EXCEPT ![s] = "loop"]
    /\ pc' = [pc EXCEPT ![s] = @ + 1]
    /\ UNCHANGED <<readlineSession, rlStream, seen, rl>>

\* The readline cli goroutine returns; its deferred reset clears the flag.
ReadlineEnds(s) ==
    /\ s \in rl
    /\ rl' = rl \ {s}
    /\ readlineSession' = FALSE
    /\ UNCHANGED <<rlStream, pc, spc, seen>>

\* The requests channel closes: the loop ends.
LoopEnds(s) ==
    /\ spc[s] = "loop"
    /\ pc[s] > Len(Script[s])
    /\ spc' = [spc EXCEPT ![s] = "done"]
    /\ UNCHANGED <<readlineSession, rlStream, pc, seen, rl>>

Next ==
    \E s \in Sessions :
        \/ PtyReq(s) \/ PtyFail(s) \/ ShellCheck(s) \/ ShellStart(s)
        \/ PlainEnds(s) \/ ReadlineEnds(s) \/ LoopEnds(s)

Spec == Init /\ [][Next]_vars

-----------------------------------------------------------------------------
(* Properties.                                                             *)

\* A session running cli with GNU readline reads and writes its own tty:
\* rl_instream and rl_outstream were opened on it by its own pty-req.
\* Since the streams name one tty, this also says that at most one session
\* runs readline at a time, the purpose of the readlineSession flag.
ReadlineOwnTerminal ==
    \A s \in rl : rlStream = s

=============================================================================
