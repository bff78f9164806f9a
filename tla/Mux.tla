-------------------------------- MODULE Mux --------------------------------
(***************************************************************************)
(* The ControlMaster server of one host (readline.go): NewMux's listener,  *)
(* acceptControlMaster, a readMsg goroutine per expected frame, the single *)
(* handleControlMaster goroutine reading m.cc, the session waiters, and    *)
(* Close, which hands controlKill to handleControlMaster and waits.        *)
(*                                                                         *)
(* Clients are OpenSSH mux clients (`ssh -S`): HELLO, then ALIVE_CHECK     *)
(* (`-O check`) or NEW_SESSION followed by its three descriptors.  A       *)
(* connection is a byte stream per direction: toSrv holds the frames and   *)
(* SCM_RIGHTS descriptors the client wrote and the server has not read,    *)
(* toCli the frames the server wrote.  Payloads are abstracted to the      *)
(* message type; framing itself is the subject of MuxCodec.                *)
(***************************************************************************)
EXTENDS Naturals, Sequences, FiniteSets

CONSTANTS
    Clients,        \* mux client connections
    Script,         \* Script[c]: "check" (ALIVE_CHECK) or "exec" (NEW_SESSION)
    Closes,         \* the service loop's cleanup calls m.Close()
    ClientsMayDie,  \* a client process may exit at any point
    FairPeers,      \* clients and the remote sshd always make progress
    None

ASSUME /\ Script \in [Clients -> {"check", "exec"}]
       /\ {Closes, ClientsMayDie, FairPeers} \subseteq BOOLEAN

\* Frames and descriptors on a connection.
Hello == "hello"
AliveCheck == "alive"
NewSession == "new"
Fd == "fd"
SessionOpened == "opened"
Exit == "exit"

VARIABLES
    listening,    \* m.l is open
    hpc,          \* handleControlMaster: recv, newSession, getFd, wire, dead
    hcli,         \* the connection whose NEW_SESSION it is handling
    fdi,          \* index i of the getFd loop
    fds,          \* descriptors really received for that NEW_SESSION
    sesscounter,  \* m.sesscounter
    kpc,          \* the caller of Close: idle, closing, done
    reader,       \* reader[c]: none, reading, handing (blocked on m.cc)
    rmsg,         \* rmsg[c]: the frame a handing reader holds
    toSrv,        \* client -> server stream
    toCli,        \* server -> client stream
    closedS,      \* the server closed its end of c
    closedC,      \* the client closed its end of c (or exited)
    session,      \* session[c]: none, running, ended
    cpc,          \* the client: idle, hello, waitHello, sendFds, waitAlive,
                  \* waitOpened, waitExit, done, refused, closed, dead
    nfd           \* descriptors the client has sent

vars == <<listening, hpc, hcli, fdi, fds, sesscounter, kpc, reader, rmsg,
          toSrv, toCli, closedS, closedC, session, cpc, nfd>>

ClientMsgs == {Hello, AliveCheck, NewSession}
ServerMsgs == {Hello, AliveCheck, SessionOpened, Exit}
ClientPCs == {"idle", "hello", "waitHello", "sendFds", "waitAlive",
              "waitOpened", "waitExit", "done", "refused", "closed", "dead"}

TypeOK ==
    /\ listening \in BOOLEAN
    /\ hpc \in {"recv", "newSession", "getFd", "wire", "dead"}
    /\ hcli \in Clients \cup {None}
    /\ fdi \in 0..3 /\ fds \in 0..3
    /\ sesscounter \in 0..Cardinality(Clients)
    /\ kpc \in {"idle", "closing", "done"}
    /\ reader \in [Clients -> {"none", "reading", "handing"}]
    /\ rmsg \in [Clients -> ClientMsgs \cup {None}]
    /\ toSrv \in [Clients -> Seq(ClientMsgs \cup {Fd})]
    /\ toCli \in [Clients -> Seq(ServerMsgs)]
    /\ closedS \in [Clients -> BOOLEAN] /\ closedC \in [Clients -> BOOLEAN]
    /\ session \in [Clients -> {"none", "running", "ended"}]
    /\ cpc \in [Clients -> ClientPCs]
    /\ nfd \in [Clients -> 0..3]

\* Right after NewMux succeeded.
Init ==
    /\ listening = TRUE
    /\ hpc = "recv" /\ hcli = None /\ fdi = 0 /\ fds = 0
    /\ sesscounter = 0
    /\ kpc = "idle"
    /\ reader = [c \in Clients |-> "none"]
    /\ rmsg = [c \in Clients |-> None]
    /\ toSrv = [c \in Clients |-> <<>>]
    /\ toCli = [c \in Clients |-> <<>>]
    /\ closedS = [c \in Clients |-> FALSE]
    /\ closedC = [c \in Clients |-> FALSE]
    /\ session = [c \in Clients |-> "none"]
    /\ cpc = [c \in Clients |-> "idle"]
    /\ nfd = [c \in Clients |-> 0]

\* A read finds EOF or an error once either end is closed and nothing is
\* left to read.
Hungup(c) == (closedC[c] \/ closedS[c]) /\ toSrv[c] = <<>>

\* sendStruct: binary.Write into a buffer cannot fail, and sendMsg only logs
\* write errors, so a frame to a gone client is silently lost.
SendStruct(c, msg) ==
    toCli' = IF closedC[c] \/ closedS[c] THEN toCli
             ELSE [toCli EXCEPT ![c] = Append(@, msg)]

\* msg.conn.Close() on an error path.
CloseConn(c) == closedS' = [closedS EXCEPT ![c] = TRUE]

-----------------------------------------------------------------------------
(* The listener, readMsg and handleControlMaster.                          *)

\* acceptControlMaster: the client's connect is accepted while m.l is open
\* and a readMsg goroutine starts; after l.Close() the connect is refused.
Connect(c) ==
    /\ cpc[c] = "idle"
    /\ IF listening
       THEN /\ cpc' = [cpc EXCEPT ![c] = "hello"]
            /\ reader' = [reader EXCEPT ![c] = "reading"]
       ELSE /\ cpc' = [cpc EXCEPT ![c] = "refused"]
            /\ UNCHANGED reader
    /\ UNCHANGED <<listening, hpc, hcli, fdi, fds, sesscounter, kpc, rmsg,
                   toSrv, toCli, closedS, closedC, session, nfd>>

\* readMsg: read one frame and block handing it to m.cc, or return on a
\* read error.  No readMsg runs on a connection after its NEW_SESSION, so
\* the descriptors that follow are only ever read by getFd.
ReadMsg(c) ==
    /\ reader[c] = "reading"
    /\ \/ /\ toSrv[c] # <<>>
          /\ Head(toSrv[c]) \in ClientMsgs
          /\ reader' = [reader EXCEPT ![c] = "handing"]
          /\ rmsg' = [rmsg EXCEPT ![c] = Head(toSrv[c])]
          /\ toSrv' = [toSrv EXCEPT ![c] = Tail(@)]
       \/ /\ Hungup(c)
          /\ reader' = [reader EXCEPT ![c] = "none"]
          /\ UNCHANGED <<rmsg, toSrv>>
    /\ UNCHANGED <<listening, hpc, hcli, fdi, fds, sesscounter, kpc, toCli,
                   closedS, closedC, session, cpc, nfd>>

\* Mutant: the HELLO/ALIVE_CHECK cases forget `go m.readMsg(msg.conn)`.
HandleMsgNoReader(c) ==
    /\ hpc = "recv"
    /\ reader[c] = "handing"
    /\ rmsg' = [rmsg EXCEPT ![c] = None]
    /\ IF rmsg[c] = NewSession
       THEN /\ hpc' = "newSession"
            /\ hcli' = c
            /\ UNCHANGED toCli
       ELSE /\ SendStruct(c, rmsg[c])
            /\ UNCHANGED <<hpc, hcli>>
    /\ reader' = [reader EXCEPT ![c] = "none"]
    /\ UNCHANGED <<listening, fdi, fds, sesscounter, kpc, toSrv, closedS,
                   closedC, session, cpc, nfd>>

\* handleControlMaster takes a controlMsg: HELLO and ALIVE_CHECK are
\* answered and a new readMsg started; NEW_SESSION is handled in place.
HandleMsg(c) ==
    /\ hpc = "recv"
    /\ reader[c] = "handing"
    /\ rmsg' = [rmsg EXCEPT ![c] = None]
    /\ IF rmsg[c] = NewSession
       THEN /\ hpc' = "newSession"
            /\ hcli' = c
            /\ reader' = [reader EXCEPT ![c] = "none"]
            /\ UNCHANGED toCli
       ELSE /\ SendStruct(c, rmsg[c])
            /\ reader' = [reader EXCEPT ![c] = "reading"]
            /\ UNCHANGED <<hpc, hcli>>
    /\ UNCHANGED <<listening, fdi, fds, sesscounter, kpc, toSrv, closedS,
                   closedC, session, cpc, nfd>>

\* m.client.NewSession(), then SESSION_OPENED with the next session id.
NewSessionOK ==
    /\ hpc = "newSession"
    /\ kpc # "closing"
    /\ SendStruct(hcli, SessionOpened)
    /\ sesscounter' = sesscounter + 1
    /\ hpc' = "getFd"
    /\ fdi' = 0 /\ fds' = 0
    /\ UNCHANGED <<listening, hcli, kpc, reader, rmsg, toSrv, closedS,
                   closedC, session, cpc, nfd>>

NewSessionFail ==
    /\ hpc = "newSession"
    /\ CloseConn(hcli)
    /\ hpc' = "recv"
    /\ UNCHANGED <<listening, hcli, fdi, fds, sesscounter, kpc, reader, rmsg,
                   toSrv, toCli, closedC, session, cpc, nfd>>

\* Mutant: the getFd loop runs `i <= 3`.
GetFdOKOffByOne ==
    /\ hpc = "getFd"
    /\ ~closedS[hcli]
    /\ toSrv[hcli] # <<>> /\ Head(toSrv[hcli]) = Fd
    /\ toSrv' = [toSrv EXCEPT ![hcli] = Tail(@)]
    /\ fds' = fds + 1
    /\ fdi' = fdi + 1
    /\ hpc' = IF fdi = 3 THEN "wire" ELSE "getFd"
    /\ UNCHANGED <<listening, hcli, sesscounter, kpc, reader, rmsg, toCli,
                   closedS, closedC, session, cpc, nfd>>

\* One iteration of the getFd loop (recvmsg for one SCM_RIGHTS descriptor).
\* On an error the connection is closed and the loop goes on with the next
\* index (`continue` inside `for i`), leaving inOutErr[i] at 0.  recvmsg
\* blocks while the client is alive and has sent nothing.
GetFdOK ==
    /\ hpc = "getFd"
    /\ ~closedS[hcli]
    /\ toSrv[hcli] # <<>> /\ Head(toSrv[hcli]) = Fd
    /\ toSrv' = [toSrv EXCEPT ![hcli] = Tail(@)]
    /\ fds' = fds + 1
    /\ fdi' = fdi + 1
    /\ hpc' = IF fdi = 2 THEN "wire" ELSE "getFd"
    /\ UNCHANGED <<listening, hcli, sesscounter, kpc, reader, rmsg, toCli,
                   closedS, closedC, session, cpc, nfd>>

GetFdFail ==
    /\ hpc = "getFd"
    /\ closedS[hcli] \/ Hungup(hcli)
    /\ CloseConn(hcli)
    /\ fdi' = fdi + 1
    /\ hpc' = IF fdi = 2 THEN "wire" ELSE "getFd"
    /\ UNCHANGED <<listening, hcli, fds, sesscounter, kpc, reader, rmsg,
                   toSrv, toCli, closedC, session, cpc, nfd>>

\* RequestPty, the three pipes, the stdio copies and Start/Shell; then
\* `go m.waiter(...)`.  Any of the ssh calls may fail: close, continue.
WireOK ==
    /\ hpc = "wire"
    /\ kpc # "closing"
    /\ session' = [session EXCEPT ![hcli] = "running"]
    /\ hpc' = "recv"
    /\ UNCHANGED <<listening, hcli, fdi, fds, sesscounter, kpc, reader, rmsg,
                   toSrv, toCli, closedS, closedC, cpc, nfd>>

WireFail ==
    /\ hpc = "wire"
    /\ CloseConn(hcli)
    /\ hpc' = "recv"
    /\ UNCHANGED <<listening, hcli, fdi, fds, sesscounter, kpc, reader, rmsg,
                   toSrv, toCli, closedC, session, cpc, nfd>>

\* waiter: the remote command ends; EXIT is sent and the connection closed.
SessionEnds(c) ==
    /\ session[c] = "running"
    /\ session' = [session EXCEPT ![c] = "ended"]
    /\ SendStruct(c, Exit)
    /\ CloseConn(c)
    /\ UNCHANGED <<listening, hpc, hcli, fdi, fds, sesscounter, kpc, reader,
                   rmsg, toSrv, closedC, cpc, nfd>>

\* remoteHost's cleanup has closed the session and the ssh client (so
\* pending ssh calls of the Mux now fail) and calls m.Close().
CloseStart ==
    /\ Closes
    /\ kpc = "idle"
    /\ kpc' = "closing"
    /\ UNCHANGED <<listening, hpc, hcli, fdi, fds, sesscounter, reader, rmsg,
                   toSrv, toCli, closedS, closedC, session, cpc, nfd>>

\* Mutant: controlKill returns without `kill.respChan <- true`.
ControlKillNoReply ==
    /\ kpc = "closing"
    /\ hpc = "recv"
    /\ hpc' = "dead"
    /\ listening' = FALSE
    /\ UNCHANGED <<hcli, fdi, fds, sesscounter, kpc, reader, rmsg, toSrv,
                   toCli, closedS, closedC, session, cpc, nfd>>

\* handleControlMaster takes controlKill: m.l.Close(), reply, return.
ControlKill ==
    /\ kpc = "closing"
    /\ hpc = "recv"
    /\ hpc' = "dead"
    /\ listening' = FALSE
    /\ kpc' = "done"
    /\ UNCHANGED <<hcli, fdi, fds, sesscounter, reader, rmsg, toSrv, toCli,
                   closedS, closedC, session, cpc, nfd>>

-----------------------------------------------------------------------------
(* The OpenSSH mux client.                                                 *)

ClientVars == <<listening, hpc, hcli, fdi, fds, sesscounter, kpc, reader,
                rmsg, toCli, closedS, session>>

Send(c, msg) == toSrv' = [toSrv EXCEPT ![c] = Append(@, msg)]

Recv(c, msg) ==
    /\ toCli[c] # <<>> /\ Head(toCli[c]) = msg
    /\ toCli' = [toCli EXCEPT ![c] = Tail(@)]

SendHello(c) ==
    /\ cpc[c] = "hello"
    /\ Send(c, Hello)
    /\ cpc' = [cpc EXCEPT ![c] = "waitHello"]
    /\ UNCHANGED <<listening, hpc, hcli, fdi, fds, sesscounter, kpc, reader,
                   rmsg, toCli, closedS, closedC, session, nfd>>

\* After the server's HELLO: ALIVE_CHECK, or NEW_SESSION and then the fds.
RecvHello(c) ==
    /\ cpc[c] = "waitHello"
    /\ toCli[c] # <<>> /\ Head(toCli[c]) = Hello
    /\ IF Script[c] = "check"
       THEN /\ Send(c, AliveCheck)
            /\ cpc' = [cpc EXCEPT ![c] = "waitAlive"]
       ELSE /\ Send(c, NewSession)
            /\ cpc' = [cpc EXCEPT ![c] = "sendFds"]
    /\ toCli' = [toCli EXCEPT ![c] = Tail(@)]
    /\ UNCHANGED <<listening, hpc, hcli, fdi, fds, sesscounter, kpc, reader,
                   rmsg, closedS, closedC, session, nfd>>

SendFd(c) ==
    /\ cpc[c] = "sendFds"
    /\ Send(c, Fd)
    /\ nfd' = [nfd EXCEPT ![c] = @ + 1]
    /\ cpc' = [cpc EXCEPT ![c] = IF nfd[c] = 2 THEN "waitOpened" ELSE "sendFds"]
    /\ UNCHANGED <<listening, hpc, hcli, fdi, fds, sesscounter, kpc, reader,
                   rmsg, toCli, closedS, closedC, session>>

\* A reply the client waits for: ALIVE ends `-O check`, SESSION_OPENED is
\* followed by EXIT.
Expected(c) ==
    CASE cpc[c] = "waitAlive" -> AliveCheck
      [] cpc[c] = "waitOpened" -> SessionOpened
      [] cpc[c] = "waitExit" -> Exit

RecvReply(c) ==
    /\ cpc[c] \in {"waitAlive", "waitOpened", "waitExit"}
    /\ Recv(c, Expected(c))
    /\ IF cpc[c] = "waitOpened"
       THEN /\ cpc' = [cpc EXCEPT ![c] = "waitExit"]
            /\ UNCHANGED closedC
       ELSE /\ cpc' = [cpc EXCEPT ![c] = "done"]
            /\ closedC' = [closedC EXCEPT ![c] = TRUE]
    /\ UNCHANGED <<listening, hpc, hcli, fdi, fds, sesscounter, kpc, reader,
                   rmsg, toSrv, closedS, session, nfd>>

Waiting(c) == cpc[c] \in {"waitHello", "waitAlive", "waitOpened", "waitExit"}

\* The server closed the connection before the reply came.
SeeHangup(c) ==
    /\ Waiting(c)
    /\ closedS[c] /\ toCli[c] = <<>>
    /\ cpc' = [cpc EXCEPT ![c] = "closed"]
    /\ closedC' = [closedC EXCEPT ![c] = TRUE]
    /\ UNCHANGED <<listening, hpc, hcli, fdi, fds, sesscounter, kpc, reader,
                   rmsg, toSrv, toCli, closedS, session, nfd>>

ClientDies(c) ==
    /\ ClientsMayDie
    /\ cpc[c] \notin {"idle", "done", "refused", "closed", "dead"}
    /\ cpc' = [cpc EXCEPT ![c] = "dead"]
    /\ closedC' = [closedC EXCEPT ![c] = TRUE]
    /\ UNCHANGED <<listening, hpc, hcli, fdi, fds, sesscounter, kpc, reader,
                   rmsg, toSrv, toCli, closedS, session, nfd>>

-----------------------------------------------------------------------------
Next ==
    \/ NewSessionOK \/ NewSessionFail \/ GetFdOK \/ GetFdFail
    \/ WireOK \/ WireFail \/ CloseStart \/ ControlKill
    \/ \E c \in Clients :
          \/ Connect(c) \/ ReadMsg(c) \/ HandleMsg(c) \/ SessionEnds(c)
          \/ SendHello(c) \/ RecvHello(c) \/ SendFd(c) \/ RecvReply(c)
          \/ SeeHangup(c) \/ ClientDies(c)

\* The Mux goroutines and the clients' reads always progress.  Once the
\* ssh client is closed every pending ssh call of handleControlMaster
\* fails.  The remote's answers and the clients' writes progress only
\* under FairPeers; the remote command and the user starting ssh never
\* have to.
Fairness ==
    /\ WF_vars(GetFdOK) /\ WF_vars(GetFdFail) /\ WF_vars(ControlKill)
    /\ WF_vars(kpc = "closing" /\ NewSessionFail)
    /\ WF_vars(kpc = "closing" /\ WireFail)
    /\ \A c \in Clients :
          /\ WF_vars(ReadMsg(c)) /\ WF_vars(HandleMsg(c))
          /\ WF_vars(RecvHello(c)) /\ WF_vars(RecvReply(c))
          /\ WF_vars(SeeHangup(c))
    /\ FairPeers =>
          /\ WF_vars(NewSessionOK \/ NewSessionFail)
          /\ WF_vars(WireOK \/ WireFail)
          /\ \A c \in Clients : WF_vars(SendHello(c)) /\ WF_vars(SendFd(c))

Spec == Init /\ [][Next]_vars /\ Fairness

-----------------------------------------------------------------------------
(* Properties.                                                             *)

\* Spec section 8, property 9: when handleControlMaster wires up a
\* NEW_SESSION's stdio, it has received all three of the client's
\* descriptors (no inOutErr slot is left at 0, i.e. metassh's own stdin).
FdsBeforeWiring == hpc = "wire" => fds = 3

\* A mux client waiting for HELLO, ALIVE or SESSION_OPENED gets it or sees
\* its connection closed: no readMsg goroutine is left handing a frame to
\* an m.cc nobody reads.
RequestsAnswered ==
    \A c \in Clients :
        cpc[c] \in {"waitHello", "waitAlive", "waitOpened"} ~>
            cpc[c] \notin {"waitHello", "waitAlive", "waitOpened"}

\* m.Close(), called from remoteHost's cleanup, returns.
CloseReturns == kpc = "closing" ~> kpc = "done"

=============================================================================
