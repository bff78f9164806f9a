------------------------------- MODULE Waiters -------------------------------
(***************************************************************************)
(* In-flight connect and run operations of metassh and the abort plumbing  *)
(* that reaches them.                                                      *)
(*                                                                         *)
(* Every proxyConnect (proxy.go) and runCmd (run.go, kept in main.go) is a *)
(* goroutine that registers a waitInfo with the State serializer, starts a *)
(* worker goroutine that does the network I/O and a sleep goroutine that   *)
(* sends TRUE on the waiter's buffered (capacity 1) timeoutChan, and then  *)
(* selects on the worker's response and on timeoutChan.  Whichever loses   *)
(* the race is drained by a helper goroutine.  The deferred                *)
(* Delete{Conn,Run}WaitInfo removes the registry entry, by host name, when *)
(* the goroutine returns.                                                  *)
(*                                                                         *)
(* TimeoutWaiters is handled inside the serializer goroutine: for every    *)
(* registered waiter it sends FALSE on that waiter's timeoutChan, conn     *)
(* waiters first, then run waiters, and only then serves the next request. *)
(* While it is sending, every other State call blocks.                     *)
(*                                                                         *)
(* Each serializer request that is answered in one step is one atomic      *)
(* action guarded by SerializerIdle; timeoutWaiters is modelled send by    *)
(* send because each send can block.                                       *)
(***************************************************************************)
EXTENDS Naturals, Sequences, FiniteSets

CONSTANTS
    Ops,        \* operations: one proxyConnect or runCmd goroutine each
    Hosts,      \* canonical host names, the keys of the waiter maps
    OpHost,     \* OpHost[o]: the host operation o is for (req.target / me)
    OpKind,     \* OpKind[o] = "conn" (proxyConnect) or "run" (runCmd)
    MaxAborts,  \* bound on TimeoutWaiters requests (abort, SIGQUIT, disco)
    NoWaiter    \* model value: no waitInfo under this key

Kinds == {"conn", "run"}

ASSUME /\ OpHost \in [Ops -> Hosts]
       /\ OpKind \in [Ops -> Kinds]
       /\ MaxAborts \in Nat

\* The waitInfo.state values each worker goes through, in order
\* (stateDialing .. stateDone and stateNewSession .. stateDone).
ConnStages == <<"dialing", "establishing", "newClient", "done">>
RunStages  == <<"newSession", "startSession", "running", "done">>
Stages(k) == IF k = "conn" THEN ConnStages ELSE RunStages

\* timeoutChan := make(chan bool, 1)
TimeoutChanCap == 1

\* Positions of the worker goroutine: before it starts, inside stage 1..3,
\* sending its response, gone.
NotStarted == 0
Responding == 4
Exited     == 5

WaiterEntry == [op : Ops, state : {ConnStages[i] : i \in 1..4}
                                  \cup {RunStages[i] : i \in 1..4}]

VARIABLES
    waiters,   \* waiters["conn"] is State.connWaiters, waiters["run"] is
               \* State.runWaiters: host -> [op, state] or NoWaiter; op
               \* stands for the timeoutChan the entry holds
    aborting,  \* the serializer is inside its timeoutWaiters case
    pending,   \* waiters the current timeoutWaiters has not yet sent to
    aborts,    \* TimeoutWaiters requests served so far
    pc,        \* the operation goroutine: idle, select, returned, done
    wpc,       \* the worker goroutine: NotStarted, 1..3, Responding, Exited
    wres,      \* what the worker sends on its response channel
    reply,     \* what the caller received on req.response
    tchan,     \* contents of the operation's timeoutChan
    sleeping,  \* the sleep goroutine has not delivered its TRUE yet
    drainT,    \* `go func() { <-timeoutChan }()` is still waiting
    drainR     \* the straggler drain of the worker's response is waiting

vars == <<waiters, aborting, pending, aborts, pc, wpc, wres, reply, tchan,
          sleeping, drainT, drainR>>
opVars == <<pc, wpc, wres, reply, tchan, sleeping, drainT, drainR>>

TypeOK ==
    /\ waiters \in [Kinds -> [Hosts -> WaiterEntry \cup {NoWaiter}]]
    /\ aborting \in BOOLEAN
    /\ pending \subseteq Ops
    /\ aborts \in 0..MaxAborts
    /\ pc \in [Ops -> {"idle", "select", "returned", "done"}]
    /\ wpc \in [Ops -> NotStarted .. Exited]
    /\ wres \in [Ops -> {"none", "ok", "failed"}]
    /\ reply \in [Ops -> {"none", "ok", "failed", "timedout", "aborted"}]
    /\ \A o \in Ops : tchan[o] \in Seq(BOOLEAN)
                      /\ Len(tchan[o]) <= TimeoutChanCap
    /\ sleeping \in [Ops -> BOOLEAN]
    /\ drainT \in [Ops -> BOOLEAN]
    /\ drainR \in [Ops -> BOOLEAN]

Init ==
    /\ waiters = [k \in Kinds |-> [h \in Hosts |-> NoWaiter]]
    /\ aborting = FALSE
    /\ pending = {}
    /\ aborts = 0
    /\ pc = [o \in Ops |-> "idle"]
    /\ wpc = [o \in Ops |-> NotStarted]
    /\ wres = [o \in Ops |-> "none"]
    /\ reply = [o \in Ops |-> "none"]
    /\ tchan = [o \in Ops |-> <<>>]
    /\ sleeping = [o \in Ops |-> FALSE]
    /\ drainT = [o \in Ops |-> FALSE]
    /\ drainR = [o \in Ops |-> FALSE]

-----------------------------------------------------------------------------
(* The serializer's handling of the waiter requests.                       *)

\* A State call can only be served when the serializer is not stuck in
\* timeoutWaiters.
SerializerIdle == ~aborting

\* setConnWaitInfo / setRunWaitInfo: store under the host name, overwriting
\* whatever entry that key had.
SetWaitInfo(k, h, o) ==
    waiters' = [waiters EXCEPT ![k][h] = [op |-> o, state |-> Stages(k)[1]]]

\* setConnWaitState / setRunWaitState: update the entry only if present.
SetWaitState(k, h, s) ==
    waiters' = IF waiters[k][h] # NoWaiter
               THEN [waiters EXCEPT ![k][h].state = s]
               ELSE waiters

\* deleteConnWaitInfo / deleteRunWaitInfo: delete by host name.
DeleteWaitInfo(k, h) ==
    waiters' = [waiters EXCEPT ![k][h] = NoWaiter]

\* The timeout channels the registry currently holds, per map.
RegisteredOps(k) ==
    {waiters[k][h].op : h \in {x \in Hosts : waiters[k][x] # NoWaiter}}

\* timeoutWaiters, first part: the request is taken, the serializer starts
\* ranging over both maps.
TimeoutWaitersBegin ==
    /\ SerializerIdle
    /\ aborts < MaxAborts
    /\ aborting' = TRUE
    /\ pending' = RegisteredOps("conn") \cup RegisteredOps("run")
    /\ aborts' = aborts + 1
    /\ UNCHANGED <<waiters, opVars>>

\* One `timeoutChan <- false`, conn waiters before run waiters; it blocks
\* while the channel's buffer is full.
TimeoutWaitersSend(o) ==
    /\ aborting
    /\ o \in pending
    /\ OpKind[o] = "run" => \A p \in pending : OpKind[p] = "run"
    /\ Len(tchan[o]) < TimeoutChanCap
    /\ tchan' = [tchan EXCEPT ![o] = Append(@, FALSE)]
    /\ pending' = pending \ {o}
    /\ UNCHANGED <<waiters, aborting, aborts, pc, wpc, wres, reply, sleeping,
                   drainT, drainR>>

\* twReq.respChan <- true: the serializer serves requests again.
TimeoutWaitersReply ==
    /\ aborting
    /\ pending = {}
    /\ aborting' = FALSE
    /\ UNCHANGED <<waiters, pending, aborts, opVars>>

-----------------------------------------------------------------------------
(* One operation: runCmd, or proxyConnect (same shape, conn stages).       *)

\* SetRunWaitInfo (SetConnWaitInfo), then `go` worker and `go sleep`.
Register(o) ==
    /\ pc[o] = "idle"
    /\ SerializerIdle
    /\ SetWaitInfo(OpKind[o], OpHost[o], o)
    /\ pc' = [pc EXCEPT ![o] = "select"]
    /\ wpc' = [wpc EXCEPT ![o] = 1]
    /\ sleeping' = [sleeping EXCEPT ![o] = TRUE]
    /\ UNCHANGED <<aborting, pending, aborts, wres, reply, tchan, drainT,
                   drainR>>

\* The I/O after stage 1 or 2 fails (NewSession / Start, client.Dial /
\* NewClientConn) and the worker goes to send its error response.  The conn
\* worker's first step begins with GetSSHConfig, a State call.  A failed
\* NewClientConn may first have run the password closure (SetRequiresPw,
\* another State call, resolve.go:74-77); Waiters does not model that
\* entry, so that failure is the same step as one before authentication.
WorkerFail(o) ==
    /\ wpc[o] \in {1, 2}
    /\ OpKind[o] = "conn" /\ wpc[o] = 1 => SerializerIdle
    /\ wpc' = [wpc EXCEPT ![o] = Responding]
    /\ wres' = [wres EXCEPT ![o] = "failed"]
    /\ UNCHANGED <<waiters, aborting, pending, aborts, pc, reply, tchan,
                   sleeping, drainT, drainR>>

\* The I/O succeeds and the worker reports the next stage with
\* Set{Conn,Run}WaitState; after the last one it sends its response (for a
\* run, session.Wait's error, if any, travels in that response).
WorkerAdvance(o) ==
    /\ wpc[o] \in 1..3
    /\ SerializerIdle
    /\ SetWaitState(OpKind[o], OpHost[o], Stages(OpKind[o])[wpc[o] + 1])
    /\ IF wpc[o] = 3
       THEN /\ wpc' = [wpc EXCEPT ![o] = Responding]
            /\ \E r \in IF OpKind[o] = "run" THEN {"ok", "failed"}
                                              ELSE {"ok"} :
                   wres' = [wres EXCEPT ![o] = r]
       ELSE /\ wpc' = [wpc EXCEPT ![o] = wpc[o] + 1]
            /\ UNCHANGED wres
    /\ UNCHANGED <<aborting, pending, aborts, pc, reply, tchan, sleeping,
                   drainT, drainR>>

\* Mutant: the sleep goroutine's send ignores the channel's capacity.
SleepFiresUnbounded(o) ==
    /\ sleeping[o]
    /\ tchan' = [tchan EXCEPT ![o] = Append(@, TRUE)]
    /\ sleeping' = [sleeping EXCEPT ![o] = FALSE]
    /\ UNCHANGED <<waiters, aborting, pending, aborts, pc, wpc, wres, reply,
                   drainT, drainR>>

\* sleep(): after the timeout, `done <- true`; blocks while the buffer is full.
SleepFires(o) ==
    /\ sleeping[o]
    /\ Len(tchan[o]) < TimeoutChanCap
    /\ tchan' = [tchan EXCEPT ![o] = Append(@, TRUE)]
    /\ sleeping' = [sleeping EXCEPT ![o] = FALSE]
    /\ UNCHANGED <<waiters, aborting, pending, aborts, pc, wpc, wres, reply,
                   drainT, drainR>>

\* Mutant: the resp case returns without draining timeoutChan.
ReceiveResponseNoDrain(o) ==
    /\ pc[o] = "select"
    /\ wpc[o] = Responding
    /\ reply' = [reply EXCEPT ![o] = wres[o]]
    /\ pc' = [pc EXCEPT ![o] = "returned"]
    /\ wpc' = [wpc EXCEPT ![o] = Exited]
    /\ UNCHANGED <<waiters, aborting, pending, aborts, wres, tchan, sleeping,
                   drainT, drainR>>

\* case resp := <-runResp: pass the response on, leave a goroutine to drain
\* timeoutChan, return.
ReceiveResponse(o) ==
    /\ pc[o] = "select"
    /\ wpc[o] = Responding
    /\ reply' = [reply EXCEPT ![o] = wres[o]]
    /\ pc' = [pc EXCEPT ![o] = "returned"]
    /\ wpc' = [wpc EXCEPT ![o] = Exited]
    /\ drainT' = [drainT EXCEPT ![o] = TRUE]
    /\ UNCHANGED <<waiters, aborting, pending, aborts, wres, tchan, sleeping,
                   drainR>>

\* Mutant: the timeout case leaves no goroutine to catch the straggler.
ReceiveTimeoutNoDrain(o) ==
    /\ pc[o] = "select"
    /\ tchan[o] # <<>>
    /\ reply' = [reply EXCEPT ![o] = IF Head(tchan[o]) THEN "timedout"
                                                       ELSE "aborted"]
    /\ tchan' = [tchan EXCEPT ![o] = Tail(@)]
    /\ pc' = [pc EXCEPT ![o] = "returned"]
    /\ UNCHANGED <<waiters, aborting, pending, aborts, wpc, wres, sleeping,
                   drainT, drainR>>

\* case organic := <-timeoutChan: reply "timed out" (TRUE) or "aborted"
\* (FALSE), leave a goroutine to catch the worker's straggling response,
\* return.
ReceiveTimeout(o) ==
    /\ pc[o] = "select"
    /\ tchan[o] # <<>>
    /\ reply' = [reply EXCEPT ![o] = IF Head(tchan[o]) THEN "timedout"
                                                       ELSE "aborted"]
    /\ tchan' = [tchan EXCEPT ![o] = Tail(@)]
    /\ pc' = [pc EXCEPT ![o] = "returned"]
    /\ drainR' = [drainR EXCEPT ![o] = TRUE]
    /\ UNCHANGED <<waiters, aborting, pending, aborts, wpc, wres, sleeping,
                   drainT>>

\* go func() { <-timeoutChan }()
DrainTimeoutChan(o) ==
    /\ drainT[o]
    /\ tchan[o] # <<>>
    /\ tchan' = [tchan EXCEPT ![o] = Tail(@)]
    /\ drainT' = [drainT EXCEPT ![o] = FALSE]
    /\ UNCHANGED <<waiters, aborting, pending, aborts, pc, wpc, wres, reply,
                   sleeping, drainR>>

\* go func() { resp := <-runResp ... }()
DrainStraggler(o) ==
    /\ drainR[o]
    /\ wpc[o] = Responding
    /\ wpc' = [wpc EXCEPT ![o] = Exited]
    /\ drainR' = [drainR EXCEPT ![o] = FALSE]
    /\ UNCHANGED <<waiters, aborting, pending, aborts, pc, wres, reply, tchan,
                   sleeping, drainT>>

\* The deferred Delete{Run,Conn}WaitInfo(me) as the goroutine returns.
Return(o) ==
    /\ pc[o] = "returned"
    /\ SerializerIdle
    /\ DeleteWaitInfo(OpKind[o], OpHost[o])
    /\ pc' = [pc EXCEPT ![o] = "done"]
    /\ UNCHANGED <<aborting, pending, aborts, wpc, wres, reply, tchan,
                   sleeping, drainT, drainR>>

-----------------------------------------------------------------------------
Next ==
    \/ TimeoutWaitersBegin
    \/ TimeoutWaitersReply
    \/ \E o \in Ops :
        \/ TimeoutWaitersSend(o)
        \/ Register(o)
        \/ WorkerFail(o)
        \/ WorkerAdvance(o)
        \/ SleepFires(o)
        \/ ReceiveResponse(o)
        \/ ReceiveTimeout(o)
        \/ DrainTimeoutChan(o)
        \/ DrainStraggler(o)
        \/ Return(o)

(* The Go scheduler eventually runs every runnable goroutine and the sleep *)
(* timer always expires, so every step that is not network I/O is weakly   *)
(* fair.  The worker's I/O steps carry no fairness: a dial or a remote     *)
(* command may hang forever, which is what the timer is for.  Starting an  *)
(* operation or an abort is up to the user.                                *)
Fairness ==
    /\ WF_vars(TimeoutWaitersReply)
    /\ \A o \in Ops :
        /\ WF_vars(TimeoutWaitersSend(o))
        /\ WF_vars(SleepFires(o))
        /\ WF_vars(ReceiveResponse(o))
        /\ WF_vars(ReceiveTimeout(o))
        /\ WF_vars(DrainTimeoutChan(o))
        /\ WF_vars(DrainStraggler(o))
        /\ WF_vars(Return(o))

Spec == Init /\ [][Next]_vars /\ Fairness

-----------------------------------------------------------------------------
(* Properties.                                                             *)

InFlight(o) == pc[o] \in {"select", "returned"}

Registered(o) ==
    /\ waiters[OpKind[o]][OpHost[o]] # NoWaiter
    /\ waiters[OpKind[o]][OpHost[o]].op = o

\* The count GetWaiterInfo reports for each kind equals the number of live
\* operations of that kind (spec section 8, property 4).
WaiterCountAccurate ==
    \A k \in Kinds :
        Cardinality({h \in Hosts : waiters[k][h] # NoWaiter})
          = Cardinality({o \in Ops : OpKind[o] = k /\ InFlight(o)})

\* The serializer, sending FALSE inside timeoutWaiters, never waits on a
\* full timeoutChan that no goroutine will read again: each channel it still
\* has to reach is either empty or still has its select or its drain
\* goroutine ahead of it.  Otherwise every State call blocks for good.
NoStuckAbortSend ==
    \A o \in pending :
        Len(tchan[o]) = TimeoutChanCap => (pc[o] = "select" \/ drainT[o])

\* Every operation that registers eventually answers its caller and removes
\* its waiter: neither a hung worker nor an abort leaves it stuck.
EveryOpReturns ==
    \A o \in Ops : pc[o] = "select" ~> pc[o] = "done"

\* A worker that has its response ready always gets it taken, by the select
\* or by the straggler drain, so it never leaks blocked on the send.
WorkerResponseTaken ==
    \A o \in Ops : wpc[o] = Responding ~> wpc[o] = Exited

=============================================================================
