------------------------------ MODULE Resolver ------------------------------
(***************************************************************************)
(* Connection establishment: connectEverywhere (connect.go) first runs     *)
(* resolveProxies, which resolves every distinct bastion prefix of the     *)
(* targets' chains one after the other with isProxy = true, then starts    *)
(* one goroutine per target not yet connected, each resolving its whole    *)
(* chain with isProxy = false and recording connectedOK.                   *)
(*                                                                         *)
(* resolve (resolve.go) walks a chain hop by hop, skipping hops that       *)
(* already have a ConnInfo.  The first hop is dialled BastionConns times   *)
(* in parallel; every successful dial starts a remoteHost loop on the      *)
(* hop's new inbox and calls SetConnInfo, which only inserts if absent.    *)
(* A later hop is a proxyRequest to its predecessor's loop, whose          *)
(* proxyConnect (see Waiters) answers with a client or an error.  With     *)
(* password auth on, a dial whose key auth fails calls SetRequiresPw,      *)
(* which dereferences s.targets[host] unchecked.                           *)
(*                                                                         *)
(* The disco command (disconnectEverywhere) runs in the same CLI session:  *)
(* after connect returns, or, after `connect -b`, while connectEverywhere  *)
(* runs in the background.  Its three passes over GetConnKeys send         *)
(* cleanupRequests to the loops and delete the ConnInfos.                  *)
(***************************************************************************)
EXTENDS Naturals, Sequences, FiniteSets

CONSTANTS
    Targets,       \* the hosts of the JSON inventory (State.targets)
    Chain,         \* Chain[t]: hop sequence of t, ending with t
    BastionConns,  \* e.c.BastionConns
    Concurrency,   \* capacity of connectEverywhere's limiter (e.c.Concurrency,
                   \* 128 with --agent)
    DialFailures,  \* how many of a hop's dials may fail or time out
    Password,      \* e.c.Password
    KeyAuthFails,  \* hosts that reject the key, so the password is tried
    RP,            \* the resolveProxies caller, as a resolver
    Background,    \* connect -b: disco may start while connectEverywhere runs
    None

Resolvers == Targets \cup {RP}
Hosts == UNION {{Chain[t][i] : i \in 1..Len(Chain[t])} : t \in Targets}

\* Mutant: the whole chain taken as the prefix (slice bound off by one).
PrefixWhole(t) == Chain[t]

\* The bastion prefix of t's chain, as resolveProxies computes it.
Prefix(t) == SubSeq(Chain[t], 1, Len(Chain[t]) - 1)

\* Hosts some target is reached through.
Bastions == UNION {{Chain[t][i] : i \in 1..(Len(Chain[t]) - 1)} : t \in Targets}

ASSUME /\ \A t \in Targets : Len(Chain[t]) > 0 /\ Chain[t][Len(Chain[t])] = t
       /\ DialFailures \subseteq 0..BastionConns
       /\ Concurrency \in Nat
       /\ Password \in BOOLEAN /\ Background \in BOOLEAN
       /\ KeyAuthFails \subseteq Hosts

VARIABLES
    conn,        \* conn[h]: h's ConnInfo (isProxy, isDirect, owner) or None
    loops,       \* loops[h][r]: remoteHost loops on the inbox r made for h
    proxyCount,  \* ConnInfo.proxyCount
    status,      \* status[t]: connectedOK of t's HostInfo: none, ok, failed
    requiresPw,  \* HostInfo.requiresPw
    panicked,    \* the serializer died of a nil dereference
    exited,      \* resolveProxies called ErrExit
    todo,        \* resolveProxies: host keys not yet visited
    seen,        \* resolveProxies: chainMap's keys
    rpc,         \* rpc[r]: idle, pick (RP), hop, dial, proxy, done, skipped
    chain,       \* chain[r]: the chain r is resolving
    hop,         \* hop[r]: index of the hop r is at
    dials,       \* dials[r]: successful dials of the hop still to register
    ceWait,      \* the target connectEverywhere's loop is blocked on at
                 \* `limiter <- struct{}{}`, or None
    inbox,       \* inbox[r]: the reqChan of the proxy ConnInfo r looked up
    dpc,         \* disco: idle, pick, send, done
    dpass,       \* disco: the pass, 1..3
    dkeys,       \* disco: the rest of the pass's GetConnKeys snapshot
    dcur,        \* disco: the key whose ConnInfo it holds
    dsends       \* disco: cleanupRequests still to send for dcur

vars == <<conn, loops, proxyCount, status, requiresPw, panicked, exited, todo,
          seen, rpc, chain, hop, dials, ceWait, inbox, dpc, dpass, dkeys, dcur,
          dsends>>
discoVars == <<dpc, dpass, dkeys, dcur, dsends>>

ConnInfos == [proxy : BOOLEAN, direct : BOOLEAN, owner : Resolvers]

TypeOK ==
    /\ conn \in [Hosts -> ConnInfos \cup {None}]
    /\ loops \in [Hosts -> [Resolvers -> 0..BastionConns]]
    /\ proxyCount \in [Hosts -> 0..Cardinality(Hosts)]
    /\ status \in [Targets -> {"none", "ok", "failed"}]
    /\ requiresPw \in [Targets -> BOOLEAN]
    /\ panicked \in BOOLEAN /\ exited \in BOOLEAN
    /\ todo \subseteq Targets
    /\ rpc \in [Resolvers -> {"idle", "pick", "hop", "dial", "send", "proxy",
                              "done", "skipped"}]
    /\ hop \in [Resolvers -> Nat]
    /\ dials \in [Resolvers -> 0..BastionConns]
    /\ ceWait \in Targets \cup {None}
    /\ inbox \in [Resolvers -> Resolvers \cup {None}]
    /\ dpc \in {"idle", "pick", "send", "done"} /\ dpass \in 1..3
    /\ dkeys \subseteq Hosts /\ dcur \in Hosts \cup {None}
    /\ dsends \in 0..BastionConns

\* After LoadFile: targets known, nothing connected.
Init ==
    /\ conn = [h \in Hosts |-> None]
    /\ loops = [h \in Hosts |-> [r \in Resolvers |-> 0]]
    /\ proxyCount = [h \in Hosts |-> 0]
    /\ status = [t \in Targets |-> "none"]
    /\ requiresPw = [t \in Targets |-> FALSE]
    /\ panicked = FALSE /\ exited = FALSE
    /\ todo = Targets /\ seen = {}
    /\ rpc = [r \in Resolvers |-> IF r = RP THEN "pick" ELSE "idle"]
    /\ chain = [r \in Resolvers |-> <<>>]
    /\ hop = [r \in Resolvers |-> 0]
    /\ dials = [r \in Resolvers |-> 0]
    /\ ceWait = None
    /\ inbox = [r \in Resolvers |-> None]
    /\ dpc = "idle" /\ dpass = 1 /\ dkeys = {} /\ dcur = None /\ dsends = 0

Running == ~panicked /\ ~exited

Link(r) == chain[r][hop[r]]

IsProxyArg(r) == r = RP

\* SetConnInfo: the serializer keeps an existing entry.
SetConnInfo(h, ci) ==
    conn' = IF conn[h] = None THEN [conn EXCEPT ![h] = ci] ELSE conn

\* The serializer's setRequiresPw case writes through s.targets[host],
\* a nil dereference for a host that is not a target.
SetRequiresPw(h) ==
    IF h \in Targets
    THEN /\ requiresPw' = [requiresPw EXCEPT ![h] = TRUE]
         /\ UNCHANGED panicked
    ELSE /\ panicked' = TRUE
         /\ UNCHANGED requiresPw

PasswordTried(h) ==
    IF Password /\ h \in KeyAuthFails
    THEN SetRequiresPw(h)
    ELSE UNCHANGED <<requiresPw, panicked>>

\* The serializer's setConnectionStatus case: connectedOK of a target.
SetConnectionStatus(t, ok) ==
    status' = [status EXCEPT ![t] = IF ok THEN "ok" ELSE "failed"]

\* The serializer's incProxyCount case, `s.conn[host].proxyCount++`: a nil
\* dereference once disco deleted the proxy's ConnInfo.
IncProxyCount(h) ==
    IF conn[h] # None
    THEN /\ proxyCount' = [proxyCount EXCEPT ![h] = @ + 1]
         /\ UNCHANGED panicked
    ELSE /\ panicked' = TRUE
         /\ UNCHANGED proxyCount

\* The end of resolve: the next prefix for resolveProxies, connectedOK for
\* a target (err == nil).
Finish(r, ok) ==
    IF r = RP
    THEN IF ok THEN /\ rpc' = [rpc EXCEPT ![r] = "pick"]
                    /\ UNCHANGED <<status, exited>>
               ELSE /\ exited' = TRUE
                    /\ UNCHANGED <<rpc, status>>
    ELSE /\ rpc' = [rpc EXCEPT ![r] = "done"]
         /\ SetConnectionStatus(r, ok)
         /\ UNCHANGED exited

\* Mutant: the ConnExists check answers false.
ConnExistsNever(h) == FALSE

\* ConnExists(link).
ConnExists(h) == conn[h] # None

\* Mutant: one dial too many (`i <= BastionConns`).
DialAttemptsOffByOne == BastionConns + 1

\* resolve dials a direct hop this many times.
DialAttempts == BastionConns

-----------------------------------------------------------------------------
(* resolveProxies and connectEverywhere.                                   *)

\* The next host key: a direct target is skipped, a prefix already in
\* chainMap only counted, a new one resolved with isProxy = true.
ResolveProxiesPick ==
    /\ Running
    /\ rpc[RP] = "pick"
    /\ IF todo = {}
       THEN /\ rpc' = [rpc EXCEPT ![RP] = "done"]
            /\ UNCHANGED <<todo, seen, chain, hop>>
       ELSE \E t \in todo :
              /\ todo' = todo \ {t}
              /\ IF Len(Chain[t]) = 1 \/ Prefix(t) \in seen
                 THEN UNCHANGED <<seen, rpc, chain, hop>>
                 ELSE /\ seen' = seen \cup {Prefix(t)}
                      /\ chain' = [chain EXCEPT ![RP] = Prefix(t)]
                      /\ hop' = [hop EXCEPT ![RP] = 1]
                      /\ rpc' = [rpc EXCEPT ![RP] = "hop"]
    /\ UNCHANGED <<conn, loops, proxyCount, status, requiresPw, panicked,
                   exited, dials, ceWait, inbox, discoVars>>

\* The target goroutines holding a slot of the limiter: started, and not
\* yet past their deferred `<-limiter`.
Holding == {t \in Targets : rpc[t] \in {"hop", "dial", "send", "proxy"}}

\* connectEverywhere's loop over the host keys, once resolveProxies is
\* done: a connected target is skipped, any other is wg.Add'ed and the
\* loop sends to the limiter.
Spawn(t) ==
    /\ Running
    /\ rpc[RP] = "done"
    /\ rpc[t] = "idle"
    /\ ceWait = None
    /\ IF ConnExists(t)
       THEN /\ rpc' = [rpc EXCEPT ![t] = "skipped"]
            /\ UNCHANGED ceWait
       ELSE /\ ceWait' = t
            /\ UNCHANGED rpc
    /\ UNCHANGED <<conn, loops, proxyCount, status, requiresPw, panicked,
                   exited, todo, seen, chain, hop, dials, inbox, discoVars>>

\* The limiter has room: the send completes and `go func(me)` starts
\* resolving me's chain.
Acquire ==
    /\ Running
    /\ ceWait # None
    /\ Cardinality(Holding) < Concurrency
    /\ rpc' = [rpc EXCEPT ![ceWait] = "hop"]
    /\ chain' = [chain EXCEPT ![ceWait] = Chain[ceWait]]
    /\ hop' = [hop EXCEPT ![ceWait] = 1]
    /\ ceWait' = None
    /\ UNCHANGED <<conn, loops, proxyCount, status, requiresPw, panicked,
                   exited, todo, seen, dials, inbox, discoVars>>

-----------------------------------------------------------------------------
(* resolve.                                                                *)

\* The chain is done: return nil.
ResolveDone(r) ==
    /\ Running
    /\ rpc[r] = "hop"
    /\ hop[r] > Len(chain[r])
    /\ Finish(r, TRUE)
    /\ UNCHANGED <<conn, loops, proxyCount, requiresPw, panicked, todo, seen,
                   chain, hop, dials, ceWait, inbox, discoVars>>

\* A hop that already has a ConnInfo is skipped; so is a proxied hop whose
\* proxy's GetConnInfo fails (`continue`).
HopSkip(r) ==
    /\ Running
    /\ rpc[r] = "hop"
    /\ hop[r] <= Len(chain[r])
    /\ \/ ConnExists(Link(r))
       \/ hop[r] > 1 /\ ~ConnExists(chain[r][hop[r] - 1])
    /\ hop' = [hop EXCEPT ![r] = @ + 1]
    /\ UNCHANGED <<conn, loops, proxyCount, status, requiresPw, panicked,
                   exited, todo, seen, rpc, chain, dials, ceWait, inbox, discoVars>>

\* A direct hop: BastionConns dial goroutines, of which some fail or time
\* out; the password closure runs on a host that rejects the key.
DialStart(r) ==
    /\ Running
    /\ rpc[r] = "hop"
    /\ hop[r] = 1 /\ hop[r] <= Len(chain[r])
    /\ ~ConnExists(Link(r))
    /\ \E f \in DialFailures : dials' = [dials EXCEPT ![r] = DialAttempts - f]
    /\ PasswordTried(Link(r))
    /\ rpc' = [rpc EXCEPT ![r] = "dial"]
    /\ UNCHANGED <<conn, loops, proxyCount, status, exited, todo, seen, chain,
                   hop, ceWait, inbox, discoVars>>

\* A successful dial: `go remoteHost(link, id, reqChan, ...)`, SetConnInfo.
DialSuccess(r) ==
    /\ Running
    /\ rpc[r] = "dial"
    /\ dials[r] > 0
    /\ loops' = [loops EXCEPT ![Link(r)][r] = @ + 1]
    /\ SetConnInfo(Link(r), [proxy |-> IsProxyArg(r), direct |-> TRUE,
                             owner |-> r])
    /\ dials' = [dials EXCEPT ![r] = @ - 1]
    /\ UNCHANGED <<proxyCount, status, requiresPw, panicked, exited, todo,
                   seen, rpc, chain, hop, ceWait, inbox, discoVars>>

\* Mutant: wg.Done only on the success path.
DialsDoneOnSuccess(r) ==
    /\ Running
    /\ rpc[r] = "dial"
    /\ dials[r] = 0
    /\ loops[Link(r)][r] = DialAttempts
    /\ rpc' = [rpc EXCEPT ![r] = "hop"]
    /\ hop' = [hop EXCEPT ![r] = @ + 1]
    /\ UNCHANGED <<conn, loops, proxyCount, status, requiresPw, panicked,
                   exited, todo, seen, chain, dials, ceWait, inbox, discoVars>>

\* wg.Wait() returns once every dial goroutine is done, whatever the
\* outcome, and resolve goes on to the next hop.
DialsDone(r) ==
    /\ Running
    /\ rpc[r] = "dial"
    /\ dials[r] = 0
    /\ rpc' = [rpc EXCEPT ![r] = "hop"]
    /\ hop' = [hop EXCEPT ![r] = @ + 1]
    /\ UNCHANGED <<conn, loops, proxyCount, status, requiresPw, panicked,
                   exited, todo, seen, chain, dials, ceWait, inbox, discoVars>>

\* A proxied hop whose proxy has a ConnInfo: GetConnInfo(proxyhost) hands
\* back its reqChan.
ProxyStart(r) ==
    /\ Running
    /\ rpc[r] = "hop"
    /\ hop[r] > 1 /\ hop[r] <= Len(chain[r])
    /\ ~ConnExists(Link(r))
    /\ ConnExists(chain[r][hop[r] - 1])
    /\ inbox' = [inbox EXCEPT ![r] = conn[chain[r][hop[r] - 1]].owner]
    /\ rpc' = [rpc EXCEPT ![r] = "send"]
    /\ UNCHANGED <<conn, loops, proxyCount, status, requiresPw, panicked,
                   exited, todo, seen, chain, hop, dials, ceWait, discoVars>>

\* `ci.reqChan <- req`: a loop still reading that inbox takes the request
\* and starts proxyConnect, whose handshake runs the password closure.
\* With every loop of the inbox gone the send blocks for good.
ProxySend(r) ==
    /\ Running
    /\ rpc[r] = "send"
    /\ loops[chain[r][hop[r] - 1]][inbox[r]] > 0
    /\ PasswordTried(Link(r))
    /\ rpc' = [rpc EXCEPT ![r] = "proxy"]
    /\ UNCHANGED <<conn, loops, proxyCount, status, exited, todo, seen, chain,
                   hop, dials, ceWait, inbox, discoVars>>

\* proxyConnect answers with a client: IncProxyCount(proxyhost),
\* `go remoteHost(link, 0, newreq, ...)`, SetConnInfo.
ProxyOK(r) ==
    /\ Running
    /\ rpc[r] = "proxy"
    /\ IncProxyCount(chain[r][hop[r] - 1])
    /\ loops' = [loops EXCEPT ![Link(r)][r] = 1]
    /\ SetConnInfo(Link(r), [proxy |-> IsProxyArg(r), direct |-> FALSE,
                             owner |-> r])
    /\ rpc' = [rpc EXCEPT ![r] = "hop"]
    /\ hop' = [hop EXCEPT ![r] = @ + 1]
    /\ UNCHANGED <<status, requiresPw, exited, todo, seen, chain, dials, ceWait,
                   inbox, discoVars>>

\* Mutant: a failed proxied hop `continue`s instead of returning the error.
ProxyFailContinue(r) ==
    /\ Running
    /\ rpc[r] = "proxy"
    /\ rpc' = [rpc EXCEPT ![r] = "hop"]
    /\ hop' = [hop EXCEPT ![r] = @ + 1]
    /\ UNCHANGED <<conn, loops, proxyCount, status, requiresPw, panicked,
                   exited, todo, seen, chain, dials, ceWait, inbox, discoVars>>

\* proxyConnect answers with an error (refused, timed out, aborted):
\* resolve returns it.
ProxyFail(r) ==
    /\ Running
    /\ rpc[r] = "proxy"
    /\ Finish(r, FALSE)
    /\ UNCHANGED <<conn, loops, proxyCount, requiresPw, panicked, todo, seen,
                   chain, hop, dials, ceWait, inbox, discoVars>>

-----------------------------------------------------------------------------
(* disco: disconnectEverywhere(e, true).                                   *)

\* connectEverywhere has returned: resolveProxies and every target's
\* goroutine are done (wg.Wait).
ConnectReturned ==
    rpc[RP] = "done" /\ \A t \in Targets : rpc[t] \in {"done", "skipped"}

\* GetConnKeys.
GetConnKeys == {h \in Hosts : ConnExists(h)}

\* The three passes' filters on the ConnInfo: non-proxies; indirect
\* proxies; direct proxies (anything else is logged and skipped).
DiscoSelected(p, ci) ==
    CASE p = 1 -> ~ci.proxy
      [] p = 2 -> ci.proxy /\ ~ci.direct
      [] p = 3 -> ci.proxy /\ ci.direct

\* cleanupRequests per host: BastionConns for a direct proxy, else one.
DiscoCleanups(p) == IF p = 3 THEN BastionConns ELSE 1

\* disco typed after connect returned, or at any time after `connect -b`.
\* TimeoutWaiters aborts the proxyConnects in flight, which then answer
\* with an error: ProxyFail, already a possible answer.  Then the first
\* pass's GetConnKeys.
DiscoStart ==
    /\ Running
    /\ dpc = "idle"
    /\ Background \/ ConnectReturned
    /\ dpc' = "pick" /\ dpass' = 1 /\ dkeys' = GetConnKeys
    /\ UNCHANGED <<conn, loops, proxyCount, status, requiresPw, panicked,
                   exited, todo, seen, rpc, chain, hop, dials, ceWait, inbox,
                   dcur, dsends>>

\* The next key of the snapshot: GetConnInfo fails for a key deleted since
\* (`continue`), the pass's filter skips the others it does not select.
DiscoPick ==
    /\ Running
    /\ dpc = "pick"
    /\ \E h \in dkeys :
          /\ dkeys' = dkeys \ {h}
          /\ IF ConnExists(h) /\ DiscoSelected(dpass, conn[h])
             THEN /\ dpc' = "send" /\ dcur' = h
                  /\ dsends' = DiscoCleanups(dpass)
             ELSE UNCHANGED <<dpc, dcur, dsends>>
    /\ UNCHANGED <<conn, loops, proxyCount, status, requiresPw, panicked,
                   exited, todo, seen, rpc, chain, hop, dials, ceWait, inbox,
                   dpass>>

\* `ci.reqChan <- cleanupRequest{respChan}; <-respChan`: one loop of the
\* inbox closes its client, replies and returns.  With no loop left on
\* the inbox the send blocks for good.
DiscoSend ==
    /\ Running
    /\ dpc = "send"
    /\ dsends > 0
    /\ loops[dcur][conn[dcur].owner] > 0
    /\ loops' = [loops EXCEPT ![dcur][conn[dcur].owner] = @ - 1]
    /\ dsends' = dsends - 1
    /\ UNCHANGED <<conn, proxyCount, status, requiresPw, panicked, exited,
                   todo, seen, rpc, chain, hop, dials, ceWait, inbox, dpc,
                   dpass, dkeys, dcur>>

\* e.s.DeleteConnInfo(ck[i]).
DiscoDelete ==
    /\ Running
    /\ dpc = "send"
    /\ dsends = 0
    /\ conn' = [conn EXCEPT ![dcur] = None]
    /\ dpc' = "pick" /\ dcur' = None
    /\ UNCHANGED <<loops, proxyCount, status, requiresPw, panicked, exited,
                   todo, seen, rpc, chain, hop, dials, ceWait, inbox, dpass,
                   dkeys, dsends>>

\* The snapshot is done: the next pass takes a fresh GetConnKeys; after
\* the third, disco returns.
DiscoNextPass ==
    /\ Running
    /\ dpc = "pick"
    /\ dkeys = {}
    /\ IF dpass < 3
       THEN /\ dpass' = dpass + 1 /\ dkeys' = GetConnKeys
            /\ UNCHANGED dpc
       ELSE /\ dpc' = "done"
            /\ UNCHANGED <<dpass, dkeys>>
    /\ UNCHANGED <<conn, loops, proxyCount, status, requiresPw, panicked,
                   exited, todo, seen, rpc, chain, hop, dials, ceWait, inbox,
                   dcur, dsends>>

-----------------------------------------------------------------------------
Next ==
    \/ ResolveProxiesPick
    \/ \E t \in Targets : Spawn(t)
    \/ Acquire
    \/ \E r \in Resolvers :
          \/ ResolveDone(r) \/ HopSkip(r) \/ DialStart(r) \/ DialSuccess(r)
          \/ DialsDone(r) \/ ProxyStart(r) \/ ProxySend(r) \/ ProxyOK(r)
          \/ ProxyFail(r)
    \/ DiscoStart \/ DiscoPick \/ DiscoSend \/ DiscoDelete \/ DiscoNextPass

\* Every step is a goroutine that can run: dials end by their timer, and
\* proxyConnect always answers (Waiters, EveryOpReturns).  Typing disco
\* is the user's choice and is not fair.
Fairness ==
    /\ WF_vars(ResolveProxiesPick)
    /\ \A t \in Targets : WF_vars(Spawn(t))
    /\ WF_vars(Acquire)
    /\ \A r \in Resolvers :
          /\ WF_vars(ResolveDone(r)) /\ WF_vars(HopSkip(r))
          /\ WF_vars(DialStart(r)) /\ WF_vars(DialSuccess(r))
          /\ WF_vars(DialsDone(r)) /\ WF_vars(ProxyStart(r))
          /\ WF_vars(ProxySend(r)) /\ WF_vars(ProxyOK(r) \/ ProxyFail(r))
    /\ WF_vars(DiscoPick) /\ WF_vars(DiscoSend) /\ WF_vars(DiscoDelete)
    /\ WF_vars(DiscoNextPass)

Spec == Init /\ [][Next]_vars /\ Fairness

-----------------------------------------------------------------------------
(* Properties.                                                             *)

\* What connect leaves behind, up to the disco that tears it down (which
\* resets no connectedOK and, for a target dialled BastionConns times,
\* cleans one loop: Teardown's subject).
Connecting == dpc = "idle"

\* connectedOK is recorded only for a target that has a ConnInfo, i.e. a
\* connection runEverywhere will use (spec scenario S1, section 7).
StatusTruthful ==
    Connecting => \A t \in Targets : status[t] = "ok" => ConnExists(t)

\* A ConnInfo is flagged isProxy exactly when its host is a bastion of some
\* chain, which is what disconnectEverywhere's three passes rely on.
ProxyFlagExact ==
    \A h \in Hosts : ConnExists(h) => (conn[h].proxy <=> h \in Bastions)

\* Every running remoteHost loop serves the inbox recorded in its host's
\* ConnInfo (spec section 8, property 3): none is unreachable by teardown.
SingleInbox ==
    Connecting => \A h \in Hosts, r \in Resolvers :
        loops[h][r] > 0 => ConnExists(h) /\ conn[h].owner = r

\* The serializer never dies of a nil dereference: setRequiresPw of a
\* bastion, or incProxyCount of a proxy disco deleted while a hop through
\* it was in flight.
NoPanic == ~panicked

\* connectEverywhere returns: every target goroutine finishes.
ConnectEverywhereReturns ==
    <>(exited \/ panicked \/ \A t \in Targets : rpc[t] \in {"done", "skipped"})

=============================================================================
