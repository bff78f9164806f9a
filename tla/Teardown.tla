------------------------------ MODULE Teardown ------------------------------
(***************************************************************************)
(* Live connections, their per-host service loops, and the paths that send *)
(* requests into the loops' inboxes: disconnectEverywhere (connect.go),    *)
(* disconnectHost (from `clean` and from a loop whose keep-alive session   *)
(* failed) and the per-host senders of runEverywhere (run.go).             *)
(*                                                                         *)
(* A connection is a ConnInfo entry in State.conn whose reqChan is the     *)
(* inbox of its remoteHost loops: BastionConns loops share the inbox of a  *)
(* directly dialled host (one per successful dial), one loop serves a host *)
(* reached through a proxy.  Inboxes and reply channels are unbuffered: a  *)
(* sender blocks until a loop takes its request.  A loop that takes a      *)
(* cleanupRequest closes its session, client and (non-proxy) Mux, replies  *)
(* and returns; one that takes a runRequest starts runCmd and goes on.     *)
(*                                                                         *)
(* GetConnInfo is two State calls, ConnExists then getConnInfo; the        *)
(* serializer dereferences s.conn[name] without a presence check, so the   *)
(* second one panics if the entry went away in between.                   *)
(*                                                                         *)
(* The commands that read or cull the targets map (State.targets, one      *)
(* HostInfo per host loaded by `target`) are actors too.  `clean` takes    *)
(* GetHostKeys, reads each HostInfo with GetHostInfo and, for a target     *)
(* whose connect or run failed, starts a goroutine that disconnects it     *)
(* (disconnectHost) if it had connected and then deletes its HostInfo;     *)
(* it waits for them all.  `summary` (and `quant`) reads every HostInfo.  *)
(* `clear` is disconnectEverywhere followed by ClearHostInfo.  GetHostInfo *)
(* is two State calls as well, HostExists then getHostInfo, and the        *)
(* serializer's getHostInfo case dereferences s.targets[name] unchecked.   *)
(* Commands typed in one CLI session run one after another (Before).       *)
(***************************************************************************)
EXTENDS Naturals, FiniteSets

CONSTANTS
    Hosts,         \* hosts that have, or had, a ConnInfo
    Parent,        \* Parent[h]: the hop h was reached through, or None
    Proxies,       \* hosts connected by resolveProxies (isProxy = true)
    BastionConns,  \* e.c.BastionConns
    DialsOK,       \* how many of a direct host's BastionConns dials may succeed
    ServerMode,    \* e.c.Server: non-proxy loops own a Mux
    Actors,        \* goroutines that send requests into inboxes
    Role,          \* Role[a]: see Roles
    Target,        \* Target[a]: the host a disconnectHost or run sender, or a
                   \* clean goroutine, is for
    Before,        \* Before[a]: actors that return before a starts
    Targets0,      \* the hosts `target` loaded into State.targets
    Load,          \* Load[a]: the servers in the JSON a `target` command reads
    Quiet,         \* run senders of a `run -q`, whose Output is muted
    DaemonDebug,   \* --daemonize with --debug: e.o is muted and Debug writes
    None           \* model value

\* disconnectEverywhere alone (disco) or inside `clear`; cleanDeath, the
\* SIGINT/SIGTERM handler (disconnectEverywhere, Debug, os.Exit);
\* disconnectHost from a failing keep-alive; a runEverywhere sender;
\* `clean`, and the goroutine it starts for one host; `summary`.
Roles == {"disconnectEverywhere", "clear", "cleanDeath", "disconnectHost",
          "run", "clean", "cleanHost", "summary", "target"}
DERoles == {"disconnectEverywhere", "clear", "cleanDeath"}
ScanRoles == {"clean", "summary"}

ASSUME /\ Parent \in [Hosts -> Hosts \cup {None}]
       /\ Proxies \subseteq Hosts
       /\ BastionConns \in Nat \ {0}
       /\ DialsOK \subseteq 1..BastionConns /\ DialsOK # {}
       /\ ServerMode \in BOOLEAN
       /\ Targets0 \subseteq Hosts
       /\ \A a \in Actors :
            /\ Role[a] \in Roles
            /\ Target[a] \in Hosts
            /\ Before[a] \subseteq Actors
            /\ Load[a] \subseteq Hosts
       /\ Quiet \subseteq {a \in Actors : Role[a] = "run"}
       /\ DaemonDebug \in BOOLEAN

IsDirect(h) == Parent[h] = None
IsProxy(h) == h \in Proxies

VARIABLES
    conn,      \* DOMAIN of State.conn: hosts with a ConnInfo
    loops,     \* loops[h]: remoteHost loops still reading h's inbox
    proc,      \* running; panicked (a nil dereference); exited (os.Exit)
    apc,       \* program counter of each actor
    phase,     \* disconnectEverywhere: which of its three passes (1..3)
    keys,      \* disconnectEverywhere: keys of the pass not yet visited
    cur,       \* the host the actor is working on
    sends,     \* cleanupRequests the actor still has to send for cur
    targets,   \* DOMAIN of State.targets
    info,      \* info[h]: the HostInfo verdict, see Verdicts
    spawned,   \* clean goroutines started so far
    seenOK     \* seenOK[g]: the hi.connectedOK clean passed to goroutine g

vars == <<conn, loops, proc, apc, phase, keys, cur, sends, targets, info,
          spawned, seenOK>>
targetVars == <<targets, info, spawned, seenOK>>

PCs == {"idle", "pick", "get", "send", "delete", "done", "info",
        "deltarget", "clearhosts", "load", "set", "reply", "output", "exit"}

\* What clean tells apart in a HostInfo: connectedOK, and
\* `!hi.runOK && hi.runOnce`.
Verdicts == {"ok", "connFailed", "runFailed"}

TypeOK ==
    /\ conn \subseteq Hosts
    /\ loops \in [Hosts -> 0..BastionConns]
    /\ proc \in {"running", "panicked", "exited"}
    /\ apc \in [Actors -> PCs]
    /\ phase \in [Actors -> 1..3]
    /\ keys \in [Actors -> SUBSET Hosts]
    /\ cur \in [Actors -> Hosts \cup {None}]
    /\ sends \in [Actors -> 0..BastionConns]
    /\ targets \subseteq Hosts
    /\ info \in [Hosts -> Verdicts]
    /\ spawned \subseteq Actors
    /\ seenOK \in [Actors -> BOOLEAN]

\* The states resolve can leave behind: any set of connected hosts whose
\* hops are connected too; a direct host has one loop per successful dial
\* (resolve registers its ConnInfo after the first), a proxied host one.
Connectable(S) == \A h \in S : Parent[h] # None => Parent[h] \in S

Init ==
    /\ conn \in {S \in SUBSET (Proxies \cup Targets0) : Connectable(S)}
    /\ loops \in {l \in [Hosts -> 0..BastionConns] :
                     \A h \in Hosts :
                        /\ h \notin conn => l[h] = 0
                        /\ h \in conn /\ IsDirect(h) => l[h] \in DialsOK
                        /\ h \in conn /\ ~IsDirect(h) => l[h] = 1}
    /\ proc = "running"
    /\ apc = [a \in Actors |-> "idle"]
    /\ phase = [a \in Actors |-> 1]
    /\ keys = [a \in Actors |-> {}]
    /\ cur = [a \in Actors |-> None]
    /\ sends = [a \in Actors |-> 0]
    /\ targets = Targets0
    \* connectEverywhere recorded every target: a connected one has
    \* connectedOK (disco leaves connectedOK set on the others).
    /\ info \in {i \in [Hosts -> Verdicts] :
                    \A h \in Hosts :
                        /\ h \notin Targets0 => i[h] = "ok"
                        /\ h \in conn => i[h] # "connFailed"}
    /\ spawned = {}
    /\ seenOK = [a \in Actors |-> FALSE]

Running == proc = "running"

\* A command of a CLI session starts once the ones typed before it returned.
MayStart(a) == \A b \in Before[a] : apc[b] = "done"

-----------------------------------------------------------------------------
(* Helpers: the State calls and the filters of disconnectEverywhere.       *)

\* The serializer's connExists, hostExists and getConnKeys cases.
ConnExists(h) == h \in conn
HostExists(h) == h \in targets
GetConnKeys == conn

\* Mutant: the first pass forgets its `if ci.isProxy { continue }`.
SelectedNoProxyFilter(p, h) ==
    CASE p = 1 -> TRUE
      [] p = 2 -> IsProxy(h) /\ ~IsDirect(h)
      [] p = 3 -> IsProxy(h) /\ IsDirect(h)

\* disconnectEverywhere's three passes: non-proxies; indirect proxies;
\* direct proxies, which get BastionConns cleanupRequests each.
Selected(p, h) ==
    CASE p = 1 -> ~IsProxy(h)
      [] p = 2 -> IsProxy(h) /\ ~IsDirect(h)
      [] p = 3 -> IsProxy(h) /\ IsDirect(h)

\* Mutant: every pass sends BastionConns.
CleanupsForAll(p) == BastionConns

CleanupsFor(p) == IF p = 3 THEN BastionConns ELSE 1

\* What the actor does with cur once getConnInfo returned it: how many
\* cleanupRequests it sends (0: it skips the host).
Cleanups(a, h) ==
    CASE Role[a] \in DERoles ->
            IF Selected(phase[a], h) THEN CleanupsFor(phase[a]) ELSE 0
      [] Role[a] \in {"disconnectHost", "cleanHost"} -> 1
      [] Role[a] = "run" -> IF IsProxy(h) THEN 0 ELSE 1

\* Mutant: `if nmErr == nil { m.Close() }` without the !isProxy test.
MuxClosedNoProxyCheck(h) == TRUE

\* remoteHost's cleanup calls m.Close() when `!isProxy && nmErr == nil`.
MuxClosed(h) == ~IsProxy(h)

\* m is only set by NewMux, which runs for non-proxies in server mode.
MuxNil(h) == IsProxy(h) \/ ~ServerMode

\* m.Close() on a nil *Mux dereferences it.
CleanupPanics(h) == MuxClosed(h) /\ MuxNil(h)

-----------------------------------------------------------------------------
(* disconnectEverywhere.                                                   *)

\* What follows the third pass: clear's ClearHostInfo, cleanDeath's exit.
AfterPasses(a) ==
    CASE Role[a] = "clear"      -> "clearhosts"
      [] Role[a] = "cleanDeath" -> "exit"
      [] OTHER                  -> "done"

\* e.o.Debug returns, unless it writes to the Output --daemonize muted:
\* cleanDeath's e is main's, a CLI command's its session's.
DebugReturns(a) == ~(DaemonDebug /\ Role[a] = "cleanDeath")

\* The `Whaa, how did %s not get killed!?` debug message: a host the later
\* passes find of the wrong kind.
Whaa(p, h) == \/ p = 2 /\ ~IsProxy(h)
              \/ p = 3 /\ ~(IsProxy(h) /\ IsDirect(h))

\* TimeoutWaiters (see Waiters), then GetConnKeys for the first pass.
DisconnectEverywhereStart(a) ==
    /\ Running
    /\ Role[a] \in DERoles
    /\ apc[a] = "idle"
    /\ MayStart(a)
    /\ apc' = [apc EXCEPT ![a] = "pick"]
    /\ phase' = [phase EXCEPT ![a] = 1]
    /\ keys' = [keys EXCEPT ![a] = GetConnKeys]
    /\ UNCHANGED <<conn, loops, proc, cur, sends,
                   targetVars>>

\* Mutant: `phase <= 3`, one pass too many.
NextPassOffByOne(a) ==
    /\ Running
    /\ Role[a] \in DERoles
    /\ apc[a] = "pick"
    /\ keys[a] = {}
    /\ IF phase[a] <= 3
       THEN /\ phase' = [phase EXCEPT ![a] = phase[a] + 1]
            /\ keys' = [keys EXCEPT ![a] = GetConnKeys]
            /\ UNCHANGED apc
       ELSE /\ apc' = [apc EXCEPT ![a] = AfterPasses(a)]
            /\ UNCHANGED <<phase, keys>>
    /\ UNCHANGED <<conn, loops, proc, cur, sends,
                   targetVars>>

\* The pass is over: GetConnKeys for the next one, or return.
NextPass(a) ==
    /\ Running
    /\ Role[a] \in DERoles
    /\ apc[a] = "pick"
    /\ keys[a] = {}
    /\ IF phase[a] < 3
       THEN /\ phase' = [phase EXCEPT ![a] = phase[a] + 1]
            /\ keys' = [keys EXCEPT ![a] = GetConnKeys]
            /\ UNCHANGED apc
       ELSE /\ apc' = [apc EXCEPT ![a] = AfterPasses(a)]
            /\ UNCHANGED <<phase, keys>>
    /\ UNCHANGED <<conn, loops, proc, cur, sends,
                   targetVars>>

\* Next key of the pass (map order: any) and its ConnExists: absent keys
\* are skipped with a debug message.
PickKey(a) ==
    /\ Running
    /\ Role[a] \in DERoles
    /\ apc[a] = "pick"
    /\ \E h \in keys[a] :
        /\ keys' = [keys EXCEPT ![a] = @ \ {h}]
        /\ IF ConnExists(h)
           THEN /\ apc' = [apc EXCEPT ![a] = "get"]
                /\ cur' = [cur EXCEPT ![a] = h]
           ELSE /\ DebugReturns(a)
                /\ UNCHANGED <<apc, cur>>
    /\ UNCHANGED <<conn, loops, proc, phase, sends,
                   targetVars>>

-----------------------------------------------------------------------------
(* disconnectHost(e, host) and a runEverywhere sender for host: the same   *)
(* GetConnInfo, then one request.                                          *)

\* A clean goroutine goes on to DeleteHostInfo once disconnectHost returned,
\* with or without an error.
AfterDisconnect(a) == IF Role[a] = "cleanHost" THEN "deltarget" ELSE "done"

LookupTarget(a) ==
    /\ Running
    /\ Role[a] \in {"disconnectHost", "run"}
    /\ apc[a] = "idle"
    /\ MayStart(a)
    /\ IF ConnExists(Target[a])
       THEN /\ apc' = [apc EXCEPT ![a] = "get"]
            /\ cur' = [cur EXCEPT ![a] = Target[a]]
       ELSE /\ apc' = [apc EXCEPT ![a] = "done"]
            /\ UNCHANGED cur
    /\ UNCHANGED <<conn, loops, proc, phase, keys, sends,
                   targetVars>>

-----------------------------------------------------------------------------
(* The targets map: clean, summary and clear.                              *)

\* clean's test: `!hi.connectedOK || (!hi.runOK && hi.runOnce)`.
Failed(v) == v \in {"connFailed", "runFailed"}

\* The goroutine clean starts for host h.
CleanGoroutine(h) == CHOOSE g \in Actors : Role[g] = "cleanHost" /\ Target[g] = h

\* GetHostKeys: the keys of State.targets, in map order.
GetHostKeys(a) ==
    /\ Running
    /\ Role[a] \in ScanRoles
    /\ apc[a] = "idle"
    /\ MayStart(a)
    /\ keys' = [keys EXCEPT ![a] = targets]
    /\ apc' = [apc EXCEPT ![a] = "pick"]
    /\ UNCHANGED <<conn, loops, proc, phase, cur, sends, targetVars>>

\* Next key and GetHostInfo's HostExists: a missing host is an error, logged,
\* and the loop goes on.
PickTarget(a) ==
    /\ Running
    /\ Role[a] \in ScanRoles
    /\ apc[a] = "pick"
    /\ \E h \in keys[a] :
        /\ keys' = [keys EXCEPT ![a] = @ \ {h}]
        /\ IF HostExists(h)
           THEN /\ apc' = [apc EXCEPT ![a] = "info"]
                /\ cur' = [cur EXCEPT ![a] = h]
           ELSE UNCHANGED <<apc, cur>>
    /\ UNCHANGED <<conn, loops, proc, phase, sends, targetVars>>

\* Mutant: the goroutine only deletes the HostInfo, never disconnecting.
SpawnCleanNoDisconnect(a, h) ==
    /\ spawned' = spawned \cup {CleanGoroutine(h)}
    /\ seenOK' = [seenOK EXCEPT ![CleanGoroutine(h)] = FALSE]

\* `go func(host string, hi HostInfo)`: the goroutine gets the copy read.
SpawnClean(a, h) ==
    /\ spawned' = spawned \cup {CleanGoroutine(h)}
    /\ seenOK' = [seenOK EXCEPT ![CleanGoroutine(h)] = info[h] # "connFailed"]

\* getHostInfo: `*s.targets[name]` panics when the entry went away since
\* HostExists.  clean starts a goroutine (wg.Add) for a failed target.
GetHostInfo(a) ==
    /\ Running
    /\ apc[a] = "info"
    /\ IF cur[a] \notin targets
       THEN /\ proc' = "panicked"
            /\ UNCHANGED <<apc, spawned, seenOK>>
       ELSE /\ apc' = [apc EXCEPT ![a] = "pick"]
            /\ IF Role[a] = "clean" /\ Failed(info[cur[a]])
               THEN SpawnClean(a, cur[a])
               ELSE UNCHANGED <<spawned, seenOK>>
            /\ UNCHANGED proc
    /\ UNCHANGED <<conn, loops, phase, keys, cur, sends, targets, info>>

\* The key loop is over; clean's wg.Wait returns once its goroutines did.
ScanDone(a) ==
    /\ Running
    /\ Role[a] \in ScanRoles
    /\ apc[a] = "pick"
    /\ keys[a] = {}
    /\ Role[a] = "clean" => \A g \in spawned : apc[g] = "done"
    /\ apc' = [apc EXCEPT ![a] = "done"]
    /\ UNCHANGED <<conn, loops, proc, phase, keys, cur, sends, targetVars>>

\* The clean goroutine: disconnectHost if hi.connectedOK (its GetConnInfo
\* errs out when the host has no ConnInfo), then DeleteHostInfo.
CleanHostStart(g) ==
    /\ Running
    /\ Role[g] = "cleanHost"
    /\ apc[g] = "idle"
    /\ g \in spawned
    /\ IF seenOK[g] /\ ConnExists(Target[g])
       THEN /\ apc' = [apc EXCEPT ![g] = "get"]
            /\ cur' = [cur EXCEPT ![g] = Target[g]]
       ELSE /\ apc' = [apc EXCEPT ![g] = "deltarget"]
            /\ UNCHANGED cur
    /\ UNCHANGED <<conn, loops, proc, phase, keys, sends, targetVars>>

\* DeleteHostInfo(host).
DeleteHostInfo(g) ==
    /\ Running
    /\ apc[g] = "deltarget"
    /\ targets' = targets \ {Target[g]}
    /\ apc' = [apc EXCEPT ![g] = "done"]
    /\ UNCHANGED <<conn, loops, proc, phase, keys, cur, sends, info,
                   spawned, seenOK>>

\* cleanDeath after its disconnectEverywhere: e.o.Debug("Cya.\n"), then
\* os.Exit(0) ends every goroutine.
Exit(a) ==
    /\ Running
    /\ apc[a] = "exit"
    /\ DebugReturns(a)
    /\ proc' = "exited"
    /\ apc' = [apc EXCEPT ![a] = "done"]
    /\ UNCHANGED <<conn, loops, phase, keys, cur, sends, targetVars>>

\* clear: ClearHostInfo after its disconnectEverywhere.
ClearHostInfo(a) ==
    /\ Running
    /\ apc[a] = "clearhosts"
    /\ targets' = {}
    /\ apc' = [apc EXCEPT ![a] = "done"]
    /\ UNCHANGED <<conn, loops, proc, phase, keys, cur, sends, info,
                   spawned, seenOK>>

-----------------------------------------------------------------------------
(* target: the external command, then LoadBlob.                           *)

\* The TargetCmd exits non-zero or prints JSON that does not parse: an
\* error and nothing loaded; otherwise LoadBlob ranges over the servers.
TargetStart(a) ==
    /\ Running
    /\ Role[a] = "target"
    /\ apc[a] = "idle"
    /\ MayStart(a)
    /\ \/ apc' = [apc EXCEPT ![a] = "done"] /\ UNCHANGED keys
       \/ apc' = [apc EXCEPT ![a] = "load"] /\ keys' = [keys EXCEPT ![a] = Load[a]]
    /\ UNCHANGED <<conn, loops, proc, phase, cur, sends, targetVars>>

\* The next server and its HostExists: a duplicate is skipped.
LoadNext(a) ==
    /\ Running
    /\ apc[a] = "load"
    /\ \E h \in keys[a] :
        /\ keys' = [keys EXCEPT ![a] = @ \ {h}]
        /\ IF HostExists(h)
           THEN UNCHANGED <<apc, cur>>
           ELSE /\ apc' = [apc EXCEPT ![a] = "set"]
                /\ cur' = [cur EXCEPT ![a] = h]
    /\ UNCHANGED <<conn, loops, proc, phase, sends, targetVars>>

\* SetHostInfo: the serializer stores a fresh HostInfo (connectedOK false)
\* under the name, whatever was there.
SetHostInfo(a) ==
    /\ Running
    /\ apc[a] = "set"
    /\ targets' = targets \cup {cur[a]}
    /\ info' = [info EXCEPT ![cur[a]] = "connFailed"]
    /\ apc' = [apc EXCEPT ![a] = "load"]
    /\ UNCHANGED <<conn, loops, proc, phase, keys, cur, sends, spawned,
                   seenOK>>

\* LoadBlob returns the count; target prints it.
LoadDone(a) ==
    /\ Running
    /\ apc[a] = "load"
    /\ keys[a] = {}
    /\ apc' = [apc EXCEPT ![a] = "done"]
    /\ UNCHANGED <<conn, loops, proc, phase, keys, cur, sends, targetVars>>

-----------------------------------------------------------------------------
(* Steps shared by all actors.                                             *)

\* getConnInfo: `*s.conn[name]` panics when the entry is gone; otherwise the
\* caller decides from isProxy/isDirect how many requests to send.
GetConnInfo(a) ==
    /\ Running
    /\ apc[a] = "get"
    /\ IF cur[a] \notin conn
       THEN /\ proc' = "panicked"
            /\ UNCHANGED <<apc, sends>>
       ELSE /\ Role[a] \in DERoles /\ Whaa(phase[a], cur[a]) => DebugReturns(a)
            /\ sends' = [sends EXCEPT ![a] = Cleanups(a, cur[a])]
            /\ apc' = [apc EXCEPT ![a] =
                          IF Cleanups(a, cur[a]) = 0
                          THEN IF Role[a] \in DERoles
                               THEN "pick" ELSE "done"
                          ELSE "send"]
            /\ UNCHANGED proc
    /\ UNCHANGED <<conn, loops, phase, keys, cur,
                   targetVars>>

\* Mutants: the loop replies but has no `return`; the sender miscounts
\* the cleanupRequests it has sent.
LoopCleanupNoReturn(a) ==
    /\ Running
    /\ apc[a] = "send"
    /\ Role[a] # "run"
    /\ loops[cur[a]] > 0
    /\ sends' = [sends EXCEPT ![a] = @ - 1]
    /\ apc' = [apc EXCEPT ![a] = IF sends[a] = 1 THEN "delete" ELSE "send"]
    /\ UNCHANGED <<conn, loops, proc, phase, keys, cur,
                   targetVars>>

LoopCleanupNoCount(a) ==
    /\ Running
    /\ apc[a] = "send"
    /\ Role[a] # "run"
    /\ loops[cur[a]] > 0
    /\ loops' = [loops EXCEPT ![cur[a]] = @ - 1]
    /\ UNCHANGED <<conn, proc, apc, phase, keys, cur, sends,
                   targetVars>>

\* A loop of cur's inbox takes the actor's cleanupRequest: session.Close,
\* client.Close, m.Close for a non-proxy, reply, return.  The sender then
\* sends the next one or goes on to DeleteConnInfo.
LoopCleanup(a) ==
    /\ Running
    /\ apc[a] = "send"
    /\ Role[a] # "run"
    /\ loops[cur[a]] > 0
    /\ IF CleanupPanics(cur[a])
       THEN /\ proc' = "panicked"
            /\ UNCHANGED <<loops, apc, sends>>
       ELSE /\ loops' = [loops EXCEPT ![cur[a]] = @ - 1]
            /\ sends' = [sends EXCEPT ![a] = @ - 1]
            /\ apc' = [apc EXCEPT ![a] = IF sends[a] = 1 THEN "delete"
                                                         ELSE "send"]
            /\ UNCHANGED proc
    /\ UNCHANGED <<conn, phase, keys, cur,
                   targetVars>>

\* A loop of cur's inbox takes the runRequest and starts runCmd (whose
\* answer Waiters shows always comes); the loop keeps serving.
LoopRun(a) ==
    /\ Running
    /\ apc[a] = "send"
    /\ Role[a] = "run"
    /\ loops[cur[a]] > 0
    /\ apc' = [apc EXCEPT ![a] = "reply"]
    /\ UNCHANGED <<conn, loops, proc, phase, keys, cur, sends,
                   targetVars>>

\* The serializer's setRunStatus case: runOK and runOnce of a host that is
\* (still) a target; connectedOK, and so a connFailed verdict, stays.
SetRunStatus(h, ok) ==
    info' = IF h \in targets /\ info[h] # "connFailed"
            THEN [info EXCEPT ![h] = IF ok THEN "ok" ELSE "runFailed"]
            ELSE info

\* `resp := <-mychan`, then SetRunStatus; the goroutine prints the output
\* if the command wrote any to stdout.
RunReply(a) ==
    /\ Running
    /\ apc[a] = "reply"
    /\ \E ok \in BOOLEAN : SetRunStatus(cur[a], ok)
    /\ \E printed \in BOOLEAN :
          apc' = [apc EXCEPT ![a] = IF printed THEN "output" ELSE "done"]
    /\ UNCHANGED <<conn, loops, proc, phase, keys, cur, sends, targets,
                   spawned, seenOK>>

\* doOutput returns once the Output serializer took the string; on a muted
\* Output nothing is sent and `<-respChan` is never answered.
OutputReturns(a) == a \notin Quiet

\* e.o.Out of the output, then wg.Done.
RunOutput(a) ==
    /\ Running
    /\ apc[a] = "output"
    /\ OutputReturns(a)
    /\ apc' = [apc EXCEPT ![a] = "done"]
    /\ UNCHANGED <<conn, loops, proc, phase, keys, cur, sends, targetVars>>

\* DeleteConnInfo(host).
DeleteConnInfo(a) ==
    /\ Running
    /\ apc[a] = "delete"
    /\ conn' = conn \ {cur[a]}
    /\ apc' = [apc EXCEPT ![a] = IF Role[a] \in DERoles THEN "pick"
                                 ELSE AfterDisconnect(a)]
    /\ UNCHANGED <<loops, proc, phase, keys, cur, sends,
                   targetVars>>

-----------------------------------------------------------------------------
Next ==
    \E a \in Actors :
        \/ DisconnectEverywhereStart(a)
        \/ NextPass(a)
        \/ PickKey(a)
        \/ LookupTarget(a)
        \/ GetConnInfo(a)
        \/ LoopCleanup(a)
        \/ LoopRun(a)
        \/ RunReply(a)
        \/ RunOutput(a)
        \/ DeleteConnInfo(a)
        \/ GetHostKeys(a)
        \/ PickTarget(a)
        \/ GetHostInfo(a)
        \/ ScanDone(a)
        \/ CleanHostStart(a)
        \/ DeleteHostInfo(a)
        \/ ClearHostInfo(a)
        \/ Exit(a)
        \/ TargetStart(a)
        \/ LoadNext(a)
        \/ SetHostInfo(a)
        \/ LoadDone(a)

\* Every goroutine that can run eventually does; loops are always ready to
\* receive.  Actors start when the user or a failing keep-alive says so.
Fairness ==
    \A a \in Actors :
        /\ WF_vars(NextPass(a))
        /\ WF_vars(PickKey(a))
        /\ WF_vars(GetConnInfo(a))
        /\ WF_vars(LoopCleanup(a))
        /\ WF_vars(LoopRun(a))
        /\ WF_vars(RunReply(a))
        /\ WF_vars(RunOutput(a))
        /\ WF_vars(DeleteConnInfo(a))
        /\ WF_vars(PickTarget(a))
        /\ WF_vars(GetHostInfo(a))
        /\ WF_vars(ScanDone(a))
        /\ WF_vars(CleanHostStart(a))
        /\ WF_vars(DeleteHostInfo(a))
        /\ WF_vars(ClearHostInfo(a))
        /\ WF_vars(Exit(a))
        /\ WF_vars(LoadNext(a))
        /\ WF_vars(SetHostInfo(a))
        /\ WF_vars(LoadDone(a))

Spec == Init /\ [][Next]_vars /\ Fairness

-----------------------------------------------------------------------------
(* Properties.                                                             *)

Sending(a) == apc[a] = "send"

\* No request is ever sent into an inbox that no loop reads any more: such
\* a send on an unbuffered channel blocks its goroutine forever (and with
\* it `disco`, `clear`, SIGINT/SIGTERM shutdown or a runEverywhere).
NoSendToDeadInbox ==
    \A a \in Actors : Sending(a) => loops[cur[a]] > 0

\* Neither the serializer nor a service loop dies of a nil dereference.
NoPanic == proc # "panicked"

\* Cleanup order (spec section 8, property 7): a proxy's loop is torn down
\* only when no non-proxy ConnInfo remains, and a direct proxy's only when
\* no indirect proxy remains.
CleanupOrder ==
    [][\A h \in Hosts :
         loops'[h] < loops[h] =>
            /\ IsProxy(h) => \A g \in conn : IsProxy(g)
            /\ IsProxy(h) /\ IsDirect(h) =>
                  \A g \in conn : IsProxy(g) => IsDirect(g)]_vars

\* A target clean culled is gone from the connection map too once its
\* goroutine returned: clean never leaves the session, client and loops of a
\* host that is no longer a target.
CleanDisconnects ==
    \A g \in spawned : apc[g] = "done" => Target[g] \notin conn /\ Target[g] \notin targets

=============================================================================
