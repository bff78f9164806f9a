# TLA+ models of metassh

metassh keeps SSH connections open to many hosts, some of them reached through
chains of bastions. It runs commands on all of them at once and serves the
result to CLI sessions and to a control-master socket. Its concurrency is plain
Go: goroutines, unbuffered and buffered channels, and one goroutine (the State
serializer) that owns every shared map. These modules model that concurrency.
They check the properties the code depends on, and they exhibit the
interleavings in which it fails.

## The system and how its parts interact

| Part | Source | What it does |
|---|---|---|
| State serializer | `src/state.go` | One goroutine reading `reqChan`. It owns `targets`, `conn` (ConnInfo per host), `connWaiters` and `runWaiters` (in-flight operations keyed by host name). Each client method sends one request and waits for the answer. The exceptions are the `Delete*WaitInfo` calls, which do not wait. |
| Connection resolution | `src/resolve.go`, `src/unnamed/part_000` | `resolveProxies` connects the bastions (`isProxy`). `connectEverywhere` resolves every target's hop chain. A direct hop is dialled `BastionConns` times in parallel, and each successful dial starts its own service loop on the host's shared inbox. A proxied hop sends a `proxyRequest` to its parent's loop. |
| Service loops | `src/remotehost.go` | `remoteHost`: one loop per SSH client. On a run request it spawns `runCmd`. On a proxy request it spawns `proxyConnect`. On a cleanup request it closes the session, the client and (for a non-proxy) the Mux, then replies and returns. A failed keep-alive spawns `disconnectHost`. |
| Operations | `runCmd` in `src/main.go`, `proxyConnect` in `src/unnamed/part_003` | The operation registers a waiter holding a `timeoutChan` of capacity 1, then starts a worker and a sleep timer, and selects on the worker's response or the `timeoutChan`. The loser is drained by a spawned goroutine. The waiter is deleted on return. |
| Abort | `State.TimeoutWaiters` (`src/state.go`) | Called by the `abort` command, by `disco` and `clear`, and on SIGQUIT. The serializer sends `false` into every registered `timeoutChan`. |
| Teardown | `disconnectEverywhere`, `disconnectHost` in `src/unnamed/part_000` | `disconnectEverywhere` makes three passes over the connection keys: non-proxies, then indirect proxies, then direct proxies (the last with `BastionConns` cleanups each). Each pass sends cleanup requests and deletes the ConnInfo. `disconnectHost` does the same for one host. |
| Run dispatch | `runEverywhere` in `src/main.go` | For each non-proxy ConnInfo: `GetConnInfo`, send a `runRequest` into its inbox, then wait for the answer. |
| Control master | `src/readline.go` | `Mux`: a single goroutine that accepts ssh control-master clients, receives their file descriptors and opens sessions. `Close` sends it `controlKill`. |
| CLI, signals, config | `src/commands.go`, `src/server.go`, `src/signals.go`, `src/config.go`, `src/sshconfig.go`, `src/json.go`, `src/summary.go` | These are the entry points that start the operations above, plus parsing and reporting. |

These parts interact through channels. Every component calls the serializer.
Operations register waiters that an abort can reach. Service loops are fed
through inboxes, by resolution (proxy requests), by run dispatch and by
teardown. Teardown starts with an abort.

## Modules

### `Waiters.tla` (with `MC_Waiters.tla`)

This module models the waiter registry and the operations that use it. It
covers `runCmd` and `proxyConnect`, which share the same shape, and the
serializer's `timeoutWaiters`.

- **State:**
  - `waiters[kind][host]` is `connWaiters`/`runWaiters`, holding an entry `[op, state]` or `NoWaiter`.
  - `aborting`/`pending`/`aborts` track the serializer inside a `timeoutWaiters` case. It sends to one waiter per step, because each send can block.
  - Per operation:
    - `pc`: the operation goroutine;
    - `wpc`/`wres`: the worker's stage and response;
    - `tchan`: the contents of `timeoutChan`;
    - `sleeping`: the timer goroutine;
    - `drainT`/`drainR`: the two drains;
    - `reply`: what the caller got.
- **Actions:**
  - `Register` is `SetRunWaitInfo`/`SetConnWaitInfo` together with starting the worker and the timer.
  - `WorkerAdvance`/`WorkerFail` are the worker's `Set*WaitState` steps and error returns.
  - `SleepFires` is `sleep`.
  - `ReceiveResponse`/`ReceiveTimeout` are the two branches of the select.
  - `DrainTimeoutChan`/`DrainStraggler` are the spawned drains.
  - `Return` is the deferred `Delete*WaitInfo`.
  - `TimeoutWaitersBegin`/`Send`/`Reply` are the serializer case.
- **Data abstraction:** the host is a model value, and an operation is identified by the channel it owns. Command output and error texts are reduced to `ok`/`failed`/`timedout`/`aborted`.

### `Teardown.tla` (with `MC_Teardown.tla`)

This module models live connections, their service loops, and the goroutines
that send requests into the loops' inboxes.

- **State:**
  - `conn`: the hosts with a ConnInfo;
  - `loops[h]`: the loops still reading h's inbox;
  - `proc`: the process is running, died of a nil dereference (`panicked`), or called `os.Exit` (`exited`);
  - per actor: `apc`, `phase`, `keys` (the rest of the pass's key snapshot), `cur`, `sends`;
  - `targets`: the keys of `State.targets`. `info[h]` is what `clean` tells apart in a HostInfo: `ok`, `connFailed` (`!connectedOK`), or `runFailed` (`!runOK && runOnce`);
  - `spawned`/`seenOK`: the goroutines `clean` started, and the `hi.connectedOK` each was handed.
- **Actors:**
  - `disconnectEverywhere`, and `clear` (the same, followed by `ClearHostInfo`);
  - `cleanDeath`, the SIGINT/SIGTERM handler: the same passes, then `e.o.Debug("Cya")` and `os.Exit` (`Exit`). `DaemonDebug` is `--daemonize` with `--debug`: main's Output is muted, so each of its `Debug` calls waits forever (`DebugReturns`), in `Exit` and on the passes' debug paths (a key gone since the snapshot, the `Whaa` message);
  - `disconnectHost`, and a run sender (runEverywhere's goroutine for one host: it sends a `runRequest`, records the reply with `SetRunStatus`, and prints it with `e.o.Out`); `Quiet` names the senders of a `run -q`, whose Output is muted;
  - `clean`, and the goroutine it starts per failed target (`cleanHost`);
  - `summary`, whose key loop is the same as `quant`'s;
  - `target`: the external command, followed by `LoadBlob`.
  - `Before[a]` names the actors that return before `a` starts. This is how commands typed in one CLI session are sequenced.
- **Init:** any state `resolve` can leave behind for the loaded targets (`Targets0`) and their bastions. The connected set is closed under the hop relation `Parent`. A direct host has one loop per successful dial (a number from `DialsOK`), and a proxied host has one loop.
- **Actions:**
  - `DisconnectEverywhereStart` takes the first `GetConnKeys`. `NextPass` takes the later ones.
  - `PickKey` is the `range` step with its `ConnExists`.
  - `LookupTarget` is the `ConnExists` of `disconnectHost` and of a run sender.
  - `GetConnInfo` is the serializer's unchecked `*s.conn[name]`, followed by the caller's `isProxy`/`isDirect` filter.
  - `LoopCleanup` is a loop taking a `cleanupRequest`: it closes, possibly panics in `Mux.Close`, replies and exits.
  - `LoopRun` is a loop taking a `runRequest`.
  - `RunReply` is the sender's `SetRunStatus` with the run's verdict (a no-op for a host no longer in `targets`), and `RunOutput` its `e.o.Out`, which returns only if the Output is not muted (`OutputReturns`: `doOutput` waits for a reply the muted serializer never sends).
  - `ConnExists`, `HostExists` and `GetConnKeys` are the serializer's lookups the actions share.
  - `DeleteConnInfo` deletes the entry.
  - `GetHostKeys`, then `PickTarget` (the range step and `GetHostInfo`'s `HostExists`).
  - `GetHostInfo` is the serializer's unchecked `*s.targets[name]`. For `clean`, it also covers the `if` and `go func(host, hi)` that follow.
  - `ScanDone` is the end of the loop, including `clean`'s `wg.Wait`.
  - `CleanHostStart` is the goroutine's `if hi.connectedOK { disconnectHost }`. `DeleteHostInfo` follows it.
  - `ClearHostInfo` is the end of `clear`.
  - `TargetStart` runs the external command. If it fails, nothing is loaded.
  - `LoadNext` is LoadBlob's `HostExists` duplicate check.
  - `SetHostInfo` stores a fresh HostInfo, which has `connectedOK` false.
  - `LoadDone` ends the load.
- **Atomicity:** one loop step takes the request and delivers the reply in a single step. This is sound because the sender waits for that reply and nothing else touches the loop meanwhile.

### `Resolver.tla` (with `MC_Resolver.tla`)

This module models how connections come to exist: `connectEverywhere`, `resolveProxies` and `resolve`.

- **State:**
  - `conn[h]`: h's ConnInfo as `[proxy, direct, owner]`, where `owner` is the resolver whose inbox it records, or `None`;
  - `loops[h][r]`: remoteHost loops started on resolver r's inbox for h;
  - `proxyCount`, and per target `status` (connectedOK) and `requiresPw`;
  - `panicked`/`exited`: a nil dereference in the serializer, or `ErrExit`;
  - `resolveProxies`' iteration (`todo`, `seen` = chainMap's keys);
  - per resolver (each target's goroutine and the `resolveProxies` caller `RP`): `rpc`, `chain`, `hop`, and `dials`, the successful dials not yet registered.
- **Actions:**
  - `ResolveProxiesPick`: one host key. It skips a direct target, counts a prefix already in chainMap, or resolves the prefix with `isProxy`.
  - `ProxyStart`/`ProxySend`: `GetConnInfo(proxyhost)` hands back the proxy's inbox (`inbox[r]`), and the send on it completes only while a loop still reads it; the proxy's `proxyConnect` runs the password closure.
  - `Spawn`: the `ConnExists` check of `connectEverywhere`'s loop; a target not connected waits (`ceWait`) at `limiter <- struct{}{}`.
  - `Acquire`: the send on the limiter succeeds while fewer than `Concurrency` goroutines hold a slot (`Holding`), and the goroutine starts.
  - `HopSkip`: the hop's `ConnExists`, and the `continue` when the proxy's `GetConnInfo` fails.
  - `DialStart`: a direct hop. It chooses how many of the `BastionConns` dials fail or time out, and runs the password callback.
  - `DialSuccess`: one dial's `go remoteHost` and `SetConnInfo`.
  - `DialsDone`: `wg.Wait`.
  - `ProxyOK`/`ProxyFail`: `proxyConnect`'s answer. `ProxyOK` also covers `IncProxyCount` (a nil dereference once the proxy's ConnInfo is gone), `go remoteHost` and `SetConnInfo`.
  - The `disco` command, composed with connect: `DiscoStart` (after connect returned, or at any time after `connect -b`: constant `Background`), then `DiscoPick`, `DiscoSend`, `DiscoDelete` and `DiscoNextPass`, the three passes of `disconnectEverywhere` over `GetConnKeys` snapshots (`dpc`, `dpass`, `dkeys`, `dcur`, `dsends`). `StatusTruthful` and `SingleInbox` are stated up to disco (`Connecting`): disco resets no `connectedOK`, and its single cleanup of a directly dialled target is Teardown's subject.
  - `ResolveDone` is `return nil`.
  - `Finish` is `SetConnectionStatus`, or `ErrExit` for `resolveProxies`. `SetRequiresPw`, `SetConnectionStatus` and `IncProxyCount` are the serializer's writes, with their unchecked dereferences.
- **Abstraction:** the network is a nondeterministic number of failed dials and a nondeterministic proxy answer. The timers and aborts inside `proxyConnect` are Waiters' subject.

### `Mux.tla` (with `MC_Mux.tla`)

This module models the ControlMaster server of one host.

- **State:**
  - the listener;
  - `handleControlMaster`'s position (`hpc`, `hcli`, `fdi`, `fds`) and `sesscounter`;
  - the caller of `Close` (`kpc`);
  - per client connection: its `readMsg` goroutine (`reader`, `rmsg`), the two byte streams (`toSrv`, `toCli`), who closed which end, and the remote session.
- **Clients:** OpenSSH mux clients (`ssh -S … cmd`, `ssh -O check`). Their steps are written from the OpenSSH client's protocol, not from this repository, and are not mapped.
- **Actions:** accept, `readMsg` (a frame, or a hang-up), each case of `handleControlMaster`, the three-step `getFd` loop, the wiring of the session, the waiter that sends EXIT, `Close`, and `controlKill`.

### `MuxCodec.tla`

This module covers the byte level of the same protocol, and extends Mux.

- **Operators:**
  - `PullUint32`/`PullString`/`PullBool`, with `PullFields` over the field layout, make up `ParseNewSession`;
  - a parse that would slice past the end, which is a Go panic, yields `ok = FALSE`.
- **Reference:** OpenSSH's encoding of a NEW_SESSION body (`EncodeNewSession`), written field by field and independently of the decoder's layout.
- **Properties:** stated in the states where a client of Mux's runs has a NEW_SESSION in flight.
- The length framing of `sendMsg`/`readMsg` is not modelled at byte level; Mux models each frame as one message.

### `ReadlineServer.tla` (with `MC_ReadlineServer.tla`)

This module models concurrent SSH CLI sessions.

- **State:**
  - the shared `readlineSession` flag;
  - `rlStream`: the session whose tty GNU readline's global streams are bound to;
  - per session: its position in its requests, the flag value it read, and whether it runs the readline `cli`.
- **Actions:** `PtyReq` (the rebinding when the flag is clear) and `PtyFail`. `ShellCheck`/`ShellStart` are the read and the write of the flag, as separate steps because nothing synchronises them. The rest are `PlainEnds`, `ReadlineEnds` (the deferred reset) and `LoopEnds`.

## Runs

| Run | cfg | Expect | What it shows |
|---|---|---|---|
| waiters_core | `Waiters.cfg` | pass | A connection and a run on two hosts, with one abort. No abort send finds a full `timeoutChan` (`NoStuckAbortSend`). Every operation returns (`EveryOpReturns`), and every worker's answer is consumed (`WorkerResponseTaken`). |
| waiters_abort_twice | `WaitersAbortTwice.cfg` | violation | With two aborts, a run whose timer fired and which already took one abort is still registered. The second abort's send blocks the serializer forever. |
| teardown_sequential | `Teardown.cfg` | pass | One CLI session, in server mode, over two bastions, an indirect bastion and three leaves (one loaded target, one the `target` command adds), from every connectable subset and every HostInfo verdict, with all dials up. The session runs `target` (reprinting a loaded host and adding a new one), then `run`, then `clean` (its goroutines concurrent with each other), then `summary`, then `clear`. The properties are `NoSendToDeadInbox`, `NoPanic`, `CleanupOrder` (spec §8 property 7) and `CleanDisconnects` (a target `clean` culls has no connection left). Last, a SIGINT: its handler finds nothing left and exits. |
| teardown_clean_summary | `TeardownCleanSummary.cfg` | violation | `clean` in one CLI session deletes a target between `summary`'s `HostExists` and its `getHostInfo` in another, and the serializer dereferences the missing entry (`NoPanic`). |
| teardown_partial_dial | `TeardownPartialDial.cfg` | violation | A bastion with one failed dial: the third pass sends a second cleanup that no loop reads. |
| mux_serve | `Mux.cfg` | pass | An exec client and a check client against a live Mux. Every HELLO, ALIVE_CHECK and NEW_SESSION is answered (`RequestsAnswered`). While a NEW_SESSION is in flight, every sampled OpenSSH body parses back to its fields (`CodecRoundTrip`). |
| mux_close | `MuxClose.cfg` | pass | The same clients, which may exit at any point, while the service loop's cleanup calls `Close`. `Close` always returns (`CloseReturns`). |
| mux_client_dies | `MuxClientDies.cfg` | violation | A client that exits between its descriptors: `getFd`'s `continue` wires a session with unset descriptors. |
| resolver_core | `Resolver.cfg` | pass | `connectEverywhere` over a direct target, a target behind one bastion and one behind two, with one of two dials failing, proxy answers failing, and a target needing a password. The properties: `StatusTruthful` (only connected targets are marked ok), `ProxyFlagExact` (exactly the bastions are flagged `isProxy`), `SingleInbox` (every loop serves the inbox its host's ConnInfo records), `NoPanic`, and `ConnectEverywhereReturns`. Then `disco` runs its three passes over what connect left. |
| resolver_dial_fail | `ResolverDialFail.cfg` | violation | Every dial of a hop fails, yet `resolve` returns nil and the target is recorded `connectedOK`. |
| resolver_password_bastion | `ResolverPasswordBastion.cfg` | violation | A bastion that rejects the key makes `setRequiresPw` dereference a missing `targets` entry. |
| readline_own_terminal | `ReadlineServer.cfg` | violation | A second session's `pty-req` between the first's `pty-req` and `shell` leaves GNU readline serving the first session on the second's tty. |

Other disagreements were confirmed by hand with TLC and are recorded as hazard notes in `PROJECT.json`:
- two runs on one host (Waiters' `WaiterCountAccurate`, a definition no run checks);
- the `clean`/`GetConnInfo` nil dereference;
- `m.Close` on a nil Mux outside server mode;
- a target dialled directly getting one cleanup for its `BastionConns` loops (a topology with such a target);
- a run sender racing teardown;
- `Close` blocked behind `getFd`;
- a frame lost after `controlKill`;
- duplicate concurrent dials of a bastion (`SingleInbox` with all dials failing);
- two sessions both taking GNU readline (implied by `ReadlineOwnTerminal`);
- `run -q` never returning: with `Quiet = {r}` the run sender never leaves `output` and the commands after it never start, because the muted Output's `Out` waits forever (`summary.go:352`);
- `disco` after `connect -b` (`Background = TRUE`): disco deletes a bastion while a hop through it is in flight, and `incProxyCount` dereferences the missing entry (`NoPanic`, `state.go:570`); a proxied hop's send on a bastion inbox whose loops disco cleaned blocks, and connect never returns (`ConnectEverywhereReturns`);
- a daemon with `--debug` (`DaemonDebug = TRUE`): the SIGINT handler hangs in `Debug` before `os.Exit`;
- SIGINT and SIGTERM together: two `cleanDeath` goroutines send a second cleanup to an inbox whose loops returned (`NoSendToDeadInbox`);
- `--concurrency 0`: with `Concurrency = 0`, `ConnectEverywhereReturns` is violated, the first send on the limiter blocking forever.

Every property of a passing run has a mutant in `PROJECT.json`: a plausible bug
in the mapped code that makes TLC report the property violated.

## Bounds and why they are enough

- **Waiters:** the pass run checks two operations of different kinds on two hosts, with one abort.
  - The hazards involve one operation against the serializer (full channel, drains), or two on one host (the violation run).
  - A third operation only multiplies interleavings: 3.05M states without a new kind of step.
  - `MaxAborts = 2` is the smallest bound that exhibits the blocked send.
- **Teardown:** the chain topology has:
  - a direct proxy and an indirect proxy, with targets behind each; no target is dialled directly, because such a target is orphaned by the one cleanup it gets (a hazard note);
  - two bastions, so the third pass visits keys in both orders;
  - `Init` ranging over all connectable subsets.
  
  In the session run, t1 is the loaded target and `target` adds t3. Two `clean` goroutines suffice to make them concurrent. With a third target, the run took two minutes and reached no new kind of step.
  `BastionConns = 2` is the code's default and the smallest value that distinguishes a shared inbox.

- **Resolver:** three targets cover a direct target, a shared bastion prefix, and a two-hop prefix. `BastionConns = 2` with up to one failed dial covers a partly dialled bastion. Password auth on a target exercises the callback. `Concurrency = 2` is below the number of targets, so a target waits on a full limiter.
- **Mux:** two clients, one exec and one check, cover every message type and a NEW_SESSION concurrent with another connection. The codec samples vary every field of NEW_SESSION (two request ids, four flag patterns, two escape chars, and strings of length 0 to 2), plus a byte order with two non-zero bytes.
- **ReadlineServer:** two interactive sessions are the smallest case with an interleaving.

## Fairness

- **Waiters:** weak fairness on every step of a goroutine that is not blocked on the network: the serializer's sends and reply, the timer, the select branches, the drains and the deferred delete.
  - The worker's SSH steps (`WorkerAdvance`, `WorkerFail`) get no fairness. A remote command may hang forever, and the timer is what must rescue the caller.
  - Starting an operation or an abort is a user action and is not fair.
- **Teardown:** weak fairness for the actors' steps and for loops taking requests. A loop is always at its `select` and takes a request in bounded time. Starting teardown, a `clean` or a run is the user's choice, and so is the signal; the session run delivers it after the last command, when the CLI is idle (two handlers at once are a hazard note). A command waits for the ones before it in its session, because `cli` reads the next line only when `runCliCmd` returns.

- **Resolver:** weak fairness on every goroutine step, disco's included; typing `disco` is the user's choice and is not fair. Dials end by their own timer, and `proxyConnect` always answers (Waiters' `EveryOpReturns`).
- **Mux:** weak fairness on the server's goroutines. The clients and the remote sshd are fair only with `FairPeers`, because a real client may stall; `CloseReturns` needs it, as the hazard notes explain.

Deadlock checking is off in every cfg: once every actor is done the program
legitimately idles, waiting for the next command.

## Not modelled (yet), and the plan

Done: Waiters, Teardown (with the targets map, the `clean`, `clear`, `summary`, `target` and `run` commands and the SIGINT/SIGTERM handler), Resolver (composed with `disco`), Mux, MuxCodec and ReadlineServer. Still to do:

1. Malformed frames on the control-master socket, which make `readMsg` and `parseNewSession` panic. `MuxCodec` already yields `ok = FALSE` there.
2. The SIGQUIT handler's `Out` lines before `TimeoutWaiters`, which hang in a daemon (hazard at `signals.go:28`); Waiters models the abort but no Output.

Not modelled at all:
- CLI parsing and output formatting;
- summary and quantile computation (`summary.go`, `part_001`);
- JSON and ssh_config parsing;
- spool file I/O;
- PTR normalization, which is taken as the identity on canonical host names;
- the superseded `run.go` copy in `part_002`;
- the keep-alive ticker of `remoteHost`, whose sends are no-ops to the model's state (its goroutine leak is a hazard note);
- `exec` and `window-change` requests of the SSH server, and the cgo readline wrapper.
